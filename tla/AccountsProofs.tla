--------------------------- MODULE AccountsProofs ---------------------------
(***************************************************************************)
(* What holds of Accounts for any number of tabs, passwords, seeds and     *)
(* vaults and for either kind of fault, as long as one tab at a time signs *)
(* in to an account of version 1.                                          *)
(***************************************************************************)
EXTENDS Accounts, FiniteSetTheorems, TLAPS

\* Of the tabs that sign in to an account of version 1 or upgrade it there is
\* never more than one.  Two of them overwrite each other's keypair, which the
\* run account_upgrade_race shows.
OneLegacyTab == LegacyTabs = 1

-----------------------------------------------------------------------------
(* The inductive invariant.                                                *)

UpgradePCs == {"load", "stage", "upgrade_batch"}
CreatePCs == {"create_share", "create_put", "undo"}
SessionPCs == {"change", "change_batch", "delete", "delete_objects", "delete_user"}
OldPCs == {"idle", "login", "second", "respond"} \union UpgradePCs

InFlow(r) == r.pc # "idle" /\ r.version = 1
HoldsKeys(r) == r.private # None

\* What a tab carries through its flow.
Placed(r) ==
  /\ r.pc \notin {"idle", "undo"} \union CreatePCs => r.typed # None
  /\ r.pc \in {"register_user", "register_keys", "change", "change_batch",
               "create_share", "create_put"} \union UpgradePCs => r.seed # None
  /\ r.pc \in {"change", "change_batch"} => r.next # None
  /\ r.pc \in {"stage"} \union CreatePCs <=> r.at # None
  /\ r.pc = "idle" => r.version = 0
  /\ r.pc \in {"idle", "login", "second", "respond"} => r.done = {}
  /\ r.pc \in UpgradePCs => r.version = 1
  /\ r.pc \in SessionPCs \union CreatePCs => HoldsKeys(r)
  /\ HoldsKeys(r) => r.public = r.private /\ r.sealed # None /\ r.sealed.pair = r.private

\* A session holds the account's private key, unless the account is deleted.
Keyed(r) == user.state # "gone" /\ HoldsKeys(r) => keys # None /\ r.private = keys.pub

\* The row a registration has inserted is still the one it derives the keys of.
Registering(r) ==
  r.pc = "register_keys" =>
    /\ user.state # "none"
    /\ user.state = "live" /\ keys = None => user.password = r.typed /\ user.salt = r.seed

\* Before the upgrade: who has got through the login knows the password, and an
\* upgrade has re-encrypted every vault it does not still have to treat, beside
\* the live object.
Upgrading(r) ==
  user.version = 1 =>
    /\ r.pc \in OldPCs
    /\ r.pc # "idle" => r.version = 1
    /\ r.pc \in {"second", "respond"} \union UpgradePCs => r.typed = Original
    /\ r.pc \in UpgradePCs =>
         /\ r.done \subseteq Owned /\ \A v \in r.done : object[v]["v2"] = r.seed
         /\ r.failed \/ Owned \subseteq r.todo \union r.done \union {r.at}
    /\ r.pc = "upgrade_batch" => ~r.failed /\ r.todo = {}

\* After it nobody takes the account for an old one, and the vault in hand has no
\* object before it has its share.
Creating(r) ==
  user.version = 2 =>
    /\ ~InFlow(r)
    /\ r.pc = "create_share" => object[r.at]["v2"] = None
    /\ r.pc = "create_put" /\ user.state = "live" /\ vault[r.at] # "none" =>
         share[r.at] = [pub |-> r.public, key |-> r.seed]

Good(r) == Placed(r) /\ Keyed(r) /\ Registering(r) /\ Upgrading(r) /\ Creating(r)

\* An account of version 1 is as it always was.
OldLive ==
  user.version = 1 =>
    /\ user = OldUser /\ keys = None
    /\ \A v \in Vaults : vault[v] # "none" => vault[v] = "v1" /\ object[v]["v1"] = Legacy

\* One of version 2 has the keys its credentials open, and a share with every
\* object.
NewLive ==
  /\ keys # None =>
       /\ user.state = "live" /\ user.version = 2
       /\ keys.sealed = [pair |-> keys.pub,
                         under |-> [password |-> user.password, salt |-> user.salt]]
  /\ user.version = 2 =>
       \A v \in Vaults :
         /\ vault[v] # "v1"
         /\ user.state # "gone" /\ Live(v) # None =>
              keys # None /\ share[v] = [pub |-> keys.pub, key |-> Live(v)]

\* One tab in the flow of an old account, one between the two rows of a
\* registration, one with a given vault in hand.
Alone ==
  \A t, o \in Tabs :
    \/ InFlow(tab[t]) /\ InFlow(tab[o])
    \/ tab[t].pc = "register_keys" /\ tab[o].pc = "register_keys"
    \/ tab[t].at # None /\ tab[t].at = tab[o].at
    => t = o

AllGood == \A t \in Tabs : Good(tab[t])

AccountInv == TypeOK /\ OldLive /\ NewLive /\ Alone /\ AllGood

\* t's record may become r: no other tab is in the place it takes.
Sole(t, r) ==
  \A o \in Tabs \ {t} :
    /\ ~(InFlow(r) /\ InFlow(tab[o]))
    /\ ~(r.pc = "register_keys" /\ tab[o].pc = "register_keys")
    /\ ~(r.at # None /\ r.at = tab[o].at)

-----------------------------------------------------------------------------
(* The records of the tabs.                                                *)

\* What a flow leaves behind.
LEMMA DoneFields ==
  ASSUME NEW r \in Tab
  PROVE  /\ Done(r) \in Tab
         /\ Done(r).pc = "idle" /\ Done(r).at = None /\ Done(r).version = 0
         /\ Done(r).done = {}
         /\ Done(r).private = r.private /\ Done(r).sealed = r.sealed
         /\ Done(r).public = r.public
BY ZenonT(60) DEF Done, NewTab, Tab, PCs

\* And how one is broken off.
LEMMA AbortedFields ==
  ASSUME NEW r \in Tab
  PROVE  /\ r.pc \in {"create_share", "create_put"} => Aborted(r) = [r EXCEPT !.pc = "undo"]
         /\ r.pc = "stage" =>
              Aborted(r) = [r EXCEPT !.pc = "load", !.at = None, !.failed = TRUE]
         /\ r.pc \notin {"create_share", "create_put", "stage"} => Aborted(r) = Done(r)
<1>1. CASE r.pc \in {"create_share", "create_put"}
  BY <1>1 DEF Aborted
<1>2. CASE r.pc = "stage"
  BY <1>2 DEF Aborted
<1>3. CASE r.pc \notin {"create_share", "create_put", "stage"}
  BY <1>3 DEF Aborted
<1>. QED  BY <1>1, <1>2, <1>3

LEMMA NewTabFits == NewTab \in Tab /\ Good(NewTab)
BY AccountsAssumption DEF NewTab, Tab, PCs, Good, Placed, Keyed, Registering, Upgrading,
  Creating, HoldsKeys, InFlow, SessionPCs, CreatePCs, UpgradePCs, OldPCs, Sealed

\* A flow that ends leaves a session that fits, if it was one.
LEMMA DoneFits ==
  ASSUME NEW r \in Tab, Keyed(r),
         HoldsKeys(r) => r.public = r.private /\ r.sealed # None /\ r.sealed.pair = r.private
  PROVE  Good(Done(r))
BY DoneFields DEF Good, Placed, Keyed, Registering, Upgrading, Creating, HoldsKeys, InFlow,
  SessionPCs, CreatePCs, UpgradePCs, OldPCs

\* So does one that is broken off.
LEMMA AbortedFits ==
  ASSUME NEW r \in Tab, Good(r)
  PROVE  /\ Aborted(r) \in Tab
         /\ Good(Aborted(r))
         /\ InFlow(Aborted(r)) => InFlow(r)
         /\ Aborted(r).pc # "register_keys"
         /\ Aborted(r).at \in {None, r.at}
<1>1. CASE r.pc \in {"create_share", "create_put"}
  <2>1. Aborted(r) = [r EXCEPT !.pc = "undo"]
    BY <1>1, AbortedFields
  <2>. QED  BY <1>1, <2>1 DEF Tab, PCs, Good, Placed, Keyed, Registering, Upgrading, Creating,
              HoldsKeys, InFlow, SessionPCs, CreatePCs, UpgradePCs, OldPCs
<1>2. CASE r.pc = "stage"
  <2>1. PICK q \in Tab : q = [r EXCEPT !.pc = "load", !.at = None, !.failed = TRUE]
    BY ZenonT(60) DEF Tab, PCs
  <2>2. /\ q.pc = "load" /\ q.at = None /\ q.failed /\ q.typed = r.typed /\ q.next = r.next
        /\ q.version = r.version /\ q.seed = r.seed /\ q.todo = r.todo /\ q.done = r.done
        /\ q.private = r.private /\ q.sealed = r.sealed /\ q.public = r.public
    BY <2>1 DEF Tab
  <2>3. Placed(q) /\ Keyed(q) /\ Registering(q) /\ Creating(q)
    BY <1>2, <2>2 DEF Good, Placed, Keyed, Registering, Creating, HoldsKeys, InFlow,
      SessionPCs, CreatePCs, UpgradePCs
  <2>4. Upgrading(q)
    BY <1>2, <2>2 DEF Good, Upgrading, UpgradePCs, OldPCs
  <2>5. Aborted(r) = q
    BY <1>2, <2>1, AbortedFields
  <2>. QED  BY <1>2, <2>2, <2>3, <2>4, <2>5 DEF Good, InFlow
<1>3. CASE r.pc \notin {"create_share", "create_put", "stage"}
  <2>1. Aborted(r) = Done(r)
    BY <1>3, AbortedFields
  <2>2. Good(Done(r))
    BY DoneFits DEF Good, Placed
  <2>. QED  BY <2>1, <2>2, DoneFields DEF InFlow
<1>. QED  BY <1>1, <1>2, <1>3

-----------------------------------------------------------------------------
(* Putting a step together.                                                *)

LEMMA AloneKept ==
  ASSUME Alone, tab \in [Tabs -> Tab], NEW t \in Tabs, NEW r, Become(t, r), Sole(t, r)
  PROVE  Alone'
<1>. SUFFICES ASSUME NEW u \in Tabs, NEW o \in Tabs, u # o
              PROVE  /\ ~(InFlow(tab[u]) /\ InFlow(tab[o]))'
                     /\ ~(tab[u].pc = "register_keys" /\ tab[o].pc = "register_keys")'
                     /\ ~(tab[u].at # None /\ tab[u].at = tab[o].at)'
  BY DEF Alone
<1>1. CASE u = t
  <2>1. tab'[u] = r /\ tab'[o] = tab[o] /\ o \in Tabs \ {t}
    BY <1>1 DEF Become
  <2>. QED  BY <2>1 DEF Sole, InFlow
<1>2. CASE o = t
  <2>1. tab'[o] = r /\ tab'[u] = tab[u] /\ u \in Tabs \ {t}
    BY <1>2 DEF Become
  <2>. QED  BY <2>1 DEF Sole, InFlow
<1>3. CASE u # t /\ o # t
  <2>1. tab'[o] = tab[o] /\ tab'[u] = tab[u]
    BY <1>3 DEF Become
  <2>. QED  BY <2>1 DEF Alone, InFlow
<1>. QED  BY <1>1, <1>2, <1>3

\* The invariant after a step of t, from what it makes of the server, of t, and
\* of what the others carry.
LEMMA Assembled ==
  ASSUME AccountInv, NEW t \in Tabs, NEW r \in Tab, Become(t, r), Sole(t, r),
         TypeOK', OldLive', NewLive', Good(r)',
         \A o \in Tabs \ {t} : \A x \in Tab : x = tab[o] => Good(x)'
  PROVE  AccountInv'
<1>1. Alone'
  BY AloneKept DEF AccountInv, TypeOK
<1>2. ASSUME NEW o \in Tabs PROVE Good(tab[o])'
  <2>1. CASE o = t
    <3>1. tab'[o] = r
      BY <2>1 DEF Become, AccountInv, TypeOK
    <3>. QED  BY <3>1 DEF Good, Placed, Keyed, Registering, Upgrading, Creating, HoldsKeys, InFlow
  <2>2. CASE o # t
    <3>1. PICK x \in Tab : x = tab[o]
      BY DEF AccountInv, TypeOK
    <3>2. Good(x)'
      BY <2>2, <3>1
    <3>3. tab'[o] = x
      BY <2>2, <3>1 DEF Become, AccountInv, TypeOK
    <3>. QED  BY <3>2, <3>3 DEF Good, Placed, Keyed, Registering, Upgrading, Creating, HoldsKeys, InFlow
  <2>. QED  BY <2>1, <2>2
<1>. QED  BY <1>1, <1>2 DEF AccountInv, AllGood

\* A step that leaves the server alone has only to say what t becomes.
LEMMA ClientStep ==
  ASSUME AccountInv, NEW t \in Tabs, NEW r \in Tab, Become(t, r), Sole(t, r), Good(r),
         UNCHANGED server
  PROVE  AccountInv'
<1>. USE DEF server
<1>1. TypeOK'
  BY DEF AccountInv, TypeOK, Become
<1>2. OldLive' /\ NewLive'
  BY DEF AccountInv, OldLive, NewLive, Live
<1>3. ASSUME NEW x, Good(x) PROVE Good(x)'
  BY <1>3 DEF Good, Placed, Keyed, Registering, Upgrading, Creating, Owned, HoldsKeys, InFlow
<1>4. ASSUME NEW o \in Tabs \ {t}, NEW x \in Tab, x = tab[o] PROVE Good(x)'
  BY <1>3, <1>4 DEF AccountInv, AllGood
<1>. QED  BY <1>1, <1>2, <1>3, <1>4, Assembled

LEMMA SoleKept ==
  ASSUME AccountInv, NEW t \in Tabs, NEW r,
         InFlow(r) => InFlow(tab[t]),
         r.pc = "register_keys" => tab[t].pc = "register_keys",
         r.at \in {None, tab[t].at}
  PROVE  Sole(t, r)
BY DEF AccountInv, Alone, Sole

LEMMA OfTab ==
  ASSUME AccountInv, NEW t \in Tabs
  PROVE  tab[t] \in Tab /\ Good(tab[t])
BY DEF AccountInv, AllGood, TypeOK

LEMMA UserFields ==
  ASSUME AccountInv
  PROVE  /\ user.state \in {"none", "live", "gone"} /\ user.version \in {0, 1, 2}
         /\ user.password \in Passwords \union {None} /\ user.salt \in Seeds \union {None}
         /\ (user.pending /\ user.legacySalt) \in BOOLEAN
BY DEF AccountInv, TypeOK, User

\* While the account is of version 1 nobody has a session.
LEMMA SessionIsNew ==
  ASSUME AccountInv, NEW t \in Tabs, HoldsKeys(tab[t])
  PROVE  user.version = 2
BY OfTab DEF AccountInv, OldLive, OldUser, Good, Keyed, TypeOK, User

LEMMA FlowIsOld ==
  ASSUME AccountInv, NEW t \in Tabs, InFlow(tab[t])
  PROVE  user.version = 1 /\ user = OldUser
BY OfTab DEF AccountInv, OldLive, Good, Creating, TypeOK, User

-----------------------------------------------------------------------------
(* The steps of one tab alone.                                             *)

LEMMA NobodyInFlow ==
  ASSUME AccountInv, OneLegacyTab, Cardinality(InLegacyFlow) < LegacyTabs
  PROVE  \A o \in Tabs : ~InFlow(tab[o])
<1>1. IsFiniteSet(InLegacyFlow)
  BY AccountsAssumption, FS_Subset DEF InLegacyFlow
<1>2. Cardinality(InLegacyFlow) = 0
  BY <1>1, FS_CardinalityType DEF OneLegacyTab
<1>3. InLegacyFlow = {}
  BY <1>1, <1>2, FS_EmptySet
<1>. QED  BY <1>3 DEF InLegacyFlow, InFlow, Free

LEMMA RegisterStep ==
  ASSUME AccountInv, NEW t \in Tabs, NEW p \in Passwords, Register(t, p)
  PROVE  AccountInv'
<1>0. tab[t] \in Tab
  BY OfTab
<1>1. PICK s \in Seeds : Become(t, [tab[t] EXCEPT !.pc = "register_user", !.typed = p, !.seed = s])
  BY DEF Register, Unused
<1>2. PICK r \in Tab : r = [tab[t] EXCEPT !.pc = "register_user", !.typed = p, !.seed = s]
  BY <1>0, ZenonT(60) DEF Tab, PCs
<1>3. /\ r.pc = "register_user" /\ r.typed = p /\ r.seed = s
      /\ r.version = tab[t].version /\ r.at = tab[t].at /\ r.private = tab[t].private
      /\ r.public = tab[t].public /\ r.sealed = tab[t].sealed
  BY <1>2, <1>0 DEF Tab
<1>4. tab[t].pc = "idle" /\ Good(tab[t]) /\ ~HoldsKeys(tab[t]) /\ user.state = "none"
  BY OfTab DEF Register, Free, SignedIn, HoldsKeys
<1>5. r.version = 0 /\ r.at = None /\ user.version # 1
  BY <1>3, <1>4 DEF Good, Placed, AccountInv, OldLive, OldUser, CreatePCs
<1>6. Good(r)
  BY <1>3, <1>4, <1>5, AccountsAssumption DEF Good, Placed, Keyed, Registering, Upgrading,
    Creating, HoldsKeys, InFlow, SessionPCs, CreatePCs, UpgradePCs
<1>7. Sole(t, r)
  BY <1>3, <1>5, SoleKept DEF InFlow
<1>. QED  BY <1>1, <1>2, <1>6, <1>7, ClientStep DEF Register

LEMMA SignInStep ==
  ASSUME AccountInv, OneLegacyTab, NEW t \in Tabs, NEW p \in Passwords, SignIn(t, p)
  PROVE  AccountInv'
<1>0. tab[t] \in Tab /\ user.version \in {0, 1, 2} /\ user.salt \in Seeds \union {None}
  BY OfTab, UserFields
<1>1. PICK r \in Tab : r = [tab[t] EXCEPT !.pc = "login", !.typed = p,
                              !.version = user.version, !.salt = user.salt]
  BY <1>0, ZenonT(60) DEF Tab, PCs
<1>2. /\ r.pc = "login" /\ r.typed = p /\ r.version = user.version
      /\ r.at = tab[t].at /\ r.private = tab[t].private /\ r.done = tab[t].done
      /\ r.public = tab[t].public /\ r.sealed = tab[t].sealed
  BY <1>1, <1>0 DEF Tab
<1>3. tab[t].pc = "idle" /\ Good(tab[t]) /\ ~HoldsKeys(tab[t]) /\ user.state = "live"
  BY OfTab DEF SignIn, Free, SignedIn, HoldsKeys
<1>4. r.at = None /\ r.done = {}
  BY <1>2, <1>3 DEF Good, Placed, CreatePCs
<1>5. Good(r)
  BY <1>2, <1>3, <1>4, AccountsAssumption DEF Good, Placed, Keyed, Registering, Upgrading,
    Creating, HoldsKeys, InFlow, SessionPCs, CreatePCs, UpgradePCs, OldPCs
<1>6. Sole(t, r)
  <2>1. CASE user.version = 1
    BY <2>1, <1>2, <1>4, NobodyInFlow DEF Sole, SignIn
  <2>2. CASE user.version # 1
    BY <2>2, <1>2, <1>4, SoleKept DEF InFlow
  <2>. QED  BY <2>1, <2>2
<1>. QED  BY <1>1, <1>5, <1>6, ClientStep DEF SignIn

\* Records that a step may make of a tab's.
LEMMA VaultNoted ==
  ASSUME NEW x \in Tab, NEW v \in Vaults, NEW rest \in SUBSET Vaults
  PROVE  /\ [x EXCEPT !.pc = "stage", !.at = v, !.todo = rest] \in Tab
         /\ [x EXCEPT !.failed = TRUE, !.todo = rest] \in Tab
<1>1. [x EXCEPT !.pc = "stage", !.at = v, !.todo = rest] \in Tab
  BY DEF Tab, PCs
<1>2. [x EXCEPT !.failed = TRUE, !.todo = rest] \in Tab
  BY DEF Tab
<1>. QED  BY <1>1, <1>2

LEMMA RestNoted ==
  ASSUME NEW x \in Tab, NEW rest \in SUBSET Vaults
  PROVE  [x EXCEPT !.todo = rest] \in Tab
BY DEF Tab

LEMMA PlaceNoted ==
  ASSUME NEW x \in Tab, NEW pc \in PCs
  PROVE  [x EXCEPT !.pc = pc] \in Tab
BY DEF Tab

LEMMA DeletionNoted ==
  ASSUME NEW x \in Tab, NEW p \in Passwords, NEW salt \in Seeds \union {None}
  PROVE  [x EXCEPT !.pc = "delete", !.typed = p, !.version = 2, !.salt = salt] \in Tab
BY DEF Tab, PCs

LEMMA ListNoted ==
  ASSUME NEW x \in Tab, NEW list \in SUBSET Vaults
  PROVE  [x EXCEPT !.pc = "delete_objects", !.todo = list, !.done = list] \in Tab
BY DEF Tab, PCs

LEMMA RescueNoted ==
  ASSUME NEW x \in Tab, NEW pc \in PCs, NEW rescue \in BOOLEAN,
         NEW version \in {0, 1, 2}
  PROVE  /\ [x EXCEPT !.pc = pc, !.rescue = rescue] \in Tab
         /\ [x EXCEPT !.pc = pc, !.version = version, !.rescue = rescue] \in Tab
<1>1. [x EXCEPT !.pc = pc, !.rescue = rescue] \in Tab
  BY DEF Tab
<1>2. [x EXCEPT !.pc = pc, !.version = version, !.rescue = rescue] \in Tab
  BY ZenonT(60) DEF Tab
<1>. QED  BY <1>1, <1>2

LEMMA LoginStep ==
  ASSUME AccountInv, NEW t \in Tabs, Login(t)
  PROVE  AccountInv'
<1>0. tab[t] \in Tab /\ (user.pending /\ user.legacySalt) \in BOOLEAN
  BY OfTab, UserFields
<1>1. PICK pc \in {"second", "respond"} :
        Become(t, [tab[t] EXCEPT !.pc = pc, !.rescue = user.pending /\ user.legacySalt])
  BY DEF Login
<1>2. PICK r \in Tab : r = [tab[t] EXCEPT !.pc = pc, !.rescue = user.pending /\ user.legacySalt]
  BY <1>0, RescueNoted, Zenon DEF PCs
<1>3. /\ r.pc = pc /\ r.typed = tab[t].typed /\ r.version = tab[t].version
      /\ r.at = tab[t].at /\ r.private = tab[t].private /\ r.done = tab[t].done
      /\ r.public = tab[t].public /\ r.sealed = tab[t].sealed
  BY <1>2, <1>0 DEF Tab
<1>4. tab[t].pc = "login" /\ Good(tab[t]) /\ user.password = tab[t].typed
  BY OfTab DEF Login, Verified
<1>5. user.version = 1 => r.typed = Original
  BY <1>3, <1>4 DEF AccountInv, OldLive, OldUser
<1>6. Good(r)
  BY <1>3, <1>4, <1>5 DEF Good, Placed, Keyed, Registering, Upgrading,
    Creating, HoldsKeys, InFlow, SessionPCs, CreatePCs, UpgradePCs, OldPCs
<1>7. Sole(t, r)
  BY <1>3, <1>4, SoleKept DEF InFlow
<1>. QED  BY <1>1, <1>2, <1>6, <1>7, ClientStep DEF Login

LEMMA SecondStepStep ==
  ASSUME AccountInv, NEW t \in Tabs, SecondStep(t)
  PROVE  AccountInv'
<1>0. /\ tab[t] \in Tab /\ user.version \in {0, 1, 2} /\ user.salt \in Seeds \union {None}
      /\ (user.pending /\ user.legacySalt) \in BOOLEAN
  BY OfTab, UserFields
<1>1. PICK r \in Tab : r = [tab[t] EXCEPT !.pc = "respond", !.version = user.version,
                              !.rescue = user.pending /\ user.legacySalt]
  BY <1>0, RescueNoted, Zenon DEF PCs
<1>2. /\ r.pc = "respond" /\ r.typed = tab[t].typed /\ r.version = user.version
      /\ r.at = tab[t].at /\ r.private = tab[t].private /\ r.done = tab[t].done
      /\ r.public = tab[t].public /\ r.sealed = tab[t].sealed
  BY <1>1, <1>0 DEF Tab
<1>3. tab[t].pc = "second" /\ Good(tab[t])
  BY OfTab DEF SecondStep
<1>4. Good(r)
  BY <1>2, <1>3 DEF Good, Placed, Keyed, Registering, Upgrading,
    Creating, HoldsKeys, InFlow, SessionPCs, CreatePCs, UpgradePCs, OldPCs
<1>5. InFlow(r) => InFlow(tab[t])
  BY <1>2, <1>3 DEF Good, Upgrading, InFlow
<1>6. Sole(t, r)
  BY <1>2, <1>5, SoleKept
<1>. QED  BY <1>1, <1>4, <1>6, ClientStep DEF SecondStep

LEMMA EstablishSessionStep ==
  ASSUME AccountInv, NEW t \in Tabs, EstablishSession(t)
  PROVE  AccountInv'
<1>1. tab[t].pc = "respond" /\ tab[t] \in Tab /\ Good(tab[t])
  BY OfTab DEF EstablishSession
<1>2. ASSUME NEW q \in Tab, Become(t, Done(q)), Keyed(q),
             HoldsKeys(q) => q.public = q.private /\ q.sealed # None /\ q.sealed.pair = q.private
      PROVE  AccountInv'
  <2>1. PICK r \in Tab : r = Done(q)
    BY DoneFields
  <2>2. Good(r)
    BY <1>2, <2>1, DoneFits
  <2>3. Sole(t, r)
    BY <2>1, DoneFields, SoleKept DEF InFlow
  <2>. QED  BY <1>2, <2>1, <2>2, <2>3, ClientStep DEF EstablishSession
<1>3. CASE keys # None /\ Opens(t, keys.sealed)
  <2>1. /\ keys \in [pub: Seeds, sealed: Sealed]
        /\ keys.sealed # None /\ keys.sealed.pair = keys.pub
    BY <1>3 DEF AccountInv, TypeOK, Keys, Opens, NewLive
  <2>2. PICK q \in Tab :
          q = [tab[t] EXCEPT !.private = keys.sealed.pair, !.sealed = keys.sealed,
                 !.public = keys.pub, !.legacy = IF tab[t].rescue THEN tab[t].typed ELSE None]
    BY <1>1, <2>1, ZenonT(60) DEF Tab
  <2>3. q.private = keys.pub /\ q.sealed = keys.sealed /\ q.public = keys.pub
    BY <1>1, <2>1, <2>2 DEF Tab
  <2>4. Keyed(q)
    BY <1>3, <2>3 DEF Keyed
  <2>5. Become(t, Done(q))
    BY <1>3, <2>2 DEF EstablishSession
  <2>. QED  BY <1>2, <2>1, <2>3, <2>4, <2>5
<1>4. CASE ~(keys # None /\ Opens(t, keys.sealed))
  BY <1>1, <1>2, <1>4 DEF EstablishSession, Good, Placed
<1>. QED  BY <1>3, <1>4

LEMMA StartUpgradeStep ==
  ASSUME AccountInv, NEW t \in Tabs, StartUpgrade(t)
  PROVE  AccountInv'
<1>0. tab[t] \in Tab /\ Owned \in SUBSET Vaults
  BY OfTab DEF Owned
<1>1. PICK s \in Seeds :
        Become(t, [tab[t] EXCEPT !.pc = "load", !.seed = s, !.todo = Owned])
  BY DEF StartUpgrade, KeptSession, Unused
<1>2. PICK r \in Tab : r = [tab[t] EXCEPT !.pc = "load", !.seed = s, !.todo = Owned]
  BY <1>0, ZenonT(60) DEF Tab, PCs
<1>3. /\ r.pc = "load" /\ r.seed = s /\ r.todo = Owned /\ r.typed = tab[t].typed
      /\ r.version = tab[t].version /\ r.at = tab[t].at /\ r.done = tab[t].done
      /\ r.private = tab[t].private /\ r.public = tab[t].public /\ r.sealed = tab[t].sealed
  BY <1>0, <1>2 DEF Tab
<1>4. tab[t].pc = "respond" /\ tab[t].version = 1 /\ Good(tab[t]) /\ InFlow(tab[t])
  BY OfTab DEF StartUpgrade, InFlow
<1>5. user.version = 1 /\ r.done = {}
  BY <1>3, <1>4, FlowIsOld DEF Good, Placed
<1>6. Good(r)
  BY <1>3, <1>4, <1>5, AccountsAssumption DEF Good, Placed, Keyed, Registering, Upgrading,
    Creating, HoldsKeys, InFlow, SessionPCs, CreatePCs, UpgradePCs, OldPCs
<1>7. Sole(t, r)
  BY <1>3, <1>4, SoleKept
<1>. QED  BY <1>1, <1>2, <1>6, <1>7, ClientStep DEF StartUpgrade

LEMMA LoadVaultStep ==
  ASSUME AccountInv, NEW t \in Tabs, LoadVault(t)
  PROVE  AccountInv'
<1>0. tab[t] \in Tab /\ Good(tab[t]) /\ tab[t].pc = "load" /\ tab[t].todo \in SUBSET Vaults
  BY OfTab DEF LoadVault, Tab
<1>1. tab[t].version = 1 /\ InFlow(tab[t]) /\ user.version = 1 /\ tab[t].at = None
  BY <1>0, FlowIsOld DEF Good, Placed, UpgradePCs, CreatePCs, InFlow
<1>2. PICK v \in tab[t].todo :
        Become(t, IF Live(v) \in {None, Legacy}
                  THEN [tab[t] EXCEPT !.pc = "stage", !.at = v, !.todo = tab[t].todo \ {v}]
                  ELSE [tab[t] EXCEPT !.failed = TRUE, !.todo = tab[t].todo \ {v}])
  BY DEF LoadVault
<1>3. v \in Vaults /\ v # None
  BY <1>0, <1>2, AccountsAssumption
<1>a. tab[t].todo \ {v} \in SUBSET Vaults
  BY <1>0
<1>4. CASE Live(v) \in {None, Legacy}
  <2>1. PICK r \in Tab : r = [tab[t] EXCEPT !.pc = "stage", !.at = v, !.todo = tab[t].todo \ {v}]
    BY <1>0, <1>3, <1>a, VaultNoted, Zenon
  <2>2. /\ r.pc = "stage" /\ r.at = v /\ r.todo = tab[t].todo \ {v} /\ r.typed = tab[t].typed
        /\ r.version = tab[t].version /\ r.seed = tab[t].seed /\ r.done = tab[t].done
        /\ r.failed = tab[t].failed
        /\ r.private = tab[t].private /\ r.public = tab[t].public /\ r.sealed = tab[t].sealed
    BY <1>0, <2>1 DEF Tab
  <2>3. Placed(r) /\ Keyed(r) /\ Registering(r) /\ Creating(r)
    BY <1>0, <1>1, <1>3, <2>2 DEF Good, Placed, Keyed, Registering, Creating, HoldsKeys,
      SessionPCs, CreatePCs, UpgradePCs
  <2>4. r.failed \/ Owned \subseteq r.todo \union r.done \union {r.at}
    <3>1. tab[t].failed \/ Owned \subseteq tab[t].todo \union tab[t].done
      BY <1>0, <1>1, AccountsAssumption DEF Good, Upgrading, UpgradePCs, Owned
    <3>. QED  BY <2>2, <3>1
  <2>5. Upgrading(r)
    BY <1>0, <1>1, <2>2, <2>4 DEF Good, Upgrading, UpgradePCs, OldPCs
  <2>6. Sole(t, r)
    <3>1. SUFFICES ASSUME NEW o \in Tabs \ {t} PROVE ~InFlow(tab[o]) /\ tab[o].at # v
      BY <2>2 DEF Sole
    <3>2. ~InFlow(tab[o])
      BY <1>1 DEF AccountInv, Alone
    <3>3. tab[o].at = None
      BY <1>1, <3>2, OfTab DEF Good, Upgrading, Placed, OldPCs, UpgradePCs, CreatePCs, InFlow
    <3>. QED  BY <1>3, <3>2, <3>3
  <2>. QED  BY <1>2, <1>4, <2>1, <2>3, <2>5, <2>6, ClientStep DEF LoadVault, Good
<1>5. CASE Live(v) \notin {None, Legacy}
  <2>1. PICK r \in Tab : r = [tab[t] EXCEPT !.failed = TRUE, !.todo = tab[t].todo \ {v}]
    BY <1>0, <1>3, <1>a, VaultNoted, Zenon
  <2>2. /\ r.pc = "load" /\ r.at = None /\ r.failed = TRUE /\ r.typed = tab[t].typed
        /\ r.version = tab[t].version /\ r.seed = tab[t].seed /\ r.done = tab[t].done
        /\ r.private = tab[t].private /\ r.public = tab[t].public /\ r.sealed = tab[t].sealed
    BY <1>0, <1>1, <2>1 DEF Tab
  <2>3. Good(r)
    BY <1>0, <1>1, <2>2 DEF Good, Placed, Keyed, Registering, Upgrading, Creating, HoldsKeys,
      SessionPCs, CreatePCs, UpgradePCs, OldPCs
  <2>4. Sole(t, r)
    BY <1>1, <2>2, SoleKept
  <2>. QED  BY <1>2, <1>5, <2>1, <2>3, <2>4, ClientStep DEF LoadVault
<1>. QED  BY <1>4, <1>5

\* A flow that is broken off, for whatever reason.
LEMMA BrokenOff ==
  ASSUME AccountInv, NEW t \in Tabs, Become(t, Aborted(tab[t])), UNCHANGED server
  PROVE  AccountInv'
<1>1. tab[t] \in Tab /\ Good(tab[t])
  BY OfTab
<1>2. PICK r \in Tab : r = Aborted(tab[t])
  BY <1>1, AbortedFits
<1>3. /\ Good(r) /\ (InFlow(r) => InFlow(tab[t])) /\ r.pc # "register_keys"
      /\ r.at \in {None, tab[t].at}
  BY <1>1, <1>2, AbortedFits
<1>. QED  BY <1>2, <1>3, SoleKept, ClientStep

LEMMA Renewed ==
  ASSUME AccountInv, NEW t \in Tabs, Become(t, NewTab), UNCHANGED server
  PROVE  AccountInv'
<1>1. PICK r \in Tab : r = NewTab
  BY NewTabFits
<1>2. Good(r) /\ ~InFlow(r) /\ r.pc # "register_keys" /\ r.at = None
  BY <1>1, NewTabFits DEF NewTab, InFlow
<1>. QED  BY <1>1, <1>2, SoleKept, ClientStep

LEMMA CheckUpgradeStep ==
  ASSUME AccountInv, NEW t \in Tabs, CheckUpgrade(t)
  PROVE  AccountInv'
<1>0. tab[t] \in Tab /\ Good(tab[t]) /\ tab[t].pc = "load" /\ (orgVault = "v1") \in BOOLEAN
  BY OfTab DEF CheckUpgrade
<1>1. tab[t].version = 1 /\ InFlow(tab[t]) /\ user.version = 1
  BY <1>0, FlowIsOld DEF Good, Placed, UpgradePCs, InFlow
<1>2. /\ Become(t, [tab[t] EXCEPT !.pc = "upgrade_batch", !.rescue = orgVault = "v1"])
      /\ tab[t].todo = {} /\ tab[t].failed = FALSE
  BY <1>0, <1>1 DEF CheckUpgrade, Tab
<1>3. PICK r \in Tab : r = [tab[t] EXCEPT !.pc = "upgrade_batch", !.rescue = orgVault = "v1"]
  BY <1>0, RescueNoted, Zenon DEF PCs
<1>4. /\ r.pc = "upgrade_batch" /\ r.at = tab[t].at /\ r.todo = tab[t].todo
      /\ r.typed = tab[t].typed /\ r.failed = tab[t].failed
      /\ r.version = tab[t].version /\ r.seed = tab[t].seed /\ r.done = tab[t].done
      /\ r.private = tab[t].private /\ r.public = tab[t].public /\ r.sealed = tab[t].sealed
  BY <1>0, <1>3 DEF Tab
<1>5. Placed(r) /\ Keyed(r) /\ Registering(r) /\ Creating(r)
  BY <1>0, <1>1, <1>4 DEF Good, Placed, Keyed, Registering, Creating, HoldsKeys,
    SessionPCs, CreatePCs, UpgradePCs
<1>6. Upgrading(r)
  BY <1>0, <1>1, <1>2, <1>4 DEF Good, Upgrading, UpgradePCs, OldPCs
<1>7. Sole(t, r)
  BY <1>1, <1>4, SoleKept
<1>. QED  BY <1>2, <1>3, <1>5, <1>6, <1>7, ClientStep DEF CheckUpgrade, Good

LEMMA ChangePasswordStep ==
  ASSUME AccountInv, NEW t \in Tabs, NEW p \in Passwords, NEW q \in Passwords,
         ChangePassword(t, p, q)
  PROVE  AccountInv'
<1>0. tab[t] \in Tab /\ user.salt \in Seeds \union {None}
  BY OfTab, UserFields
<1>1. PICK s \in Seeds :
        Become(t, [tab[t] EXCEPT !.pc = "change", !.typed = p, !.next = q,
                     !.version = 2, !.salt = user.salt, !.seed = s])
  BY DEF ChangePassword, Unused
<1>2. PICK r \in Tab : r = [tab[t] EXCEPT !.pc = "change", !.typed = p, !.next = q,
                              !.version = 2, !.salt = user.salt, !.seed = s]
  BY <1>0, ZenonT(60) DEF Tab, PCs
<1>3. /\ r.pc = "change" /\ r.typed = p /\ r.next = q /\ r.seed = s
      /\ r.version = 2 /\ r.at = tab[t].at
      /\ r.private = tab[t].private /\ r.public = tab[t].public /\ r.sealed = tab[t].sealed
  BY <1>0, <1>2 DEF Tab
<1>4. tab[t].pc = "idle" /\ Good(tab[t]) /\ HoldsKeys(tab[t]) /\ user.version = 2
  BY OfTab DEF ChangePassword, Free, SignedIn, HoldsKeys
<1>5. r.at = None
  BY <1>3, <1>4 DEF Good, Placed, CreatePCs
<1>6. Good(r)
  BY <1>3, <1>4, <1>5, AccountsAssumption DEF Good, Placed, Keyed, Registering, Upgrading,
    Creating, HoldsKeys, InFlow, SessionPCs, CreatePCs, UpgradePCs
<1>7. Sole(t, r)
  BY <1>3, <1>5, SoleKept DEF InFlow
<1>. QED  BY <1>1, <1>2, <1>6, <1>7, ClientStep DEF ChangePassword

LEMMA CheckChangeStep ==
  ASSUME AccountInv, NEW t \in Tabs, CheckChange(t)
  PROVE  AccountInv'
<1>0. tab[t] \in Tab /\ Good(tab[t]) /\ tab[t].pc = "change"
  BY OfTab DEF CheckChange
<1>1. PICK r \in Tab : r = [tab[t] EXCEPT !.pc = "change_batch"]
  BY <1>0, PlaceNoted, Zenon DEF PCs
<1>2. /\ r.pc = "change_batch" /\ r.typed = tab[t].typed /\ r.next = tab[t].next
      /\ r.seed = tab[t].seed /\ r.version = tab[t].version /\ r.at = tab[t].at
      /\ r.private = tab[t].private /\ r.public = tab[t].public /\ r.sealed = tab[t].sealed
  BY <1>0, <1>1 DEF Tab
<1>3. Good(r)
  BY <1>0, <1>2 DEF Good, Placed, Keyed, Registering, Upgrading,
    Creating, HoldsKeys, InFlow, SessionPCs, CreatePCs, UpgradePCs, OldPCs
<1>4. Sole(t, r)
  BY <1>0, <1>2, SoleKept DEF InFlow
<1>. QED  BY <1>1, <1>3, <1>4, ClientStep DEF CheckChange

LEMMA DeleteAccountStep ==
  ASSUME AccountInv, NEW t \in Tabs, NEW p \in Passwords, DeleteAccount(t, p)
  PROVE  AccountInv'
<1>0. tab[t] \in Tab /\ user.salt \in Seeds \union {None}
  BY OfTab, UserFields
<1>1. PICK r \in Tab : r = [tab[t] EXCEPT !.pc = "delete", !.typed = p,
                              !.version = 2, !.salt = user.salt]
  BY <1>0, DeletionNoted, Zenon
<1>2. /\ r.pc = "delete" /\ r.typed = p /\ r.version = 2 /\ r.at = tab[t].at
      /\ r.private = tab[t].private /\ r.public = tab[t].public /\ r.sealed = tab[t].sealed
  BY <1>0, <1>1 DEF Tab
<1>3. tab[t].pc = "idle" /\ Good(tab[t]) /\ HoldsKeys(tab[t]) /\ user.version = 2
  BY OfTab DEF DeleteAccount, Free, SignedIn, HoldsKeys
<1>4. r.at = None
  BY <1>2, <1>3 DEF Good, Placed, CreatePCs
<1>5. Good(r)
  BY <1>2, <1>3, <1>4, AccountsAssumption DEF Good, Placed, Keyed, Registering, Upgrading,
    Creating, HoldsKeys, InFlow, SessionPCs, CreatePCs, UpgradePCs
<1>6. Sole(t, r)
  BY <1>2, <1>4, SoleKept DEF InFlow
<1>. QED  BY <1>1, <1>5, <1>6, ClientStep DEF DeleteAccount

LEMMA CheckDeleteStep ==
  ASSUME AccountInv, NEW t \in Tabs, CheckDelete(t)
  PROVE  AccountInv'
<1>0. tab[t] \in Tab /\ Good(tab[t]) /\ tab[t].pc = "delete"
  BY OfTab DEF CheckDelete
<1>a. Owned \in SUBSET Vaults
  BY DEF Owned
<1>1. PICK r \in Tab : r = [tab[t] EXCEPT !.pc = "delete_objects", !.todo = Owned, !.done = Owned]
  BY <1>0, <1>a, ListNoted, Zenon
<1>2. /\ r.pc = "delete_objects" /\ r.typed = tab[t].typed
      /\ r.version = tab[t].version /\ r.at = tab[t].at
      /\ r.private = tab[t].private /\ r.public = tab[t].public /\ r.sealed = tab[t].sealed
  BY <1>0, <1>1 DEF Tab
<1>3. Good(r)
  BY <1>0, <1>2 DEF Good, Placed, Keyed, Registering, Upgrading,
    Creating, HoldsKeys, InFlow, SessionPCs, CreatePCs, UpgradePCs, OldPCs
<1>4. Sole(t, r)
  BY <1>0, <1>2, SoleKept DEF InFlow
<1>. QED  BY <1>1, <1>3, <1>4, ClientStep DEF CheckDelete

-----------------------------------------------------------------------------
(* The steps that change what is stored.                                   *)

LEMMA ServerTypes ==
  ASSUME AccountInv
  PROVE  /\ user \in User /\ keys \in Keys /\ vault \in [Vaults -> Versions \union {"none"}]
         /\ share \in [Vaults -> Share]
         /\ object \in [Vaults -> [Versions -> Seeds \union {Legacy, None}]]
         /\ orgVault \in Versions \union {"none"} /\ tab \in [Tabs -> Tab]
         /\ user.state = "live" /\ user.version = 2 => None \notin {user.password, user.salt}
BY DEF AccountInv, TypeOK

\* What is made of t's record keeps its type.
LEMMA TabTyped ==
  ASSUME AccountInv, NEW t \in Tabs, NEW r \in Tab, Become(t, r)
  PROVE  tab' \in [Tabs -> Tab]
BY ServerTypes DEF Become

\* Where there are no keys yet there is no session, no share in the making and no
\* object.
LEMMA NoKeysYet ==
  ASSUME AccountInv, keys = None, user.state # "gone"
  PROVE  /\ \A o \in Tabs : ~HoldsKeys(tab[o]) /\ tab[o].pc \notin CreatePCs
         /\ user.version = 2 => \A v \in Vaults : Live(v) = None
BY OfTab DEF AccountInv, NewLive, Good, Keyed, Placed

\* Nor does a registration concern the tabs that are not in one.
LEMMA StrangerFits ==
  ASSUME NEW x \in Tab, Good(x), ~HoldsKeys(x), x.pc \notin CreatePCs,
         x.pc # "register_keys", user.version = 2, user'.version = 2
  PROVE  Good(x)'
<1>1. Placed(x)' /\ Keyed(x)' /\ Registering(x)' /\ Upgrading(x)'
  BY DEF Good, Placed, Keyed, Registering, Upgrading, HoldsKeys
<1>2. Creating(x)'
  BY DEF Good, Creating, InFlow, CreatePCs
<1>. QED  BY <1>1, <1>2 DEF Good

LEMMA RegisterUserStep ==
  ASSUME AccountInv, NEW t \in Tabs, RegisterUser(t)
  PROVE  AccountInv'
<1>0. tab[t] \in Tab /\ Good(tab[t]) /\ tab[t].pc = "register_user" /\ user.state = "none"
  BY OfTab DEF RegisterUser, EmailFree
<1>1. user.version = 2 /\ keys = None
  BY <1>0, ServerTypes DEF AccountInv, OldLive, OldUser, NewLive, User
<1>2. PICK r \in Tab : r = [tab[t] EXCEPT !.pc = "register_keys"]
  BY <1>0, PlaceNoted, Zenon DEF PCs
<1>3. /\ r.pc = "register_keys" /\ r.typed = tab[t].typed /\ r.seed = tab[t].seed
      /\ r.version = tab[t].version /\ r.at = tab[t].at
      /\ r.private = tab[t].private /\ r.public = tab[t].public /\ r.sealed = tab[t].sealed
  BY <1>0, <1>2 DEF Tab
<1>4. tab[t].typed \in Passwords /\ tab[t].seed \in Seeds /\ tab[t].at = None /\ ~InFlow(tab[t])
  BY <1>0, <1>1 DEF Tab, Good, Placed, Creating, CreatePCs, UpgradePCs
<1>5. /\ user' \in User /\ user'.state = "live" /\ user'.version = 2
      /\ user'.password = r.typed /\ user'.salt = r.seed
  BY <1>3, <1>4 DEF RegisterUser, NoUser, User
<1>6. UNCHANGED <<keys, vault, share, object, orgVault>>
  BY DEF RegisterUser
<1>7. TypeOK'
  BY <1>2, <1>3, <1>4, <1>5, <1>6, ServerTypes, TabTyped, AccountsAssumption DEF TypeOK, RegisterUser
<1>8. OldLive' /\ NewLive'
  <2>1. \A v \in Vaults : Live(v)' = None /\ vault[v] # "v1"
    BY <1>0, <1>1, <1>6, NoKeysYet DEF Live, AccountInv, NewLive
  <2>. QED  BY <1>1, <1>5, <1>6, <2>1 DEF OldLive, NewLive
<1>9. Good(r)'
  BY <1>0, <1>1, <1>3, <1>4, <1>5, <1>6, NoKeysYet DEF Good, Placed, Keyed, Registering, Upgrading,
    Creating, HoldsKeys, InFlow, SessionPCs, CreatePCs, UpgradePCs
<1>10. ASSUME NEW o \in Tabs \ {t}, NEW x \in Tab, x = tab[o]
       PROVE  Good(x)'
  <2>1. Good(x) /\ ~HoldsKeys(x) /\ x.pc \notin CreatePCs /\ x.pc # "register_keys"
    BY <1>0, <1>1, <1>10, OfTab, NoKeysYet DEF Good, Registering
  <2>. QED  BY <1>1, <1>5, <2>1, StrangerFits
<1>11. Sole(t, r)
  <2>1. \A o \in Tabs : tab[o].pc # "register_keys"
    BY <1>0, OfTab DEF Good, Registering
  <2>. QED  BY <1>0, <1>3, <1>4, <2>1 DEF Sole, InFlow
<1>. QED  BY <1>2, <1>7, <1>8, <1>9, <1>10, <1>11, Assembled DEF RegisterUser

LEMMA RegisterKeysStep ==
  ASSUME AccountInv, NEW t \in Tabs, RegisterKeys(t)
  PROVE  AccountInv'
<1>0. /\ tab[t] \in Tab /\ Good(tab[t]) /\ tab[t].pc = "register_keys"
      /\ user.state = "live" /\ keys = None
  BY OfTab DEF RegisterKeys
<1>1. user.version = 2
  BY <1>0, UserFields DEF Good, Upgrading, OldPCs, UpgradePCs, AccountInv, TypeOK, User
<1>2. /\ tab[t].typed \in Passwords /\ tab[t].seed \in Seeds
      /\ user.password = tab[t].typed /\ user.salt = tab[t].seed
  BY <1>0 DEF Tab, Good, Placed, Registering, CreatePCs, UpgradePCs
<1>3. PICK r \in Tab : r = Done(tab[t])
  BY <1>0, DoneFields
<1>4. /\ r.pc = "idle" /\ r.at = None /\ r.version = 0 /\ r.done = {} /\ r.private = None
  BY <1>0, <1>3, DoneFields, NoKeysYet DEF HoldsKeys
<1>5. Sole(t, r)
  BY <1>4, SoleKept DEF InFlow
<1>6. UNCHANGED <<vault, share, object, orgVault>> /\ Become(t, r)
  BY <1>3 DEF RegisterKeys
<1>7. \A v \in Vaults : Live(v)' = None /\ vault[v] # "v1"
  BY <1>0, <1>1, <1>6, NoKeysYet DEF Live, AccountInv, NewLive
<1>8. ASSUME NEW o \in Tabs \ {t}, NEW x \in Tab, x = tab[o]
      PROVE  Good(x) /\ ~HoldsKeys(x) /\ x.pc \notin CreatePCs /\ x.pc # "register_keys"
  BY <1>0, <1>8, OfTab, NoKeysYet DEF AccountInv, Alone
<1>9. CASE keys' = KeyPair(tab[t].seed, tab[t].typed, tab[t].seed) /\ UNCHANGED user
  <2>1. /\ keys' \in [pub: Seeds, sealed: Sealed] /\ keys' # None
        /\ keys'.pub = tab[t].seed
        /\ keys'.sealed = [pair |-> tab[t].seed,
                           under |-> [password |-> user.password, salt |-> user.salt]]
    BY <1>2, <1>9, NoneAssumption DEF KeyPair, Sealed, Derived
  <2>2. TypeOK'
    BY <1>6, <1>9, <2>1, ServerTypes, TabTyped DEF TypeOK, Keys
  <2>3. OldLive' /\ NewLive'
    BY <1>0, <1>1, <1>6, <1>7, <1>9, <2>1 DEF OldLive, NewLive
  <2>4. Good(r)'
    BY <1>1, <1>4, <1>9 DEF Good, Placed, Keyed, Registering, Upgrading,
      Creating, HoldsKeys, InFlow, SessionPCs, CreatePCs, UpgradePCs
  <2>5. ASSUME NEW o \in Tabs \ {t}, NEW x \in Tab, x = tab[o]
        PROVE  Good(x)'
    BY <1>1, <1>8, <1>9, <2>5, StrangerFits
  <2>. QED  BY <1>5, <1>6, <2>2, <2>3, <2>4, <2>5, Assembled
<1>10. CASE user' = NoUser /\ UNCHANGED keys
  <2>1. /\ user' \in User /\ user'.state = "none" /\ user'.version = 2
    BY <1>10 DEF NoUser, User
  <2>2. TypeOK'
    BY <1>6, <1>10, <2>1, ServerTypes, TabTyped DEF TypeOK
  <2>3. OldLive' /\ NewLive'
    BY <1>0, <1>6, <1>7, <1>10, <2>1 DEF OldLive, NewLive
  <2>4. Good(r)'
    BY <1>4, <1>10, <2>1 DEF Good, Placed, Keyed, Registering, Upgrading,
      Creating, HoldsKeys, InFlow, SessionPCs, CreatePCs, UpgradePCs
  <2>5. ASSUME NEW o \in Tabs \ {t}, NEW x \in Tab, x = tab[o]
        PROVE  Good(x)'
    BY <1>1, <1>8, <1>10, <2>1, <2>5, StrangerFits
  <2>. QED  BY <1>5, <1>6, <2>2, <2>3, <2>4, <2>5, Assembled
<1>. QED  BY <1>9, <1>10 DEF RegisterKeys

\* While a tab is in the flow of an old account, the others rest.
LEMMA OthersRest ==
  ASSUME AccountInv, NEW t \in Tabs, InFlow(tab[t])
  PROVE  \A o \in Tabs \ {t} : tab[o].pc = "idle" /\ ~HoldsKeys(tab[o])
<1>. TAKE o \in Tabs \ {t}
<1>1. user.version = 1 /\ Good(tab[o]) /\ ~InFlow(tab[o])
  BY OfTab, FlowIsOld DEF AccountInv, Alone
<1>. QED  BY <1>1, SessionIsNew DEF Good, Upgrading, InFlow

\* And one that rests without a session fits whatever the server becomes.
LEMMA RestFits ==
  ASSUME NEW x \in Tab, Good(x), x.pc = "idle", ~HoldsKeys(x)
  PROVE  Good(x)'
BY DEF Good, Placed, Keyed, Registering, Upgrading, Creating, HoldsKeys, InFlow, SessionPCs,
  CreatePCs, UpgradePCs, OldPCs

LEMMA Staged ==
  ASSUME NEW x \in Tab, NEW done \in SUBSET Vaults
  PROVE  [x EXCEPT !.pc = "load", !.done = done, !.at = None] \in Tab
BY DEF Tab, PCs

LEMMA StageStep ==
  ASSUME AccountInv, NEW t \in Tabs, Stage(t)
  PROVE  AccountInv'
<1>. DEFINE at == tab[t].at
            seed == tab[t].seed
<1>0. tab[t] \in Tab /\ Good(tab[t]) /\ tab[t].pc = "stage" /\ vault[at] # "none"
  BY OfTab DEF Stage
<1>1. tab[t].version = 1 /\ InFlow(tab[t])
  BY <1>0 DEF Good, Placed, UpgradePCs, InFlow
<1>2. /\ at \in Vaults /\ seed \in Seeds /\ tab[t].done \in SUBSET Vaults
      /\ tab[t].done \union {at} \in SUBSET Vaults
  BY <1>0, AccountsAssumption DEF Tab, Good, Placed, UpgradePCs, CreatePCs
<1>3. user.version = 1 /\ keys = None
  BY <1>1, FlowIsOld DEF AccountInv, OldLive
<1>4. PICK r \in Tab : r = [tab[t] EXCEPT !.pc = "load", !.done = tab[t].done \union {at}, !.at = None]
  BY <1>0, <1>2, Staged, Zenon
<1>5. /\ r.pc = "load" /\ r.at = None /\ r.done = tab[t].done \union {at}
      /\ r.todo = tab[t].todo /\ r.failed = tab[t].failed
      /\ r.typed = tab[t].typed /\ r.version = tab[t].version /\ r.seed = seed
      /\ r.private = tab[t].private /\ r.public = tab[t].public /\ r.sealed = tab[t].sealed
  BY <1>0, <1>4 DEF Tab
<1>6. /\ object' = [object EXCEPT ![at]["v2"] = seed]
      /\ UNCHANGED <<user, keys, vault, share, orgVault>> /\ Become(t, r)
  BY <1>4 DEF Stage, StagedVersion
<1>7. /\ object' \in [Vaults -> [Versions -> Seeds \union {Legacy, None}]]
      /\ object'[at]["v2"] = seed
      /\ \A v \in Vaults : object'[v]["v1"] = object[v]["v1"]
      /\ \A v \in Vaults \ {at} : object'[v]["v2"] = object[v]["v2"]
  BY <1>2, <1>6, ServerTypes DEF Versions
<1>8. TypeOK'
  BY <1>6, <1>7, ServerTypes, TabTyped DEF TypeOK
<1>9. OldLive' /\ NewLive'
  BY <1>3, <1>6, <1>7 DEF AccountInv, OldLive, NewLive, OldUser
<1>10. Placed(r) /\ Keyed(r) /\ Registering(r) /\ Creating(r)
  BY <1>0, <1>3, <1>5 DEF Good, Placed, Keyed, Registering, Creating, HoldsKeys, InFlow,
    SessionPCs, CreatePCs, UpgradePCs
<1>11. Upgrading(r)'
  <2>1. r.done \subseteq Owned /\ \A v \in r.done : object'[v]["v2"] = r.seed
    BY <1>0, <1>2, <1>3, <1>5, <1>7 DEF Good, Upgrading, UpgradePCs, Owned
  <2>2. r.failed \/ Owned \subseteq r.todo \union r.done \union {r.at}
    BY <1>0, <1>3, <1>5 DEF Good, Upgrading, UpgradePCs
  <2>3. Owned' = Owned
    BY <1>6 DEF Owned
  <2>. QED  BY <1>0, <1>1, <1>3, <1>5, <1>6, <2>1, <2>2, <2>3 DEF Good, Upgrading, OldPCs, UpgradePCs
<1>12. Good(r)'
  BY <1>3, <1>6, <1>10, <1>11 DEF Good, Placed, Keyed, Registering, Creating, HoldsKeys, InFlow
<1>13. ASSUME NEW o \in Tabs \ {t}, NEW x \in Tab, x = tab[o]
       PROVE  Good(x)'
  BY <1>1, <1>13, OfTab, OthersRest, RestFits
<1>14. Sole(t, r)
  BY <1>1, <1>5, SoleKept
<1>. QED  BY <1>6, <1>8, <1>9, <1>12, <1>13, <1>14, Assembled

LEMMA SessionNoted ==
  ASSUME NEW x \in Tab, NEW s \in Seeds, NEW sealed \in Sealed,
         NEW legacy \in Passwords \union {None}
  PROVE  [x EXCEPT !.private = s, !.public = s, !.sealed = sealed, !.legacy = legacy] \in Tab
BY DEF Tab

\* What the upgrade leaves in the tab: a session with the new keys.
LEMMA UpgradedFields ==
  ASSUME NEW t \in Tabs, tab[t] \in Tab, NEW pending \in BOOLEAN,
         tab[t].typed \in Passwords, tab[t].seed \in Seeds
  PROVE  /\ Upgraded(t, pending) \in Tab
         /\ Upgraded(t, pending).pc = "idle" /\ Upgraded(t, pending).at = None
         /\ Upgraded(t, pending).version = 0 /\ Upgraded(t, pending).done = {}
         /\ Upgraded(t, pending).private = tab[t].seed
         /\ Upgraded(t, pending).public = tab[t].seed
         /\ Upgraded(t, pending).sealed = [pair |-> tab[t].seed,
              under |-> [password |-> tab[t].typed, salt |-> tab[t].seed]]
<1>. DEFINE sealed == [pair |-> tab[t].seed,
                       under |-> [password |-> tab[t].typed, salt |-> tab[t].seed]]
<1>1. KeyPair(tab[t].seed, tab[t].typed, tab[t].seed).sealed = sealed /\ sealed \in Sealed
  BY DEF KeyPair, Sealed, Derived
<1>2. PICK legacy \in Passwords \union {None} :
        legacy = IF pending THEN tab[t].typed ELSE None
  OBVIOUS
<1>3. PICK q : q = [tab[t] EXCEPT !.private = tab[t].seed, !.public = tab[t].seed,
                      !.sealed = sealed, !.legacy = legacy]
  OBVIOUS
<1>4. Upgraded(t, pending) = Done(q)
  BY <1>1, <1>2, <1>3 DEF Upgraded
<1>. HIDE DEF sealed
<1>5. q \in Tab
  BY <1>1, <1>3, SessionNoted, Zenon
<1>6. q.private = tab[t].seed /\ q.public = tab[t].seed /\ q.sealed = sealed
  BY <1>3 DEF Tab
<1>. QED  BY <1>4, <1>5, <1>6, DoneFields DEF sealed

LEMMA UpgradeBatchStep ==
  ASSUME AccountInv, NEW t \in Tabs, UpgradeBatch(t)
  PROVE  AccountInv'
<1>. DEFINE seed == tab[t].seed
            done == tab[t].done
<1>0. tab[t] \in Tab /\ Good(tab[t]) /\ tab[t].pc = "upgrade_batch"
  BY OfTab DEF UpgradeBatch
<1>1. tab[t].version = 1 /\ InFlow(tab[t])
  BY <1>0 DEF Good, Placed, UpgradePCs, InFlow
<1>2. user.version = 1 /\ user = OldUser /\ keys = None
  BY <1>1, FlowIsOld DEF AccountInv, OldLive
<1>3. /\ seed \in Seeds /\ done \in SUBSET Vaults /\ tab[t].typed = Original /\ tab[t].at = None
      /\ tab[t].rescue \in BOOLEAN
  BY <1>0, <1>2 DEF Tab, Good, Placed, Upgrading, UpgradePCs, CreatePCs
<1>4. Owned = done /\ \A v \in done : object[v]["v2"] = seed
  BY <1>0, <1>2, <1>3, AccountsAssumption DEF Good, Upgrading, UpgradePCs, Owned
<1>5. /\ user' \in User /\ user'.state = "live" /\ user'.version = 2
      /\ user'.password = Original /\ user'.salt = seed
  <2>1. user' = UpgradedUser(t)
    BY <1>2 DEF UpgradeBatch
  <2>2. user' = [OldUser EXCEPT !.version = 2, !.salt = seed, !.pending = tab[t].rescue,
                                !.legacySalt = tab[t].rescue]
    BY <1>2, <2>1 DEF UpgradedUser
  <2>3. user' \in User
    BY <1>3, <2>2, AccountsAssumption DEF OldUser, User
  <2>. QED  BY <2>2, <2>3 DEF OldUser
<1>6. /\ keys' \in [pub: Seeds, sealed: Sealed] /\ keys' # None /\ keys'.pub = seed
      /\ keys'.sealed = [pair |-> seed, under |-> [password |-> Original, salt |-> seed]]
  BY <1>3, NoneAssumption, AccountsAssumption DEF UpgradeBatch, KeyPair, Sealed, Derived
<1>7. /\ vault' \in [Vaults -> Versions \union {"none"}] /\ share' \in [Vaults -> Share]
      /\ \A v \in done : vault'[v] = "v2" /\ share'[v] = [pub |-> seed, key |-> seed]
      /\ \A v \in Vaults \ done : vault'[v] = "none"
      /\ UNCHANGED <<object, orgVault>>
  <2>1. UNCHANGED <<object, orgVault>>
    BY DEF UpgradeBatch
  <2>2. /\ vault' \in [Vaults -> Versions \union {"none"}]
        /\ \A v \in done : vault'[v] = "v2"
        /\ \A v \in Vaults \ done : vault'[v] = "none"
    BY <1>3, <1>4, ServerTypes DEF UpgradeBatch, Versions, Owned
  <2>3. [pub |-> seed, key |-> seed] \in Share
    BY <1>3 DEF Share
  <2>4. /\ share' \in [Vaults -> Share]
        /\ \A v \in done : share'[v] = [pub |-> seed, key |-> seed]
    BY <1>3, <2>3, ServerTypes DEF UpgradeBatch
  <2>. QED  BY <2>1, <2>2, <2>4
<1>8. PICK r \in Tab : Become(t, r) /\ r \in {Upgraded(t, tab[t].rescue), Done(tab[t])}
  <2>1. CASE Become(t, Upgraded(t, tab[t].rescue))
    BY <1>0, <1>3, <2>1, UpgradedFields, AccountsAssumption
  <2>2. CASE Become(t, Aborted(tab[t]))
    BY <1>0, <2>2, AbortedFields, DoneFields
  <2>. QED  BY <2>1, <2>2 DEF UpgradeBatch
<1>9. /\ r.pc = "idle" /\ r.at = None /\ r.version = 0 /\ r.done = {}
      /\ HoldsKeys(r) => /\ r.private = seed /\ r.public = seed
                         /\ r.sealed = [pair |-> seed,
                              under |-> [password |-> Original, salt |-> seed]]
  <2>1. ~HoldsKeys(tab[t])
    BY <1>2, SessionIsNew
  <2>. QED  BY <1>0, <1>3, <1>8, <2>1, UpgradedFields, DoneFields, AccountsAssumption DEF HoldsKeys
<1>10. TypeOK'
  BY <1>3, <1>5, <1>6, <1>7, <1>8, ServerTypes, TabTyped, AccountsAssumption DEF TypeOK, Keys
<1>11. OldLive' /\ NewLive'
  <2>1. \A v \in Vaults : Live(v)' = IF v \in done THEN seed ELSE None
    BY <1>3, <1>4, <1>7 DEF Live
  <2>2. \A v \in Vaults : Live(v)' # None =>
          vault'[v] # "v1" /\ share'[v] = [pub |-> keys'.pub, key |-> Live(v)']
    BY <1>6, <1>7, <2>1
  <2>. QED  BY <1>5, <1>6, <1>7, <2>2 DEF OldLive, NewLive
<1>12. Good(r)'
  <2>1. HoldsKeys(r) => r.sealed # None /\ r.sealed.pair = seed
    BY <1>3, <1>9, NoneAssumption, AccountsAssumption DEF Derived
  <2>. QED  BY <1>5, <1>6, <1>9, <2>1 DEF Good, Placed, Keyed, Registering, Upgrading, Creating,
              HoldsKeys, InFlow, SessionPCs, CreatePCs, UpgradePCs
<1>13. ASSUME NEW o \in Tabs \ {t}, NEW x \in Tab, x = tab[o]
       PROVE  Good(x)'
  BY <1>1, <1>13, OfTab, OthersRest, RestFits
<1>14. Sole(t, r)
  BY <1>9, SoleKept DEF InFlow
<1>. QED  BY <1>8, <1>10, <1>11, <1>12, <1>13, <1>14, Assembled

LEMMA ResealedNoted ==
  ASSUME NEW x \in Tab, NEW sealed \in Sealed
  PROVE  /\ [x EXCEPT !.sealed = sealed] \in Tab
         /\ [x EXCEPT !.sealed = sealed].sealed = sealed
         /\ [x EXCEPT !.sealed = sealed].private = x.private
         /\ [x EXCEPT !.sealed = sealed].public = x.public
BY DEF Tab

LEMMA ChangeBatchStep ==
  ASSUME AccountInv, NEW t \in Tabs, ChangeBatch(t)
  PROVE  AccountInv'
<1>0. tab[t] \in Tab /\ Good(tab[t]) /\ tab[t].pc = "change_batch"
  BY OfTab DEF ChangeBatch
<1>1. /\ HoldsKeys(tab[t]) /\ tab[t].next \in Passwords /\ tab[t].seed \in Seeds
      /\ tab[t].at = None /\ tab[t].private \in Seeds
      /\ tab[t].public = tab[t].private /\ tab[t].sealed.pair = tab[t].private
  BY <1>0 DEF Good, Placed, SessionPCs, UpgradePCs, CreatePCs, HoldsKeys, Tab
<1>2. user.version = 2
  BY <1>1, SessionIsNew
<1>3. PICK sealed \in Sealed :
        /\ sealed = [pair |-> tab[t].sealed.pair,
                     under |-> [password |-> tab[t].next, salt |-> tab[t].seed]]
        /\ sealed # None /\ sealed.pair = tab[t].private
  <2>1. PICK s \in [pair: Seeds, under: Derived] :
          s = [pair |-> tab[t].sealed.pair,
               under |-> [password |-> tab[t].next, salt |-> tab[t].seed]]
    BY <1>1 DEF Derived
  <2>2. s # None /\ s \in Sealed
    BY NoneAssumption DEF Sealed
  <2>3. s.pair = tab[t].private
    BY <1>1, <2>1
  <2>. QED  BY <2>1, <2>2, <2>3
<1>4. /\ user' = IF user.state = "live" THEN Changed(t) ELSE user
      /\ keys' = IF keys = None THEN None ELSE [keys EXCEPT !.sealed = sealed]
      /\ \/ Become(t, Done([tab[t] EXCEPT !.sealed = sealed]))
         \/ Become(t, Aborted(tab[t]))
      /\ UNCHANGED <<vault, share, object, orgVault>>
  BY <1>3 DEF ChangeBatch
<1>5. PICK r \in Tab : Become(t, r) /\ r \in {Done([tab[t] EXCEPT !.sealed = sealed]), Done(tab[t])}
  <2>1. CASE Become(t, Done([tab[t] EXCEPT !.sealed = sealed]))
    BY <1>0, <2>1, ResealedNoted, DoneFields
  <2>2. CASE Become(t, Aborted(tab[t]))
    BY <1>0, <2>2, AbortedFields, DoneFields
  <2>. QED  BY <1>4, <2>1, <2>2
<1>6. /\ r.pc = "idle" /\ r.at = None /\ r.version = 0 /\ r.done = {}
      /\ r.private = tab[t].private /\ r.public = tab[t].private
      /\ r.sealed # None /\ r.sealed.pair = tab[t].private
  <2>1. CASE r = Done(tab[t])
    BY <1>0, <1>1, <2>1, DoneFields DEF Good, Placed
  <2>2. CASE r = Done([tab[t] EXCEPT !.sealed = sealed])
    <3>1. PICK q \in Tab : q = [tab[t] EXCEPT !.sealed = sealed]
      BY <1>0, ResealedNoted
    <3>2. q.sealed = sealed /\ q.private = tab[t].private /\ q.public = tab[t].public
      BY <1>0, <3>1, ResealedNoted
    <3>3. r = Done(q)
      BY <2>2, <3>1
    <3>4. /\ r.pc = "idle" /\ r.at = None /\ r.version = 0 /\ r.done = {}
          /\ r.private = q.private /\ r.public = q.public /\ r.sealed = q.sealed
      BY <3>3, DoneFields
    <3>. QED  BY <1>1, <1>3, <3>2, <3>4
  <2>. QED  BY <1>5, <2>1, <2>2
<1>9. Sole(t, r)
  BY <1>6, SoleKept DEF InFlow
<1>7. CASE user.state = "live"
  <2>1. /\ keys # None /\ keys \in [pub: Seeds, sealed: Sealed] /\ keys.pub = tab[t].private
    BY <1>0, <1>1, <1>7, ServerTypes DEF Good, Keyed, Keys
  <2>2. /\ keys' \in [pub: Seeds, sealed: Sealed] /\ keys' # None /\ keys'.pub = keys.pub
        /\ keys'.sealed = sealed
    BY <1>4, <2>1, NoneAssumption
  <2>3. /\ user' \in User /\ user'.state = "live" /\ user'.version = 2
        /\ user'.password = tab[t].next /\ user'.salt = tab[t].seed
    BY <1>1, <1>2, <1>4, <1>7, ServerTypes DEF Changed, User
  <2>4. sealed = [pair |-> keys'.pub,
                  under |-> [password |-> user'.password, salt |-> user'.salt]]
    BY <1>1, <1>3, <2>1, <2>2, <2>3
  <2>5. TypeOK'
    BY <1>1, <1>4, <1>5, <2>2, <2>3, ServerTypes, TabTyped, AccountsAssumption DEF TypeOK, Keys
  <2>6. OldLive' /\ NewLive'
    BY <1>2, <1>4, <1>7, <2>1, <2>2, <2>3, <2>4 DEF AccountInv, OldLive, NewLive, Live
  <2>7. Good(r)'
    BY <1>6, <2>1, <2>2, <2>3 DEF Good, Placed, Keyed, Registering, Upgrading, Creating,
      HoldsKeys, InFlow, SessionPCs, CreatePCs, UpgradePCs
  <2>8. ASSUME NEW o \in Tabs \ {t}, NEW x \in Tab, x = tab[o]
        PROVE  Good(x)'
    <3>1. Good(x)
      BY <2>8, OfTab
    <3>. QED  BY <1>2, <1>4, <1>7, <2>1, <2>2, <2>3, <3>1 DEF Good, Placed, Keyed, Registering,
                Upgrading, Creating, HoldsKeys, InFlow, SessionPCs, CreatePCs, UpgradePCs
  <2>. QED  BY <1>5, <2>5, <2>6, <2>7, <2>8, <1>9, Assembled
<1>8. CASE user.state # "live"
  <2>1. keys = None /\ UNCHANGED server
    BY <1>4, <1>8 DEF AccountInv, NewLive, server
  <2>2. Good(r)
    BY <1>0, <1>1, <1>6 DEF Good, Placed, Keyed, Registering, Upgrading, Creating,
      HoldsKeys, InFlow, SessionPCs, CreatePCs, UpgradePCs, OldPCs
  <2>. QED  BY <1>5, <1>9, <2>1, <2>2, ClientStep
<1>. QED  BY <1>7, <1>8

LEMMA CreateVaultStep ==
  ASSUME AccountInv, NEW t \in Tabs, NEW v \in Vaults, CreateVault(t, v)
  PROVE  AccountInv'
<1>0. /\ tab[t] \in Tab /\ Good(tab[t]) /\ tab[t].pc = "idle" /\ HoldsKeys(tab[t])
      /\ \A o \in Tabs : tab[o].at # v
      /\ v # None
  BY OfTab, AccountsAssumption DEF CreateVault, Free, SignedIn, HoldsKeys
<1>1. user.version = 2
  BY <1>0, SessionIsNew
<1>2. PICK s \in Seeds : Become(t, [tab[t] EXCEPT !.pc = "create_share", !.at = v, !.seed = s])
  BY DEF CreateVault, Unused
<1>3. PICK r \in Tab : r = [tab[t] EXCEPT !.pc = "create_share", !.at = v, !.seed = s]
  BY <1>0, ZenonT(60) DEF Tab, PCs
<1>4. /\ r.pc = "create_share" /\ r.at = v /\ r.seed = s /\ r.version = tab[t].version
      /\ r.private = tab[t].private /\ r.public = tab[t].public /\ r.sealed = tab[t].sealed
  BY <1>0, <1>3 DEF Tab
<1>5. /\ vault' = [vault EXCEPT ![v] = "v2"]
      /\ \A w \in Versions : object[v][w] = None
      /\ UNCHANGED <<user, keys, share, object, orgVault>> /\ Become(t, r)
  BY <1>2, <1>3 DEF CreateVault
<1>6. /\ vault' \in [Vaults -> Versions \union {"none"}] /\ vault'[v] = "v2"
      /\ \A u \in Vaults \ {v} : vault'[u] = vault[u]
      /\ object[v]["v2"] = None
  BY <1>5, ServerTypes DEF Versions
<1>7. TypeOK'
  BY <1>5, <1>6, ServerTypes, TabTyped DEF TypeOK
<1>8. OldLive' /\ NewLive'
  <2>1. \A u \in Vaults \ {v} : Live(u)' = Live(u) /\ vault'[u] = vault[u]
    BY <1>5, <1>6 DEF Live
  <2>2. Live(v)' = None /\ vault'[v] # "v1"
    BY <1>5, <1>6 DEF Live
  <2>. QED  BY <1>1, <1>5, <2>1, <2>2 DEF AccountInv, OldLive, NewLive
<1>9. Good(r)'
  BY <1>0, <1>1, <1>4, <1>5, <1>6, AccountsAssumption DEF Good, Placed, Keyed, Registering,
    Upgrading, Creating, HoldsKeys, InFlow, SessionPCs, CreatePCs, UpgradePCs
<1>10. ASSUME NEW o \in Tabs \ {t}, NEW x \in Tab, x = tab[o]
       PROVE  Good(x)'
  <2>1. Good(x) /\ x.at # v
    BY <1>0, <1>10, OfTab
  <2>2. x.pc = "create_put" => vault'[x.at] = vault[x.at]
    BY <1>6, <2>1 DEF Good, Placed, CreatePCs, Tab
  <2>. QED  BY <1>1, <1>5, <2>1, <2>2 DEF Good, Placed, Keyed, Registering,
              Upgrading, Creating, HoldsKeys, InFlow
<1>11. Sole(t, r)
  BY <1>0, <1>4 DEF Sole, InFlow, Good, Placed
<1>. QED  BY <1>5, <1>7, <1>8, <1>9, <1>10, <1>11, Assembled

LEMMA CreateShareStep ==
  ASSUME AccountInv, NEW t \in Tabs, CreateShare(t)
  PROVE  AccountInv'
<1>. PICK at : at = tab[t].at
  OBVIOUS
<1>0. tab[t] \in Tab /\ Good(tab[t]) /\ tab[t].pc = "create_share"
  BY OfTab DEF CreateShare
<1>1. /\ HoldsKeys(tab[t]) /\ at \in Vaults /\ at # None /\ tab[t].seed \in Seeds
      /\ tab[t].public \in Seeds
  BY <1>0 DEF Good, Placed, CreatePCs, HoldsKeys, Tab
<1>2. user.version = 2 /\ object[at]["v2"] = None
  BY <1>0, <1>1, SessionIsNew DEF Good, Creating
<1>3. PICK r \in Tab : r = [tab[t] EXCEPT !.pc = "create_put"]
  BY <1>0, PlaceNoted, Zenon DEF PCs
<1>4. /\ r.pc = "create_put" /\ r.at = at /\ r.seed = tab[t].seed /\ r.version = tab[t].version
      /\ r.private = tab[t].private /\ r.public = tab[t].public /\ r.sealed = tab[t].sealed
  BY <1>0, <1>3 DEF Tab
<1>5. /\ share' = [share EXCEPT ![at] = [pub |-> tab[t].public, key |-> tab[t].seed]]
      /\ UNCHANGED <<user, keys, vault, object, orgVault>> /\ Become(t, r)
  BY <1>3 DEF CreateShare
<1>6. /\ share' \in [Vaults -> Share]
      /\ share'[at] = [pub |-> tab[t].public, key |-> tab[t].seed]
      /\ \A u \in Vaults \ {at} : share'[u] = share[u]
  <2>1. [pub |-> tab[t].public, key |-> tab[t].seed] \in Share
    BY <1>1 DEF Share
  <2>. QED  BY <1>1, <1>5, <2>1, ServerTypes
<1>7. TypeOK'
  BY <1>5, <1>6, ServerTypes, TabTyped DEF TypeOK
<1>8. OldLive' /\ NewLive'
  <2>1. \A u \in Vaults : Live(u)' = Live(u) /\ vault'[u] = vault[u]
    BY <1>5 DEF Live
  <2>2. Live(at) = None
    BY <1>1, <1>2, ServerTypes DEF Live, AccountInv, NewLive, Versions
  <2>. QED  BY <1>2, <1>5, <1>6, <2>1, <2>2 DEF AccountInv, OldLive, NewLive
<1>9. Good(r)'
  BY <1>0, <1>1, <1>2, <1>4, <1>5, <1>6 DEF Good, Placed, Keyed, Registering,
    Upgrading, Creating, HoldsKeys, InFlow, SessionPCs, CreatePCs, UpgradePCs
<1>10. ASSUME NEW o \in Tabs \ {t}, NEW x \in Tab, x = tab[o]
       PROVE  Good(x)'
  <2>1. Good(x) /\ x.at # at
    BY <1>1, <1>10, OfTab DEF AccountInv, Alone
  <2>2. x.pc = "create_put" => share'[x.at] = share[x.at]
    BY <1>6, <2>1 DEF Good, Placed, CreatePCs, Tab
  <2>. QED  BY <1>2, <1>5, <2>1, <2>2 DEF Good, Placed, Keyed, Registering,
              Upgrading, Creating, HoldsKeys, InFlow
<1>11. Sole(t, r)
  BY <1>0, <1>4, SoleKept DEF InFlow
<1>. QED  BY <1>5, <1>7, <1>8, <1>9, <1>10, <1>11, Assembled

LEMMA CreatePutStep ==
  ASSUME AccountInv, NEW t \in Tabs, CreatePut(t)
  PROVE  AccountInv'
<1>. PICK at : at = tab[t].at
  OBVIOUS
<1>0. tab[t] \in Tab /\ Good(tab[t]) /\ tab[t].pc = "create_put" /\ vault[at] # "none"
  BY OfTab DEF CreatePut
<1>1. /\ HoldsKeys(tab[t]) /\ at \in Vaults /\ at # None /\ tab[t].seed \in Seeds
      /\ tab[t].public = tab[t].private
  BY <1>0 DEF Good, Placed, CreatePCs, HoldsKeys, Tab
<1>2. user.version = 2
  BY <1>1, SessionIsNew
<1>3. PICK r \in Tab : r = Done(tab[t])
  BY <1>0, DoneFields
<1>4. r.pc = "idle" /\ r.at = None /\ Good(r)
  BY <1>0, <1>3, DoneFields, DoneFits DEF Good, Placed
<1>5. /\ object' = [object EXCEPT ![at]["v2"] = tab[t].seed]
      /\ UNCHANGED <<user, keys, vault, share, orgVault>> /\ Become(t, r)
  BY <1>3 DEF CreatePut
<1>6. /\ object' \in [Vaults -> [Versions -> Seeds \union {Legacy, None}]]
      /\ object'[at]["v2"] = tab[t].seed
      /\ \A u \in Vaults \ {at} : object'[u] = object[u]
  BY <1>1, <1>5, ServerTypes DEF Versions
<1>7. TypeOK'
  BY <1>5, <1>6, ServerTypes, TabTyped DEF TypeOK
<1>8. OldLive' /\ NewLive'
  <2>1. \A u \in Vaults \ {at} : Live(u)' = Live(u)
    BY <1>5, <1>6 DEF Live
  <2>2. Live(at)' = tab[t].seed
    <3>1. vault[at] = "v2"
      BY <1>0, <1>1, <1>2, ServerTypes DEF AccountInv, NewLive, Versions
    <3>. QED  BY <1>5, <1>6, <3>1 DEF Live
  <2>3. user.state # "gone" =>
          keys # None /\ user.state = "live" /\ tab[t].public = keys.pub
    BY <1>0, <1>1 DEF Good, Keyed, AccountInv, NewLive
  <2>4. user.state # "gone" => share[at] = [pub |-> keys.pub, key |-> tab[t].seed]
    BY <1>0, <1>2, <2>3 DEF Good, Creating
  <2>5. ASSUME NEW u \in Vaults
        PROVE  /\ vault[u] # "v1"
               /\ user.state # "gone" /\ Live(u)' # None =>
                    keys # None /\ share[u] = [pub |-> keys.pub, key |-> Live(u)']
    <3>1. CASE u = at
      BY <1>2, <2>2, <2>3, <2>4, <3>1 DEF AccountInv, NewLive
    <3>2. CASE u # at
      BY <1>2, <2>1, <3>2 DEF AccountInv, NewLive
    <3>. QED  BY <3>1, <3>2
  <2>6. OldLive'
    BY <1>2, <1>5 DEF OldLive
  <2>7. NewLive'
    BY <1>5, <2>5 DEF AccountInv, NewLive
  <2>. QED  BY <2>6, <2>7
<1>9. Good(r)'
  BY <1>2, <1>4, <1>5 DEF Good, Placed, Keyed, Registering, Upgrading, Creating, HoldsKeys, InFlow
<1>10. ASSUME NEW o \in Tabs \ {t}, NEW x \in Tab, x = tab[o]
       PROVE  Good(x)'
  <2>1. Good(x) /\ x.at # at
    BY <1>1, <1>10, OfTab DEF AccountInv, Alone
  <2>2. x.pc = "create_share" => object'[x.at] = object[x.at]
    BY <1>6, <2>1 DEF Good, Placed, CreatePCs, Tab
  <2>. QED  BY <1>2, <1>5, <2>1, <2>2 DEF Good, Placed, Keyed, Registering,
              Upgrading, Creating, HoldsKeys, InFlow
<1>11. Sole(t, r)
  BY <1>4, SoleKept DEF InFlow
<1>. QED  BY <1>5, <1>7, <1>8, <1>9, <1>10, <1>11, Assembled

LEMMA UndoCreateStep ==
  ASSUME AccountInv, NEW t \in Tabs, UndoCreate(t)
  PROVE  AccountInv'
<1>. PICK at : at = tab[t].at
  OBVIOUS
<1>0. tab[t] \in Tab /\ Good(tab[t]) /\ tab[t].pc = "undo"
  BY OfTab DEF UndoCreate
<1>1. HoldsKeys(tab[t]) /\ at \in Vaults /\ at # None
  BY <1>0 DEF Good, Placed, CreatePCs, HoldsKeys, Tab
<1>2. user.version = 2
  BY <1>1, SessionIsNew
<1>3. PICK r \in Tab : r = Done(tab[t])
  BY <1>0, DoneFields
<1>4. r.pc = "idle" /\ r.at = None /\ Good(r)
  BY <1>0, <1>3, DoneFields, DoneFits DEF Good, Placed
<1>5. /\ vault' = [vault EXCEPT ![at] = "none"]
      /\ share' = [share EXCEPT ![at] = None]
      /\ object' = [object EXCEPT ![at] = [w \in Versions |-> None]]
      /\ UNCHANGED <<user, keys, orgVault>> /\ Become(t, r)
  BY <1>3 DEF UndoCreate
<1>6. /\ object' \in [Vaults -> [Versions -> Seeds \union {Legacy, None}]]
      /\ vault' \in [Vaults -> Versions \union {"none"}] /\ share' \in [Vaults -> Share]
      /\ vault'[at] = "none"
      /\ \A u \in Vaults \ {at} :
           object'[u] = object[u] /\ vault'[u] = vault[u] /\ share'[u] = share[u]
  BY <1>1, <1>5, ServerTypes DEF Share
<1>7. TypeOK'
  BY <1>5, <1>6, ServerTypes, TabTyped DEF TypeOK
<1>8. OldLive' /\ NewLive'
  <2>1. \A u \in Vaults \ {at} : Live(u)' = Live(u)
    BY <1>5, <1>6 DEF Live
  <2>2. Live(at)' = None
    BY <1>6 DEF Live
  <2>. QED  BY <1>1, <1>2, <1>5, <1>6, <2>1, <2>2 DEF AccountInv, OldLive, NewLive
<1>9. Good(r)'
  BY <1>2, <1>4, <1>5 DEF Good, Placed, Keyed, Registering, Upgrading, Creating, HoldsKeys, InFlow
<1>10. ASSUME NEW o \in Tabs \ {t}, NEW x \in Tab, x = tab[o]
       PROVE  Good(x)'
  <2>1. Good(x) /\ x.at # at
    BY <1>1, <1>10, OfTab DEF AccountInv, Alone
  <2>2. x.pc \in CreatePCs =>
          object'[x.at] = object[x.at] /\ vault'[x.at] = vault[x.at] /\ share'[x.at] = share[x.at]
    BY <1>6, <2>1 DEF Good, Placed, Tab
  <2>. QED  BY <1>2, <1>5, <2>1, <2>2 DEF Good, Placed, Keyed, Registering,
              Upgrading, Creating, HoldsKeys, InFlow, CreatePCs
<1>11. Sole(t, r)
  BY <1>4, SoleKept DEF InFlow
<1>. QED  BY <1>5, <1>7, <1>8, <1>9, <1>10, <1>11, Assembled

LEMMA RescueOrgVaultStep ==
  ASSUME AccountInv, NEW t \in Tabs, RescueOrgVault(t)
  PROVE  AccountInv'
<1>1. orgVault' \in Versions /\ UNCHANGED <<user, keys, vault, share, object, tab>>
  BY DEF RescueOrgVault, Versions
<1>. QED  BY <1>1 DEF AccountInv, TypeOK, OldLive, NewLive, Live, Alone, AllGood, Good, Placed,
            Keyed, Registering, Upgrading, Creating, HoldsKeys, InFlow, Owned

LEMMA DeleteObjectsStep ==
  ASSUME AccountInv, NEW t \in Tabs, DeleteObjects(t)
  PROVE  AccountInv'
<1>0. /\ tab[t] \in Tab /\ Good(tab[t]) /\ tab[t].pc = "delete_objects"
      /\ tab[t].todo \in SUBSET Vaults
  BY OfTab DEF DeleteObjects, Tab
<1>1. HoldsKeys(tab[t])
  BY <1>0 DEF Good, Placed, SessionPCs
<1>2. user.version = 2
  BY <1>1, SessionIsNew
<1>3. PICK v \in Vaults :
        /\ object' = [object EXCEPT ![v] = [w \in Versions |-> None]]
        /\ Become(t, [tab[t] EXCEPT !.todo = tab[t].todo \ {v}])
  BY <1>0 DEF DeleteObjects
<1>4. tab[t].todo \ {v} \in SUBSET Vaults
  BY <1>0
<1>5. PICK r \in Tab : r = [tab[t] EXCEPT !.todo = tab[t].todo \ {v}]
  BY <1>0, <1>4, RestNoted, Zenon
<1>6. /\ r.pc = tab[t].pc /\ r.at = tab[t].at /\ r.seed = tab[t].seed
      /\ r.version = tab[t].version /\ r.typed = tab[t].typed
      /\ r.private = tab[t].private /\ r.public = tab[t].public /\ r.sealed = tab[t].sealed
  BY <1>0, <1>5 DEF Tab
<1>7. UNCHANGED <<user, keys, vault, share, orgVault>> /\ Become(t, r)
  BY <1>3, <1>5 DEF DeleteObjects
<1>8. /\ object' \in [Vaults -> [Versions -> Seeds \union {Legacy, None}]]
      /\ \A u \in Vaults : object'[u] = object[u] \/ \A w \in Versions : object'[u][w] = None
  BY <1>3, ServerTypes
<1>9. TypeOK'
  BY <1>7, <1>8, ServerTypes, TabTyped DEF TypeOK
<1>10. OldLive' /\ NewLive'
  <2>1. \A u \in Vaults : Live(u)' \in {None, Live(u)}
    BY <1>7, <1>8, ServerTypes DEF Live
  <2>. QED  BY <1>2, <1>7, <2>1 DEF AccountInv, OldLive, NewLive
<1>11. Good(r)'
  BY <1>0, <1>2, <1>6, <1>7 DEF Good, Placed, Keyed, Registering, Upgrading, Creating, HoldsKeys,
    InFlow, SessionPCs, CreatePCs, UpgradePCs
<1>12. ASSUME NEW o \in Tabs \ {t}, NEW x \in Tab, x = tab[o]
       PROVE  Good(x)'
  <2>1. Good(x)
    BY <1>12, OfTab
  <2>2. x.pc = "create_share" => object'[x.at]["v2"] = None
    BY <1>2, <1>8, <2>1 DEF Good, Placed, Creating, CreatePCs, Tab, Versions
  <2>. QED  BY <1>2, <1>7, <2>1, <2>2 DEF Good, Placed, Keyed, Registering,
              Upgrading, Creating, HoldsKeys, InFlow
<1>13. Sole(t, r)
  BY <1>0, <1>6, SoleKept DEF InFlow
<1>. QED  BY <1>7, <1>9, <1>10, <1>11, <1>12, <1>13, Assembled

LEMMA DeleteRowsStep ==
  ASSUME AccountInv, NEW t \in Tabs, DeleteRows(t)
  PROVE  AccountInv'
<1>. DEFINE done == tab[t].done
<1>0. /\ tab[t] \in Tab /\ Good(tab[t]) /\ tab[t].pc = "delete_objects"
  BY OfTab DEF DeleteRows
<1>1. HoldsKeys(tab[t])
  BY <1>0 DEF Good, Placed, SessionPCs
<1>2. user.version = 2
  BY <1>1, SessionIsNew
<1>3. PICK r \in Tab : r = [tab[t] EXCEPT !.pc = "delete_user"]
  BY <1>0, PlaceNoted, Zenon DEF PCs
<1>4. /\ r.pc = "delete_user" /\ r.at = tab[t].at /\ r.seed = tab[t].seed
      /\ r.version = tab[t].version /\ r.typed = tab[t].typed
      /\ r.private = tab[t].private /\ r.public = tab[t].public /\ r.sealed = tab[t].sealed
  BY <1>0, <1>3 DEF Tab
<1>5. /\ vault' = [v \in Vaults |-> IF v \in done THEN "none" ELSE vault[v]]
      /\ share' = [v \in Vaults |-> IF v \in done THEN None ELSE share[v]]
      /\ UNCHANGED <<user, keys, object, orgVault>> /\ Become(t, r)
  BY <1>3 DEF DeleteRows
<1>6. /\ vault' \in [Vaults -> Versions \union {"none"}] /\ share' \in [Vaults -> Share]
      /\ \A v \in Vaults : \/ vault'[v] = "none"
                           \/ vault'[v] = vault[v] /\ share'[v] = share[v]
  BY <1>5, ServerTypes DEF Share
<1>7. TypeOK'
  BY <1>5, <1>6, ServerTypes, TabTyped DEF TypeOK
<1>8. OldLive' /\ NewLive'
  <2>1. \A v \in Vaults : \/ vault'[v] = "none" /\ Live(v)' = None
                          \/ /\ vault'[v] = vault[v] /\ share'[v] = share[v]
                             /\ Live(v)' = Live(v)
    BY <1>5, <1>6 DEF Live
  <2>. QED  BY <1>2, <1>5, <2>1 DEF AccountInv, OldLive, NewLive
<1>9. Good(r)'
  BY <1>0, <1>2, <1>4, <1>5 DEF Good, Placed, Keyed, Registering, Upgrading, Creating, HoldsKeys,
    InFlow, SessionPCs, CreatePCs, UpgradePCs
<1>10. ASSUME NEW o \in Tabs \ {t}, NEW x \in Tab, x = tab[o]
       PROVE  Good(x)'
  <2>1. Good(x)
    BY <1>10, OfTab
  <2>2. x.pc = "create_put" => \/ vault'[x.at] = "none"
                               \/ vault'[x.at] = vault[x.at] /\ share'[x.at] = share[x.at]
    BY <1>6, <2>1 DEF Good, Placed, CreatePCs, Tab
  <2>. QED  BY <1>2, <1>5, <2>1, <2>2 DEF Good, Placed, Keyed, Registering,
              Upgrading, Creating, HoldsKeys, InFlow
<1>11. Sole(t, r)
  BY <1>0, <1>4, SoleKept DEF InFlow
<1>. QED  BY <1>5, <1>7, <1>8, <1>9, <1>10, <1>11, Assembled

LEMMA DeleteUserStep ==
  ASSUME AccountInv, NEW t \in Tabs, DeleteUser(t)
  PROVE  AccountInv'
<1>0. /\ tab[t] \in Tab /\ Good(tab[t]) /\ tab[t].pc = "delete_user"
  BY OfTab DEF DeleteUser
<1>1. HoldsKeys(tab[t])
  BY <1>0 DEF Good, Placed, SessionPCs
<1>2. user.version = 2
  BY <1>1, SessionIsNew
<1>3. PICK r \in Tab : r = NewTab
  BY NewTabFits
<1>4. Good(r) /\ r.pc = "idle" /\ r.at = None /\ ~HoldsKeys(r)
  BY <1>3, NewTabFits DEF NewTab, HoldsKeys
<1>5. /\ user' = [NoUser EXCEPT !.state = "gone"] /\ keys' = None
      /\ share' = [v \in Vaults |-> None]
      /\ UNCHANGED <<vault, object, orgVault>> /\ Become(t, r)
  BY <1>3 DEF DeleteUser
<1>6. /\ user' \in User /\ user'.state = "gone" /\ user'.version = 2
      /\ share' \in [Vaults -> Share]
  BY <1>5 DEF NoUser, User, Share
<1>7. TypeOK'
  BY <1>5, <1>6, ServerTypes, TabTyped DEF TypeOK, Keys
<1>8. OldLive' /\ NewLive'
  <2>1. keys' = None /\ vault' = vault
    BY <1>5
  <2>2. \A v \in Vaults : vault[v] # "v1"
    BY <1>2 DEF AccountInv, NewLive
  <2>3. OldLive'
    BY <1>6 DEF OldLive
  <2>4. NewLive'
    BY <1>6, <2>1, <2>2 DEF NewLive
  <2>. QED  BY <2>3, <2>4
<1>9. Good(r)'
  BY <1>4, RestFits
<1>10. ASSUME NEW o \in Tabs \ {t}, NEW x \in Tab, x = tab[o]
       PROVE  Good(x)'
  <2>1. Good(x)
    BY <1>10, OfTab
  <2>. QED  BY <1>2, <1>5, <1>6, <2>1 DEF Good, Placed, Keyed, Registering,
              Upgrading, Creating, HoldsKeys, InFlow
<1>11. Sole(t, r)
  BY <1>4, SoleKept DEF InFlow
<1>. QED  BY <1>5, <1>7, <1>8, <1>9, <1>10, <1>11, Assembled

-----------------------------------------------------------------------------
(* The invariant.                                                          *)

LEMMA InitInv == Init => AccountInv
<1>. SUFFICES ASSUME Init PROVE AccountInv
  OBVIOUS
<1>1. \A t \in Tabs : tab[t] = NewTab
  BY DEF Init
<1>2. AllGood
  BY <1>1, NewTabFits DEF AllGood
<1>3. Alone
  BY <1>1 DEF Alone, NewTab, InFlow
<1>4. tab \in [Tabs -> Tab] /\ keys = None /\ keys \in Keys /\ share \in [Vaults -> Share]
  BY NewTabFits DEF Init, Keys, Share
<1>5. CASE /\ user = NoUser /\ orgVault = "none"
           /\ vault = [v \in Vaults |-> "none"]
           /\ object = [v \in Vaults |-> [w \in Versions |-> None]]
  <2>1. TypeOK
    BY <1>4, <1>5 DEF TypeOK, NoUser, User, Versions
  <2>2. OldLive /\ NewLive
    BY <1>4, <1>5 DEF OldLive, NewLive, NoUser, Live
  <2>. QED  BY <1>2, <1>3, <2>1, <2>2 DEF AccountInv
<1>6. ASSUME user = OldUser, orgVault \in {"none", "v1"}, NEW old \in SUBSET Vaults,
             vault = [v \in Vaults |-> IF v \in old THEN "v1" ELSE "none"],
             object = [v \in Vaults |-> [w \in Versions |->
                         IF v \in old /\ w = "v1" THEN Legacy ELSE None]]
      PROVE  AccountInv
  <2>1. TypeOK
    <3>1. user \in User /\ user.version = 1
      BY <1>6, AccountsAssumption DEF OldUser, User
    <3>. QED  BY <1>4, <1>6, <3>1 DEF TypeOK, Versions
  <2>2. OldLive /\ NewLive
    BY <1>4, <1>6 DEF OldLive, NewLive, OldUser, Versions
  <2>. QED  BY <1>2, <1>3, <2>1, <2>2 DEF AccountInv
<1>. QED  BY <1>5, <1>6 DEF Init

LEMMA NextInv ==
  ASSUME OneLegacyTab, AccountInv, [Next]_vars
  PROVE  AccountInv'
<1>1. CASE UNCHANGED vars
  BY <1>1 DEF vars, server, AccountInv, TypeOK, OldLive, NewLive, Live, Alone, AllGood, Good,
    Placed, Keyed, Registering, Upgrading, Creating, HoldsKeys, InFlow, Owned
<1>2. ASSUME NEW t \in Tabs, NEW p \in Passwords, Register(t, p) \/ SignIn(t, p) \/ DeleteAccount(t, p)
      PROVE  AccountInv'
  BY <1>2, RegisterStep, SignInStep, DeleteAccountStep
<1>3. ASSUME NEW t \in Tabs, RegisterUser(t) \/ RegisterKeys(t)
      PROVE  AccountInv'
  BY <1>3, RegisterUserStep, RegisterKeysStep
<1>4. ASSUME NEW t \in Tabs, Login(t) \/ SecondStep(t) \/ EstablishSession(t)
      PROVE  AccountInv'
  BY <1>4, LoginStep, SecondStepStep, EstablishSessionStep
<1>5. ASSUME NEW t \in Tabs,
             StartUpgrade(t) \/ LoadVault(t) \/ Stage(t) \/ CheckUpgrade(t) \/ UpgradeBatch(t)
      PROVE  AccountInv'
  BY <1>5, StartUpgradeStep, LoadVaultStep, StageStep, CheckUpgradeStep, UpgradeBatchStep
<1>6. ASSUME NEW t \in Tabs, AbandonUpgrade(t) \/ Refused(t) \/ Fail(t)
      PROVE  AccountInv'
  BY <1>6, BrokenOff DEF AbandonUpgrade, Refused, Fail
<1>7. ASSUME NEW t \in Tabs, NEW p \in Passwords, NEW q \in Passwords, ChangePassword(t, p, q)
      PROVE  AccountInv'
  BY <1>7, ChangePasswordStep
<1>8. ASSUME NEW t \in Tabs, CheckChange(t) \/ ChangeBatch(t)
      PROVE  AccountInv'
  BY <1>8, CheckChangeStep, ChangeBatchStep
<1>9. ASSUME NEW t \in Tabs, NEW v \in Vaults, CreateVault(t, v)
      PROVE  AccountInv'
  BY <1>9, CreateVaultStep
<1>10. ASSUME NEW t \in Tabs, CreateShare(t) \/ CreatePut(t) \/ UndoCreate(t) \/ RescueOrgVault(t)
       PROVE  AccountInv'
  BY <1>10, CreateShareStep, CreatePutStep, UndoCreateStep, RescueOrgVaultStep
<1>11. ASSUME NEW t \in Tabs, CheckDelete(t) \/ DeleteObjects(t) \/ DeleteRows(t) \/ DeleteUser(t)
       PROVE  AccountInv'
  BY <1>11, CheckDeleteStep, DeleteObjectsStep, DeleteRowsStep, DeleteUserStep
<1>12. ASSUME NEW t \in Tabs, Crash(t) \/ Reload(t)
       PROVE  AccountInv'
  BY <1>12, Renewed DEF Crash, Reload
<1>. QED  BY <1>1, <1>2, <1>3, <1>4, <1>5, <1>6, <1>7, <1>8, <1>9, <1>10, <1>11, <1>12 DEF Next

\* The inductive invariant: what every tab carries agrees with what is stored, as
\* long as one tab at a time signs in to an account of version 1.
THEOREM AccountInvariance == ASSUME OneLegacyTab PROVE Spec => []AccountInv
<1>1. AccountInv /\ [Next]_vars => AccountInv'
  BY NextInv
<1>. QED  BY InitInv, <1>1, PTL DEF Spec

-----------------------------------------------------------------------------
(* What follows from it.                                                   *)

LEMMA OfInv == AccountInv => TypeOK /\ KeysOpen /\ VaultsOpen /\ TabKeyed
<1>. SUFFICES ASSUME AccountInv PROVE TypeOK /\ KeysOpen /\ VaultsOpen /\ TabKeyed
  OBVIOUS
<1>1. TypeOK
  BY DEF AccountInv
<1>2. KeysOpen
  BY DEF AccountInv, NewLive, KeysOpen
<1>3. VaultsOpen
  <2>1. SUFFICES ASSUME user.state = "live", NEW v \in Vaults, Live(v) # None
                 PROVE  IF user.version = 1
                        THEN Live(v) = Legacy /\ user.legacySalt /\ user.password = Original
                        ELSE keys # None /\ share[v] = [pub |-> keys.pub, key |-> Live(v)]
    BY DEF VaultsOpen
  <2>2. CASE user.version = 1
    <3>1. Live(v) = Legacy
      BY <2>1, <2>2 DEF AccountInv, OldLive, Live
    <3>. QED  BY <2>2, <3>1 DEF AccountInv, OldLive, OldUser
  <2>3. CASE user.version # 1
    <3>1. user.version = 2
      BY <2>3, ServerTypes DEF User
    <3>. QED  BY <2>1, <2>3, <3>1 DEF AccountInv, NewLive
  <2>. QED  BY <2>2, <2>3
<1>4. TabKeyed
  <2>1. SUFFICES ASSUME NEW t \in Tabs, SignedIn(t), user.state = "live"
                 PROVE  keys # None /\ tab[t].private = keys.pub /\ tab[t].public = keys.pub
    BY DEF TabKeyed
  <2>. QED  BY <2>1, OfTab DEF Good, Keyed, Placed, HoldsKeys, SignedIn
<1>. QED  BY <1>1, <1>2, <1>3, <1>4

\* Every reachable state has the declared types.
THEOREM TypeCorrect == ASSUME OneLegacyTab PROVE Spec => []TypeOK
BY AccountInvariance, OfInv, PTL

\* Whoever can sign in can unlock the private key, and it is the one the public
\* key belongs to: the credentials and the sealed key are replaced together, by
\* RegisterKeys, UpgradeBatch and ChangeBatch, from tabs that hold this key.
THEOREM KeysAlwaysOpen == ASSUME OneLegacyTab PROVE Spec => []KeysOpen
BY AccountInvariance, OfInv, PTL

\* And can open every vault that has an object, before, during and after an
\* upgrade that is interrupted anywhere, and while vaults are made, undone and
\* deleted by other tabs.
THEOREM VaultsAlwaysOpen == ASSUME OneLegacyTab PROVE Spec => []VaultsOpen
BY AccountInvariance, OfInv, PTL

\* Every session works with the account's own keypair.
THEOREM TabsAlwaysKeyed == ASSUME OneLegacyTab PROVE Spec => []TabKeyed
BY AccountInvariance, OfInv, PTL

LEMMA ChangeKeepsPair ==
  ASSUME AccountInv, NEW t \in Tabs, ChangeBatch(t), keys # None
  PROVE  keys' # None /\ keys'.pub = keys.pub
<1>0. tab[t] \in Tab /\ Good(tab[t]) /\ tab[t].pc = "change_batch"
  BY OfTab DEF ChangeBatch
<1>1. tab[t].next \in Passwords /\ tab[t].seed \in Seeds /\ tab[t].sealed.pair \in Seeds
  BY <1>0 DEF Good, Placed, SessionPCs, UpgradePCs, CreatePCs, HoldsKeys, Tab
<1>2. PICK sealed \in [pair: Seeds, under: Derived] :
        sealed = [pair |-> tab[t].sealed.pair,
                  under |-> [password |-> tab[t].next, salt |-> tab[t].seed]]
  BY <1>1 DEF Derived
<1>3. keys' = [keys EXCEPT !.sealed = sealed]
  BY <1>2 DEF ChangeBatch
<1>4. keys \in [pub: Seeds, sealed: Sealed] /\ sealed \in Sealed
  BY ServerTypes DEF Keys, Sealed
<1>. QED  BY <1>3, <1>4, NoneAssumption

LEMMA KeypairStep ==
  ASSUME AccountInv, [Next]_vars, keys # None, user'.state = "live"
  PROVE  keys' # None /\ keys'.pub = keys.pub
<1>1. ASSUME NEW t \in Tabs, ~(RegisterKeys(t) \/ UpgradeBatch(t) \/ ChangeBatch(t) \/ DeleteUser(t)),
             \/ \E p \in Passwords : Register(t, p) \/ SignIn(t, p) \/ DeleteAccount(t, p)
             \/ RegisterUser(t)
             \/ Login(t) \/ SecondStep(t) \/ EstablishSession(t)
             \/ StartUpgrade(t) \/ LoadVault(t) \/ Stage(t) \/ AbandonUpgrade(t) \/ CheckUpgrade(t)
             \/ \E p, q \in Passwords : ChangePassword(t, p, q)
             \/ CheckChange(t)
             \/ \E v \in Vaults : CreateVault(t, v)
             \/ CreateShare(t) \/ CreatePut(t) \/ UndoCreate(t)
             \/ RescueOrgVault(t)
             \/ CheckDelete(t) \/ DeleteObjects(t) \/ DeleteRows(t)
             \/ Refused(t) \/ Fail(t) \/ Crash(t) \/ Reload(t)
      PROVE  UNCHANGED keys
  BY <1>1 DEF Register, SignIn, DeleteAccount, RegisterUser, Login, SecondStep, EstablishSession,
    StartUpgrade, LoadVault, Stage, AbandonUpgrade, CheckUpgrade, ChangePassword, CheckChange,
    CreateVault, CreateShare, CreatePut, UndoCreate, RescueOrgVault, CheckDelete, DeleteObjects,
    DeleteRows, Refused, Fail, Crash, Reload, server
<1>2. ASSUME NEW t \in Tabs, RegisterKeys(t) PROVE FALSE
  BY <1>2 DEF RegisterKeys
<1>3. ASSUME NEW t \in Tabs, UpgradeBatch(t) PROVE FALSE
  <2>1. InFlow(tab[t])
    BY <1>3, OfTab DEF UpgradeBatch, Good, Placed, UpgradePCs, InFlow
  <2>. QED  BY <2>1, FlowIsOld DEF AccountInv, OldLive
<1>4. ASSUME NEW t \in Tabs, ChangeBatch(t) PROVE keys' # None /\ keys'.pub = keys.pub
  BY <1>4, ChangeKeepsPair
<1>5. ASSUME NEW t \in Tabs, DeleteUser(t) PROVE FALSE
  BY <1>5 DEF DeleteUser, NoUser
<1>6. CASE UNCHANGED vars
  BY <1>6 DEF vars, server
<1>. QED  BY <1>1, <1>2, <1>3, <1>4, <1>5, <1>6 DEF Next

\* A keypair once in place is never replaced while the account lives.  With two
\* tabs in an old account's flow it is, which account_upgrade_race shows.
THEOREM KeypairStays == ASSUME OneLegacyTab PROVE Spec => KeypairKept
<1>1. AccountInv /\ [Next]_vars =>
        [keys # None /\ user'.state = "live" => keys' # None /\ keys'.pub = keys.pub]_vars
  BY KeypairStep
<1>. QED  BY AccountInvariance, <1>1, PTL DEF Spec, KeypairKept
=============================================================================
