------------------------------ MODULE Accounts ------------------------------
(***************************************************************************)
(* One account: its credentials, its keypair, the keys of the vaults it    *)
(* owns, and the tabs that register it, sign in to it, move it from        *)
(* auth_version 1 to 2, change its master password and delete it.  A tab   *)
(* works through a flow of auth-flow.js one step per await that another    *)
(* tab's request can overtake.  Each tab has a browser of its own.         *)
(*                                                                         *)
(* Argon2id, HKDF, scrypt, AES-GCM and ECIES are perfect: what a password  *)
(* and a salt derive is the pair of the two, a sealed private key opens    *)
(* under the pair it was sealed under and no other, and a share opens with *)
(* the private key of the pair it was wrapped for.  A flow draws all its   *)
(* randomness once: one seed names the salt, the keypair and the vault     *)
(* keys it generates.  A blob is the key it is encrypted under; vaults of  *)
(* organisations come down to one, from before the upgrade, that only this *)
(* account's legacy key opens.                                             *)
(***************************************************************************)
EXTENDS Naturals, FiniteSets

CONSTANTS
  Tabs,        \* browser tabs, each a client session
  Passwords,   \* master passwords the owner may use
  Original,    \* the one that the pre-upgrade blobs are encrypted under
  Seeds,       \* what a flow generates
  Vaults,      \* the vaults the account owns
  Legacy,      \* the pre-upgrade key: PBKDF2 of Original and encryption_salt
  None,        \* nothing: no key, no password, no blob
  LegacyTabs,  \* how many tabs sign in to an account of version 1 at a time
  Faults       \* what may go wrong at an await: "crash", "fail"

ASSUME AccountsAssumption ==
  /\ Original \in Passwords
  /\ Legacy \notin Seeds /\ None \notin Seeds \union Passwords \union Vaults /\ Legacy # None
  /\ IsFiniteSet(Tabs) /\ LegacyTabs \in Nat \ {0}
  /\ Faults \subseteq {"crash", "fail"}

VARIABLES
  user,      \* the row of users
  keys,      \* the row of user_keys
  vault,     \* vaults: the key version of each row
  share,     \* vault_key_shares: what was wrapped for the account
  object,    \* R2: the key each version of a vault's blob is encrypted under
  orgVault,  \* the key version of the organisation vault
  tab        \* the browser tabs

server == <<user, keys, vault, share, object, orgVault>>
vars == <<server, tab>>

Versions == {"v1", "v2"}

\* What a password and a salt derive: the verifier scrypt stores and the KEK.
Derived == [password: Passwords, salt: Seeds]

User == [state: {"none", "live", "gone"},
         version: {1, 2},
         password: Passwords \union {None},
         salt: Seeds \union {None},    \* kdf_salt
         legacySalt: BOOLEAN,          \* encryption_salt is not ''
         pending: BOOLEAN]             \* legacy_vaults_pending > 0

NoUser == [state |-> "none", version |-> 2, password |-> None, salt |-> None,
           legacySalt |-> FALSE, pending |-> FALSE]

Sealed == [pair: Seeds, under: Derived] \union {None}
Keys == [pub: Seeds, sealed: Sealed] \union {None}
Share == [pub: Seeds, key: Seeds] \union {None}

\* Nothing is no record.
ASSUME NoneAssumption ==
  None \notin [pair: Seeds, under: Derived] \union [pub: Seeds, sealed: Sealed]
              \union [pub: Seeds, key: Seeds]

PCs == {"idle", "login", "second", "respond",
        "load", "stage", "upgrade_batch",
        "change", "change_batch",
        "delete", "delete_objects", "delete_user",
        "register_user", "register_keys",
        "create_share", "create_put", "undo"}

Tab == [pc: PCs,
        typed: Passwords \union {None},    \* the password given to this flow
        next: Passwords \union {None},     \* the one it is to become
        version: {0, 1, 2},                \* auth_version, as last read
        salt: Seeds \union {None},         \* kdf_salt, as read before deriving
        rescue: BOOLEAN,                   \* legacy vaults pending, as read
        seed: Seeds \union {None},         \* what this flow generates
        todo: SUBSET Vaults,               \* the vaults still to be treated
        at: Vaults \union {None},          \* the vault in hand
        done: SUBSET Vaults,               \* the vaults treated
        failed: BOOLEAN,                   \* a vault could not be re-encrypted
        private: Seeds \union {None},      \* state.privateKey
        sealed: Sealed,                    \* state.wrappedPrivateKey
        public: Seeds \union {None},       \* publicKey in localStorage
        legacy: Passwords \union {None}]   \* state.legacyKey

NewTab == [pc |-> "idle", typed |-> None, next |-> None, version |-> 0,
           salt |-> None, rescue |-> FALSE, seed |-> None, todo |-> {}, at |-> None, done |-> {},
           failed |-> FALSE, private |-> None, sealed |-> None, public |-> None,
           legacy |-> None]

\* The types; an account of version 2 has a verifier and the salt it is derived
\* with.
TypeOK ==
  /\ user \in User
  /\ user.state = "live" /\ user.version = 2 => None \notin {user.password, user.salt}
  /\ keys \in Keys
  /\ vault \in [Vaults -> Versions \union {"none"}]
  /\ share \in [Vaults -> Share]
  /\ object \in [Vaults -> [Versions -> Seeds \union {Legacy, None}]]
  /\ orgVault \in Versions \union {"none"}
  /\ tab \in [Tabs -> Tab]

-----------------------------------------------------------------------------
(* Helpers.                                                                *)

Become(t, r) == tab' = [tab EXCEPT ![t] = r]

\* What a flow leaves behind: the session it has established, nothing else.
Done(r) == [NewTab EXCEPT !.private = r.private, !.sealed = r.sealed,
                          !.public = r.public, !.legacy = r.legacy]

\* A flow that fails is reported and dropped; but a vault half made is deleted,
\* and an upgrade notes a vault it could not re-encrypt and goes on to the next.
Aborted(r) ==
  CASE r.pc \in {"create_share", "create_put"} -> [r EXCEPT !.pc = "undo"]
    [] r.pc = "stage" -> [r EXCEPT !.pc = "load", !.at = None, !.failed = TRUE]
    [] OTHER -> Done(r)

SignedIn(t) == tab[t].private # None
Free(t) == tab[t].pc = "idle"

KeyPair(s, p, salt) ==
  [pub |-> s, sealed |-> [pair |-> s, under |-> [password |-> p, salt |-> salt]]]

Owned == {v \in Vaults : vault[v] # "none"}

\* The object a download serves.
Live(v) == IF vault[v] = "none" THEN None ELSE object[v][vault[v]]

\* A seed drawn now is none that anything refers to.
SealedSeeds(s) == IF s = None THEN {} ELSE {s.pair, s.under.salt}
SeedsInUse ==
  {user.salt} \union (IF keys = None THEN {} ELSE {keys.pub} \union SealedSeeds(keys.sealed))
  \union UNION {IF share[v] = None THEN {} ELSE {share[v].pub, share[v].key} : v \in Vaults}
  \union {object[v][w] : v \in Vaults, w \in Versions}
  \union UNION {{tab[t].salt, tab[t].seed, tab[t].private, tab[t].public}
                \union SealedSeeds(tab[t].sealed) : t \in Tabs}

\* The tabs that are signing in to an account of version 1, or upgrading it.
InLegacyFlow == {t \in Tabs : ~Free(t) /\ tab[t].version = 1}

Unused == Seeds \ SeedsInUse

-----------------------------------------------------------------------------
(* Registering.                                                            *)

\* Nobody has the e-mail address yet.
Register(t, p) ==
  /\ Free(t) /\ ~SignedIn(t)
  /\ user.state = "none"
  /\ \E s \in Unused :
       Become(t, [tab[t] EXCEPT !.pc = "register_user", !.typed = p, !.seed = s])
  /\ UNCHANGED server

\* users.email is UNIQUE.
EmailFree == user.state = "none"

RegisterUser(t) ==
  /\ tab[t].pc = "register_user"
  /\ EmailFree
  /\ user' = [NoUser EXCEPT !.state = "live", !.password = tab[t].typed,
                            !.salt = tab[t].seed]
  /\ Become(t, [tab[t] EXCEPT !.pc = "register_keys"])
  /\ UNCHANGED <<keys, vault, share, object, orgVault>>

\* An insert that reports no success takes the account back.
RegisterKeys(t) ==
  /\ tab[t].pc = "register_keys"
  /\ user.state = "live" /\ keys = None
  /\ \/ /\ keys' = KeyPair(tab[t].seed, tab[t].typed, tab[t].seed)
        /\ UNCHANGED user
     \/ /\ "fail" \in Faults
        /\ user' = NoUser
        /\ UNCHANGED keys
  /\ Become(t, Done(tab[t]))
  /\ UNCHANGED <<vault, share, object, orgVault>>

-----------------------------------------------------------------------------
(* Signing in.                                                             *)

\* GET auth/params: the version, and the salt to derive with.
SignIn(t, p) ==
  /\ Free(t) /\ ~SignedIn(t)
  /\ user.state = "live"
  /\ user.version = 1 => Cardinality(InLegacyFlow) < LegacyTabs
  /\ Become(t, [tab[t] EXCEPT !.pc = "login", !.typed = p,
                  !.version = user.version, !.salt = user.salt])
  /\ UNCHANGED server

\* The version is the one the client took it for, and what it derived is what is
\* stored.
Verified(t) ==
  /\ user.state = "live"
  /\ user.version = tab[t].version
  /\ user.password = tab[t].typed /\ user.salt = tab[t].salt

\* POST login.  With a second factor there is a second request, which reads the
\* row again.
Login(t) ==
  /\ tab[t].pc = "login"
  /\ Verified(t)
  /\ \E pc \in {"second", "respond"} :
       Become(t, [tab[t] EXCEPT !.pc = pc, !.rescue = user.pending /\ user.legacySalt])
  /\ UNCHANGED server

SecondStep(t) ==
  /\ tab[t].pc = "second"
  /\ user.state = "live"
  /\ Become(t, [tab[t] EXCEPT !.pc = "respond",
                  !.version = user.version, !.rescue = user.pending /\ user.legacySalt])
  /\ UNCHANGED server

\* A tab that took the account for one of version 1 has derived no KEK.
Kek(t) == [password |-> tab[t].typed, salt |-> tab[t].salt]
Opens(t, sealed) == sealed # None /\ sealed.under = Kek(t)

\* buildLoginResponse reads the keypair, and the client opens it with its KEK.
EstablishSession(t) ==
  /\ tab[t].pc = "respond" /\ tab[t].version = 2
  /\ Become(t,
       IF keys # None /\ Opens(t, keys.sealed)
       THEN Done([tab[t] EXCEPT !.private = keys.sealed.pair, !.sealed = keys.sealed,
                    !.public = keys.pub,
                    !.legacy = IF tab[t].rescue THEN tab[t].typed ELSE None])
       ELSE Done(tab[t]))
  /\ UNCHANGED server

-----------------------------------------------------------------------------
(* Upgrading an account of version 1, right after it has signed in.        *)

\* The session's keys while the upgrade runs.  Mutant: the new ones already.
AdoptedEarly(t, s) == [tab[t] EXCEPT !.private = s, !.public = s]
KeptSession(t, s) == tab[t]

\* The new hierarchy is generated, the list of vaults fetched.
StartUpgrade(t) ==
  /\ tab[t].pc = "respond" /\ tab[t].version = 1
  /\ \E s \in Unused :
       Become(t, [KeptSession(t, s) EXCEPT !.pc = "load", !.seed = s, !.todo = Owned])
  /\ UNCHANGED server

\* One vault after the other: an empty one, or one the legacy key opens, is
\* re-encrypted; any other is noted.  A load that fails counts as a failed save.
LoadVault(t) ==
  /\ tab[t].pc = "load"
  /\ \E v \in tab[t].todo :
       Become(t, IF Live(v) \in {None, Legacy}
                 THEN [tab[t] EXCEPT !.pc = "stage", !.at = v, !.todo = tab[t].todo \ {v}]
                 ELSE [tab[t] EXCEPT !.failed = TRUE, !.todo = tab[t].todo \ {v}])
  /\ UNCHANGED server

\* The version an upload writes: staged beside the live one.  Mutant: that one.
InPlace(v) == vault[v]
StagedVersion(v) == "v2"

Stage(t) ==
  /\ tab[t].pc = "stage"
  /\ vault[tab[t].at] # "none"
  /\ object' = [object EXCEPT ![tab[t].at][StagedVersion(tab[t].at)] = tab[t].seed]
  /\ Become(t, [tab[t] EXCEPT !.pc = "load", !.done = tab[t].done \union {tab[t].at},
                  !.at = None])
  /\ UNCHANGED <<user, keys, vault, share, orgVault>>

\* A vault that could not be re-encrypted ends the upgrade before it is sent.
AbandonUpgrade(t) ==
  /\ tab[t].pc = "load" /\ tab[t].todo = {} /\ tab[t].failed
  /\ Become(t, Aborted(tab[t]))
  /\ UNCHANGED server

\* POST auth/upgrade.  An account that is upgraded already is left alone, and the
\* client takes the answer for a success.
Upgraded(t, pending) ==
  Done([tab[t] EXCEPT !.private = tab[t].seed, !.public = tab[t].seed,
          !.sealed = KeyPair(tab[t].seed, tab[t].typed, tab[t].seed).sealed,
          !.legacy = IF pending THEN tab[t].typed ELSE None])

CheckUpgrade(t) ==
  /\ tab[t].pc = "load" /\ tab[t].todo = {} /\ ~tab[t].failed
  /\ user.state = "live"
  /\ \/ /\ user.version = 1 /\ tab[t].done \subseteq Owned
        /\ Become(t, [tab[t] EXCEPT !.pc = "upgrade_batch", !.rescue = orgVault = "v1"])
     \/ /\ user.version = 2
        /\ Become(t, Upgraded(t, FALSE))
  /\ UNCHANGED server

\* The row as upgraded.  Mutant: the salt is forgotten.
Unsalted(t) == [user EXCEPT !.version = 2, !.pending = tab[t].rescue,
                            !.legacySalt = tab[t].rescue]
UpgradedUser(t) == [user EXCEPT !.version = 2, !.salt = tab[t].seed,
                      !.pending = tab[t].rescue, !.legacySalt = tab[t].rescue]

\* One batch: the keypair and the shares are upserts, the versions are flipped,
\* the credentials are replaced if the account is of version 1 still.  The
\* answer may be lost.
UpgradeBatch(t) ==
  /\ tab[t].pc = "upgrade_batch"
  /\ user.state = "live" /\ tab[t].done \subseteq Owned
  /\ keys' = KeyPair(tab[t].seed, tab[t].typed, tab[t].seed)
  /\ share' = [v \in Vaults |-> IF v \in tab[t].done
                                THEN [pub |-> tab[t].seed, key |-> tab[t].seed]
                                ELSE share[v]]
  /\ vault' = [v \in Vaults |-> IF v \in tab[t].done THEN "v2" ELSE vault[v]]
  /\ user' = IF user.version = 1 THEN UpgradedUser(t) ELSE user
  /\ \/ Become(t, Upgraded(t, tab[t].rescue))
     \/ "fail" \in Faults /\ Become(t, Aborted(tab[t]))
  /\ UNCHANGED <<object, orgVault>>

-----------------------------------------------------------------------------
(* Changing the master password.                                           *)

\* The salt on file is fetched, and the private key re-sealed: that fails here
\* when the current password, or the sealed copy the session holds, is not the
\* current one.
ChangePassword(t, old, new) ==
  /\ Free(t) /\ SignedIn(t)
  /\ user.state = "live" /\ user.version = 2
  /\ tab[t].sealed.under = [password |-> old, salt |-> user.salt]
  /\ \E s \in Unused :
       Become(t, [tab[t] EXCEPT !.pc = "change", !.typed = old, !.next = new,
                    !.version = 2, !.salt = user.salt, !.seed = s])
  /\ UNCHANGED server

\* PUT update-password: the old password is checked.

CheckChange(t) ==
  /\ tab[t].pc = "change"
  /\ Verified(t)
  /\ Become(t, [tab[t] EXCEPT !.pc = "change_batch"])
  /\ UNCHANGED server

\* The credentials as changed.  Mutant: the salt is left out.
PasswordOnly(t) == [user EXCEPT !.password = tab[t].next]
Changed(t) == [user EXCEPT !.password = tab[t].next, !.salt = tab[t].seed]

\* One batch: the verifier, its salt and the re-sealed private key.  The answer
\* may be lost.
ChangeBatch(t) ==
  /\ tab[t].pc = "change_batch"
  /\ LET sealed == [pair |-> tab[t].sealed.pair,
                    under |-> [password |-> tab[t].next, salt |-> tab[t].seed]]
     IN /\ user' = IF user.state = "live" THEN Changed(t) ELSE user
        /\ keys' = IF keys = None THEN None ELSE [keys EXCEPT !.sealed = sealed]
        /\ \/ Become(t, Done([tab[t] EXCEPT !.sealed = sealed]))
           \/ "fail" \in Faults /\ Become(t, Aborted(tab[t]))
  /\ UNCHANGED <<vault, share, object, orgVault>>

-----------------------------------------------------------------------------
(* The vaults of the account.                                              *)

\* POST vaults.  An id that nothing refers to stands for a fresh one.
CreateVault(t, v) ==
  /\ Free(t) /\ SignedIn(t)
  /\ user.state = "live"
  /\ vault[v] = "none" /\ \A w \in Versions : object[v][w] = None
  /\ \A o \in Tabs : v \notin tab[o].todo \union tab[o].done \union {tab[o].at}
  /\ vault' = [vault EXCEPT ![v] = "v2"]
  /\ \E s \in Unused :
       Become(t, [tab[t] EXCEPT !.pc = "create_share", !.at = v, !.seed = s])
  /\ UNCHANGED <<user, keys, share, object, orgVault>>

\* PUT shares: the vault key is wrapped for the public key in localStorage.
CreateShare(t) ==
  /\ tab[t].pc = "create_share"
  /\ vault[tab[t].at] # "none" /\ user.state = "live"
  /\ share' = [share EXCEPT ![tab[t].at] = [pub |-> tab[t].public, key |-> tab[t].seed]]
  /\ Become(t, [tab[t] EXCEPT !.pc = "create_put"])
  /\ UNCHANGED <<user, keys, vault, object, orgVault>>

CreatePut(t) ==
  /\ tab[t].pc = "create_put"
  /\ vault[tab[t].at] # "none"
  /\ object' = [object EXCEPT ![tab[t].at]["v2"] = tab[t].seed]
  /\ Become(t, Done(tab[t]))
  /\ UNCHANGED <<user, keys, vault, share, orgVault>>

\* The client deletes the vault it could not finish.
UndoCreate(t) ==
  /\ tab[t].pc = "undo"
  /\ vault' = [vault EXCEPT ![tab[t].at] = "none"]
  /\ share' = [share EXCEPT ![tab[t].at] = None]
  /\ object' = [object EXCEPT ![tab[t].at] = [w \in Versions |-> None]]
  /\ Become(t, Done(tab[t]))
  /\ UNCHANGED <<user, keys, orgVault>>

\* The organisation vault is re-keyed when the one who can opens it.
RescueOrgVault(t) ==
  /\ Free(t) /\ SignedIn(t)
  /\ orgVault = "v1" /\ tab[t].legacy = Original
  /\ orgVault' = "v2"
  /\ UNCHANGED <<user, keys, vault, share, object, tab>>

-----------------------------------------------------------------------------
(* Deleting the account.                                                   *)

DeleteAccount(t, p) ==
  /\ Free(t) /\ SignedIn(t)
  /\ user.state = "live" /\ user.version = 2
  /\ Become(t, [tab[t] EXCEPT !.pc = "delete", !.typed = p,
                  !.version = 2, !.salt = user.salt])
  /\ UNCHANGED server

\* DELETE user: the password is checked, the vaults are listed.
CheckDelete(t) ==
  /\ tab[t].pc = "delete"
  /\ Verified(t)
  /\ Become(t, [tab[t] EXCEPT !.pc = "delete_objects", !.todo = Owned, !.done = Owned])
  /\ UNCHANGED server

\* The objects of one vault after the other.
DeleteObjects(t) ==
  /\ tab[t].pc = "delete_objects"
  /\ \E v \in tab[t].todo :
       /\ object' = [object EXCEPT ![v] = [w \in Versions |-> None]]
       /\ Become(t, [tab[t] EXCEPT !.todo = tab[t].todo \ {v}])
  /\ UNCHANGED <<user, keys, vault, share, orgVault>>

\* One batch for the vaults listed.
DeleteRows(t) ==
  /\ tab[t].pc = "delete_objects" /\ tab[t].todo = {}
  /\ vault' = [v \in Vaults |-> IF v \in tab[t].done THEN "none" ELSE vault[v]]
  /\ share' = [v \in Vaults |-> IF v \in tab[t].done THEN None ELSE share[v]]
  /\ Become(t, [tab[t] EXCEPT !.pc = "delete_user"])
  /\ UNCHANGED <<user, keys, object, orgVault>>

\* The account, with its keypair and its shares by cascade.  The session ends.
DeleteUser(t) ==
  /\ tab[t].pc = "delete_user"
  /\ user' = [NoUser EXCEPT !.state = "gone"]
  /\ keys' = None
  /\ share' = [v \in Vaults |-> None]
  /\ Become(t, NewTab)
  /\ UNCHANGED <<vault, object, orgVault>>

-----------------------------------------------------------------------------
(* What goes wrong.                                                        *)

\* A check fails, or a row is gone under the request.
Refused(t) ==
  /\ \/ tab[t].pc = "register_user" /\ ~EmailFree
     \/ tab[t].pc = "register_keys" /\ (user.state # "live" \/ keys # None)
     \/ tab[t].pc \in {"login", "change", "delete"} /\ ~Verified(t)
     \/ tab[t].pc \in {"second", "create_share"} /\ user.state # "live"
     \/ tab[t].pc \in {"stage", "create_share", "create_put"} /\ vault[tab[t].at] = "none"
     \/ /\ tab[t].pc \in {"load", "upgrade_batch"} /\ tab[t].todo = {}
        /\ user.state # "live" \/ ~(tab[t].done \subseteq Owned)
  /\ Become(t, Aborted(tab[t]))
  /\ UNCHANGED server

\* D1, R2 or the network fails a request before its next effect.
Fail(t) ==
  /\ "fail" \in Faults
  /\ ~Free(t) /\ ~(tab[t].pc = "load" /\ tab[t].todo # {})
  /\ Become(t, Aborted(tab[t]))
  /\ UNCHANGED server

\* The tab is closed in the middle of a flow, or the worker's isolate dies.
Crash(t) ==
  /\ "crash" \in Faults
  /\ ~Free(t)
  /\ Become(t, NewTab)
  /\ UNCHANGED server

\* A sign-out, a reload, the inactivity timer.
Reload(t) ==
  /\ Free(t) /\ tab[t] # NewTab
  /\ Become(t, NewTab)
  /\ UNCHANGED server

-----------------------------------------------------------------------------

\* No account yet; or one from before the key hierarchy, with vaults of its own
\* and perhaps one in an organisation.
OldUser == [state |-> "live", version |-> 1, password |-> Original, salt |-> None,
            legacySalt |-> TRUE, pending |-> FALSE]

Init ==
  /\ keys = None
  /\ share = [v \in Vaults |-> None]
  /\ tab = [t \in Tabs |-> NewTab]
  /\ \/ /\ user = NoUser /\ orgVault = "none"
        /\ vault = [v \in Vaults |-> "none"]
        /\ object = [v \in Vaults |-> [w \in Versions |-> None]]
     \/ /\ user = OldUser /\ orgVault \in {"none", "v1"}
        /\ \E old \in SUBSET Vaults :
             /\ vault = [v \in Vaults |-> IF v \in old THEN "v1" ELSE "none"]
             /\ object = [v \in Vaults |-> [w \in Versions |->
                            IF v \in old /\ w = "v1" THEN Legacy ELSE None]]

Next ==
  \E t \in Tabs :
    \/ \E p \in Passwords : Register(t, p) \/ SignIn(t, p) \/ DeleteAccount(t, p)
    \/ RegisterUser(t) \/ RegisterKeys(t)
    \/ Login(t) \/ SecondStep(t) \/ EstablishSession(t)
    \/ StartUpgrade(t) \/ LoadVault(t) \/ Stage(t) \/ AbandonUpgrade(t)
    \/ CheckUpgrade(t) \/ UpgradeBatch(t)
    \/ \E p, q \in Passwords : ChangePassword(t, p, q)
    \/ CheckChange(t) \/ ChangeBatch(t)
    \/ \E v \in Vaults : CreateVault(t, v)
    \/ CreateShare(t) \/ CreatePut(t) \/ UndoCreate(t)
    \/ RescueOrgVault(t)
    \/ CheckDelete(t) \/ DeleteObjects(t) \/ DeleteRows(t) \/ DeleteUser(t)
    \/ Refused(t) \/ Fail(t) \/ Crash(t) \/ Reload(t)

Spec == Init /\ [][Next]_vars

-----------------------------------------------------------------------------
(* Properties.                                                             *)

\* Whoever can sign in can unlock the private key: it is sealed under what the
\* current password and salt derive, and it is the one the public key belongs
\* to, through registrations, upgrades and password changes that overlap, fail
\* or stop anywhere.
KeysOpen ==
  user.state = "live" /\ keys # None =>
    keys.sealed = [pair |-> keys.pub,
                   under |-> [password |-> user.password, salt |-> user.salt]]

\* And can open every vault: before the upgrade with the legacy key, after it
\* with the share, which is wrapped for the account's keypair and holds the key
\* of the object that is served.  No interrupted upgrade leaves the two apart,
\* which is the data loss of issue #70.
VaultsOpen ==
  user.state = "live" =>
    \A v \in Vaults :
      Live(v) # None =>
        IF user.version = 1
        THEN Live(v) = Legacy /\ user.legacySalt /\ user.password = Original
        ELSE keys # None /\ share[v] = [pub |-> keys.pub, key |-> Live(v)]

\* A session works with the account's own keypair, so that what it wraps can be
\* opened after the next sign-in.
TabKeyed ==
  \A t \in Tabs :
    SignedIn(t) /\ user.state = "live" =>
      keys # None /\ tab[t].private = keys.pub /\ tab[t].public = keys.pub

\* A keypair once in place is never replaced while the account lives: shares are
\* wrapped for it.  The comment in handleAuthUpgrade promises that two tabs
\* racing must not clobber it.
KeypairKept ==
  [][keys # None /\ user'.state = "live" => keys' # None /\ keys'.pub = keys.pub]_vars
=============================================================================
