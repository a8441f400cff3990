------------------------------ MODULE Browser ------------------------------
(***************************************************************************)
(* One browser: tabs that share what session.js keeps in localStorage, the *)
(* token and the user it names, while the keys of a session stay in the    *)
(* memory of its tab.  Any tab that starts, signs in, signs out, idles or  *)
(* is answered 401 replaces or removes what all of them share, and every   *)
(* authenticated request carries whatever token is there when it is sent.  *)
(*                                                                         *)
(* A salt stands for the keys and the verifier that an account's password  *)
(* and that salt derive; different accounts have different passwords.  All *)
(* accounts have been upgraded to auth_version 2.                          *)
(***************************************************************************)
EXTENDS Integers, FiniteSets

CONSTANTS
  Users,   \* accounts
  Nobody,
  Tabs,
  Vaults,  \* ids of personal vaults
  Salts,   \* Argon2id salts
  NoSalt,
  Limit    \* SESSION_TIMEOUT_MINUTES, in units of the clock

ASSUME BrowserAssumption ==
  /\ Nobody \notin Users
  /\ NoSalt \notin Salts
  /\ Limit \in Nat \ {0}

VARIABLES
  accounts,  \* users: the accounts that exist
  cred,      \* users.kdf_salt, and the verifier that goes with it
  sealed,    \* user_keys.private_key_enc: whose private key, and under what
  owner,     \* vaults.owner_id
  share,     \* vault_key_shares: the recipient, and whose public key was used
  session,   \* localStorage: whose token, and whether it is still valid
  tab

server == <<accounts, cred, sealed, owner, share>>
vars == <<server, session, tab>>

Off == -1  \* a timer that is not running

Sealed == [of: Users, under: Salts]
Share == [to: Users \union {Nobody}, key: Users \union {Nobody}]
NoShare == [to |-> Nobody, key |-> Nobody]

Session == [who: Users \union {Nobody}, ok: BOOLEAN]
NoSession == [who |-> Nobody, ok |-> FALSE]

Tab == [pc: {"booting", "auth", "signing", "app", "alert"},
        who: Users \union {Nobody},     \* whose private key is in memory
        under: Salts \union {NoSalt},   \* what its sealed copy is sealed under
        timer: 0..Limit \union {Off},   \* since the last activity
        op: {"none", "rekey", "delete", "deleted", "vault", "share"},
        for: Users \union {Nobody},     \* the userInfo the flow began with
        salt: Salts \union {NoSalt},    \* the salt its secret is derived from
        on: SUBSET Vaults]              \* the vault it creates

Blank == [pc |-> "booting", who |-> Nobody, under |-> NoSalt, timer |-> Off,
          op |-> "none", for |-> Nobody, salt |-> NoSalt, on |-> {}]

\* The types of the stores and of the tabs; and the tabs that show the app are
\* those that hold keys, and those whose timer runs.
TypeOK ==
  /\ accounts \subseteq Users
  /\ cred \in [Users -> Salts]
  /\ sealed \in [Users -> Sealed]
  /\ owner \in [Vaults -> Users \union {Nobody}]
  /\ share \in [Vaults -> Share]
  /\ session \in Session
  /\ tab \in [Tabs -> Tab]
  /\ \A t \in Tabs :
       /\ tab[t].pc = "app" <=> tab[t].who # Nobody
       /\ tab[t].pc = "app" <=> tab[t].timer # Off

-----------------------------------------------------------------------------
(* Helpers.                                                                *)

Become(t, r) == tab' = [tab EXCEPT ![t] = r]
Load(t, pc) == Become(t, [Blank EXCEPT !.pc = pc])
EndFlow(t) == Become(t, [tab[t] EXCEPT !.op = "none", !.for = Nobody,
                                       !.salt = NoSalt, !.on = {}])

\* The app is shown and no flow is under way.
Ready(t) == tab[t].pc = "app" /\ tab[t].op = "none"

\* A flow's next request leaves with a valid token of the user the flow is about:
\* the worker refuses one that names another user, or a vault of another user.
Sends(t, op) ==
  /\ tab[t].pc = "app" /\ tab[t].op = op
  /\ session = [who |-> tab[t].for, ok |-> TRUE]

\* clearSession, an alert, and a reload once the alert is dismissed.
SignedOut(t) == session' = NoSession /\ Load(t, "alert")

\* Which of the unused salts is fresh is of no consequence.
FreshSalts == Salts \ ({cred[u] : u \in Users} \union {sealed[u].under : u \in Users}
                       \union UNION {{tab[t].under, tab[t].salt} : t \in Tabs})
Fresh == CHOOSE s \in FreshSalts : TRUE

-----------------------------------------------------------------------------
(* Loading the page.                                                       *)

\* The user reloads the page, dismisses the alert that reloads it, or closes the
\* tab and opens another in its place.
Reload(t) ==
  /\ tab[t].pc # "booting"
  /\ Load(t, "booting")
  /\ UNCHANGED <<server, session>>

\* boot fetches the preferences if there is a token, and then, having no private
\* key, shows the sign-in form, which removes the token.
Boot(t) ==
  /\ tab[t].pc = "booting"
  /\ \/ session.who # Nobody /\ ~session.ok /\ SignedOut(t)
     \/ session' = NoSession /\ Load(t, "auth")
  /\ UNCHANGED server

-----------------------------------------------------------------------------
(* Signing in and out.                                                     *)

\* The salt on file is fetched, and the password derived under it.
SignIn(t, u) ==
  /\ tab[t].pc = "auth"
  /\ Become(t, [tab[t] EXCEPT !.pc = "signing", !.for = u, !.salt = cred[u]])
  /\ UNCHANGED <<server, session>>

\* What a new session starts its timer at.  Mutant: the old timer is stopped and
\* no new one started.
TimerStopped == Off
TimerStarted == 0

\* The private key is unsealed, the token stored and the app shown.
SignedIn(t) ==
  LET u == tab[t].for IN
  /\ tab[t].pc = "signing"
  /\ u \in accounts /\ cred[u] = tab[t].salt /\ sealed[u].under = tab[t].salt
  /\ session' = [who |-> u, ok |-> TRUE]
  /\ Become(t, [Blank EXCEPT !.pc = "app", !.who = sealed[u].of,
                             !.under = sealed[u].under, !.timer = TimerStarted])
  /\ UNCHANGED server

\* A wrong password is a 401, and apiCall takes it for the end of the session.
SignInRefused(t) ==
  /\ tab[t].pc = "signing"
  /\ SignedOut(t)
  /\ UNCHANGED server

Logout(t) ==
  /\ Ready(t)
  /\ session' = NoSession
  /\ Load(t, "booting")
  /\ UNCHANGED server

\* The token outlives its hour.
Expire ==
  /\ session.ok
  /\ session' = [session EXCEPT !.ok = FALSE]
  /\ UNCHANGED <<server, tab>>

\* Any request with a token that is not valid.
Unauthorized(t) ==
  /\ tab[t].pc = "app"
  /\ session.who # Nobody /\ ~session.ok
  /\ SignedOut(t)
  /\ UNCHANGED server

-----------------------------------------------------------------------------
(* The inactivity timer of each tab.                                       *)

Use(t) ==
  /\ tab[t].timer # Off
  /\ Become(t, [tab[t] EXCEPT !.timer = 0])
  /\ UNCHANGED <<server, session>>

\* A timer that is due fires before time goes on.
Tick ==
  /\ \E t \in Tabs : tab[t].timer # Off
  /\ \A t \in Tabs : tab[t].timer # Limit
  /\ tab' = [t \in Tabs |-> IF tab[t].timer = Off THEN tab[t]
                            ELSE [tab[t] EXCEPT !.timer = tab[t].timer + 1]]
  /\ UNCHANGED <<server, session>>

TimeOut(t) ==
  /\ tab[t].timer = Limit
  /\ SignedOut(t)
  /\ UNCHANGED server

-----------------------------------------------------------------------------
(* The flows that change an account.                                       *)

\* The worker's check of the secret, which the tab derived from a password typed
\* into it: whose keys the tab holds makes no difference.
Verified(t) == cred[tab[t].for] = tab[t].salt

\* rotateMasterPassword opens the sealed copy in memory with the key derived under
\* the salt on file, or stops.  Mutant: it takes the keys it has.
AnyKeys(t) == TRUE
Opens(t) == tab[t].under = cred[session.who]

StartRekey(t) ==
  /\ Ready(t) /\ session.who # Nobody
  /\ Opens(t)
  /\ Become(t, [tab[t] EXCEPT !.op = "rekey", !.for = session.who,
                              !.salt = cred[session.who]])
  /\ UNCHANGED <<server, session>>

\* What replaces the sealed private key.  Mutant: nothing.
NotResealed(t, s) == sealed[tab[t].for]
Resealed(t, s) == [of |-> tab[t].who, under |-> s]

\* One batch.  The answer may be lost.
RekeyBatch(t) ==
  /\ Sends(t, "rekey") /\ tab[t].for \in accounts /\ Verified(t)
  /\ FreshSalts # {}
  /\ cred' = [cred EXCEPT ![tab[t].for] = Fresh]
  /\ sealed' = [sealed EXCEPT ![tab[t].for] = Resealed(t, Fresh)]
  /\ \E under \in {Fresh, tab[t].under} :
       Become(t, [tab[t] EXCEPT !.op = "none", !.for = Nobody, !.salt = NoSalt,
                                !.under = under])
  /\ UNCHANGED <<accounts, owner, share, session>>

\* The account to delete is the one that is signed in when the dialog is confirmed,
\* also in a tab that still holds the keys of another.
StartDelete(t) ==
  /\ Ready(t) /\ session.who # Nobody
  /\ Become(t, [tab[t] EXCEPT !.op = "delete", !.for = session.who,
                              !.salt = cred[session.who]])
  /\ UNCHANGED <<server, session>>

DeleteRows(t) ==
  /\ Sends(t, "delete") /\ tab[t].for \in accounts /\ Verified(t)
  /\ accounts' = accounts \ {tab[t].for}
  /\ share' = [v \in Vaults |-> IF owner[v] = tab[t].for THEN NoShare ELSE share[v]]
  /\ owner' = [v \in Vaults |-> IF owner[v] = tab[t].for THEN Nobody ELSE owner[v]]
  /\ Become(t, [tab[t] EXCEPT !.op = "deleted"])
  /\ UNCHANGED <<cred, sealed, session>>

\* The answer: whatever session there is by then goes.
Deleted(t) ==
  /\ tab[t].op = "deleted"
  /\ session' = NoSession
  /\ Load(t, "booting")
  /\ UNCHANGED server

\* A wrong password, or one derived under a salt that is no longer on file: a 401,
\* and the session is removed although it is valid.
PasswordRefused(t) ==
  /\ \/ Sends(t, "delete")
     \/ Sends(t, "rekey") /\ ~Verified(t)
  /\ SignedOut(t)
  /\ UNCHANGED server

-----------------------------------------------------------------------------
(* Creating a personal vault: the row, then its creator's share.           *)

\* An id that nothing refers to stands for a fresh one.
StartCreate(t, v) ==
  /\ Ready(t) /\ session.who # Nobody
  /\ owner[v] = Nobody /\ \A s \in Tabs : v \notin tab[s].on
  /\ Become(t, [tab[t] EXCEPT !.op = "vault", !.for = session.who, !.on = {v}])
  /\ UNCHANGED <<server, session>>

OwnerBecomes(t, u) ==
  owner' = [v \in Vaults |-> IF v \in tab[t].on THEN u ELSE owner[v]]

VaultInsert(t) ==
  /\ Sends(t, "vault")
  /\ OwnerBecomes(t, tab[t].for)
  /\ Become(t, [tab[t] EXCEPT !.op = "share"])
  /\ UNCHANGED <<accounts, cred, sealed, share, session>>

\* The public key the vault's key is wrapped for: that of the stored user, not of
\* the keys in memory.  Mutant: that of the keys in memory.
KeyInMemory(t) == tab[t].who
PublicKey(t) == tab[t].for

PutShare(t) ==
  /\ Sends(t, "share")
  /\ \A v \in tab[t].on : owner[v] = tab[t].for
  /\ tab[t].for \in accounts
  /\ share' = [v \in Vaults |-> IF v \in tab[t].on
                                THEN [to |-> tab[t].for, key |-> PublicKey(t)]
                                ELSE share[v]]
  /\ EndFlow(t)
  /\ UNCHANGED <<accounts, cred, sealed, owner, session>>

\* A request that is refused, lost, or not sent for want of a token ends the flow.
\* A vault without its share is deleted again if that request gets through.
Abandon(t) ==
  /\ tab[t].pc = "app" /\ tab[t].op \in {"rekey", "delete", "vault", "share"}
  /\ \/ Sends(t, "share") /\ OwnerBecomes(t, Nobody)
     \/ UNCHANGED owner
  /\ EndFlow(t)
  /\ UNCHANGED <<accounts, cred, sealed, share, session>>

-----------------------------------------------------------------------------

Init ==
  /\ accounts = Users
  /\ cred \in [Users -> Salts]
  /\ \A u, w \in Users : u # w => cred[u] # cred[w]
  /\ sealed = [u \in Users |-> [of |-> u, under |-> cred[u]]]
  /\ owner = [v \in Vaults |-> Nobody]
  /\ share = [v \in Vaults |-> NoShare]
  /\ session = NoSession
  /\ tab = [t \in Tabs |-> Blank]

Next ==
  \/ Expire \/ Tick
  \/ \E t \in Tabs :
       \/ Reload(t) \/ Boot(t)
       \/ \E u \in Users : SignIn(t, u)
       \/ SignedIn(t) \/ SignInRefused(t) \/ Logout(t) \/ Unauthorized(t)
       \/ Use(t) \/ TimeOut(t)
       \/ StartRekey(t) \/ RekeyBatch(t)
       \/ StartDelete(t) \/ DeleteRows(t) \/ Deleted(t) \/ PasswordRefused(t)
       \/ \E v \in Vaults : StartCreate(t, v)
       \/ VaultInsert(t) \/ PutShare(t) \/ Abandon(t)

Spec == Init /\ [][Next]_vars

\* Clocks run, and a timer that is due fires.
FairSpec == Spec /\ WF_vars(Tick) /\ \A t \in Tabs : WF_vars(TimeOut(t))

-----------------------------------------------------------------------------
(* Properties.                                                             *)

\* Whatever tabs of two accounts do to the session they share, what is stored as
\* an account's private key is its own, under the credentials on file.
KeysOwn ==
  \A u \in accounts : sealed[u] = [of |-> u, under |-> cred[u]]

\* The share of a personal vault is its owner's, wrapped for the owner's key, also
\* when another tab changes the session between the row and the share.
VaultsOpen ==
  \A v \in Vaults : share[v] # NoShare =>
    /\ owner[v] \in accounts
    /\ share[v] = [to |-> owner[v], key |-> owner[v]]

\* A tab that is left alone does not stay unlocked, whatever other tabs do to the
\* session: unless it is used again and again, it comes to stand at the alert or
\* the sign-in form (README.md:375-376).
IdleTabsLock ==
  \A t \in Tabs : []<>(tab[t].pc # "app") \/ []<><<Use(t)>>_vars
=============================================================================
