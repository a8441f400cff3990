# Passflares in TLA+

Models of the parts of Passflares in which steps of several actors meet: the
browser client of the password manager (`public/js/`), the Cloudflare worker it
talks to (`src/`), and the three stores behind the worker, D1 (SQL), R2
(objects) and Durable Objects (the rate limiter). TLC checks every module on a
small instance; TLAPS proves theorems about several of them for every instance.

Paths in this file are relative to `src/`, the root of the repository.

## 1. The system

| component | state | operations | hard because |
|---|---|---|---|
| **Vault keys** (`src/vaults.ts`, `public/js/vault-keys.js`, `public/js/org-keys.js`, `public/js/pages/vaults.js`, `pages/orgs.js`) | `vaults.current_key_version`, R2 objects per key version, `vault_key_shares`, the caches of each tab | create, open, save, rescue (re-key a pre-upgrade vault), rotate (after a removal), grant, reconcile, commit, delete | a flow is many requests and a request several awaits; the object, the shares and the version must change together and there is no transaction over R2 and D1; tabs close |
| **Organisations** (`src/organizations.ts`) | `organizations`, `user_organizations`, their vaults and access lists | create, add, remove, change role, delete, gaps, member keys | every check is a SELECT some awaits before the write; no foreign key ties a vault to its organisation; account deletion cascades |
| **Rate limiter** (`src/rateLimiter.ts`) | one record and one alarm per subject | peek, fail, reset, alarm | check and record are two calls; backoff, decay window and alarm interact |
| **Two-factor authentication** (`src/totp.ts`) | `user_totp`, `user_recovery_codes` | enrol, enable, disable, regenerate, second login step | read-then-write over several awaits; recovery codes are single use |
| **Accounts** (`src/auth.ts`, `public/js/auth-flow.js`, `public/js/pages/auth.js`) | `users`, `user_keys`, personal vaults, the keys of a session | register, sign in, upgrade from auth_version 1, change password, delete account | credentials, sealed private key, shares and objects must stay in step through two tabs, lost answers and crashes (issue #70) |
| **Permission middleware** (`src/middleware.ts`) | none | `resolveVaultAccess`, `checkVaultPermission` | a verdict is stale as soon as it is given |
| **Browser session** (`public/js/session.js`, `main.js`, `api.js`, `state.js`) | the token and user in localStorage, shared by the tabs; keys, caches and timer of each tab | boot, sign in, sign out, expire, time out, the 401 answer | tabs replace and remove the session under each other's flows; cached keys outlive their shares |
| **Audit log** (`src/auditLog.ts`, `src/auditLogHandlers.ts`, `pages/settings.js`, the cron trigger in `src/worker.ts`) | `audit_logs`, the activity list | record, sweep, read a page | writes outlive the response; rows come and go between the pages of a list |
| **Preferences** (`src/preferences.ts`, `public/js/prefs.js`) | `user_preferences`, the cache and the pending save of each device | change, save, load | debounced saves; a read-merge-write of the whole row |
| Router, validation, pages, widgets, vendored crypto | none that is shared | | |

How they interact. A tab calls the worker; each handler awaits D1, R2 or a
Durable Object several times, and any other request may run at each await. Tabs
of one browser share the session in localStorage (`Browser`); apart from that
they share nothing but the server, and the other modules take each tab to have a
browser of its own. The
removal of a member (Organisations) starts a rotation in the remover's tab
(Vault keys); an upgrade (Accounts) gives the member the public key that grants
need (Vault keys); the deletion of an account cascades over organisations; every
handler that checks a credential asks the rate limiter before and tells it after.

What makes each part correct:

* *Vault keys*: a vault serves an object until it is deleted; some member can
  open it; entries are never lost to a re-keying; no share outlives its vault; a
  removed member does not hold the key of what is stored now; a grant takes
  nothing away; a member who could be given the key comes to have it.
* *Organisations*: there is always an owner; nobody becomes one from outside;
  memberships and shares refer to what exists; deletion leaves no row and never
  a row without its object.
* *Rate limiter*: a lockout is served in full and ends; concurrent attempts gain
  at most one guess each; failures are forgiven only for a success or for time.
* *Two-factor*: nobody is locked out by a change that was not completed; a
  recovery code works once, and dies only with an error that says so.
* *Accounts*: whoever signs in can unlock the private key and open every vault;
  an interrupted upgrade changes nothing.
* *Browser session*: no flow stores the keys of one account with another,
  whatever other tabs do to the session; a tab left alone locks.
* *Audit log*: a list that has ended leaves nothing out that it could have shown;
  no old row is kept for good.
* *Preferences*: the row ends up with the last choice made for each field.

## 2. The modules

| module | models | composed from |
|---|---|---|
| `VaultKeys` | one organisation's vault: the worker's vault handlers and the client flows that re-key it | |
| `VaultPromise` | the abstract vault: entries, who can read them, nothing else | |
| `VaultRescue` | the refinement mapping from `VaultKeys` to `VaultPromise` | `VaultKeys`, `VaultPromise` |
| `MCVaultKeys` | its instances | `VaultRescue` |
| `VaultKeysProofs` | theorems about it: whatever overlaps; that it keeps the promise when nobody is removed; what removals revoke | `VaultRescue`, TLAPS |
| `Organizations`, `MCOrganizations` | one organisation, its members, vaults and requests | |
| `OrganizationsProofs` | theorems about it | `MCOrganizations`, TLAPS |
| `RateLimiter`, `MCRateLimiter` | the objects of `rateLimiter.ts` and the handlers that consult them | |
| `RateLimiterProofs` | theorems about it | `RateLimiter`, TLAPS |
| `TwoFactor`, `MCTwoFactor` | the second factor of one account | |
| `TwoFactorProofs` | theorems about it | `TwoFactor`, TLAPS |
| `Accounts`, `MCAccounts` | one account: credentials, keypair, personal vaults, tabs | |
| `AccountsProofs` | theorems about it | `Accounts`, TLAPS |
| `Browser`, `MCBrowser` | one browser: several accounts and tabs over one stored session | |
| `BrowserProofs` | theorems about it | `Browser`, TLAPS |
| `AuditLog`, `MCAuditLog` | the log, its sweep and the lists that read it | |
| `AuditLogProofs` | theorems about it | `AuditLog`, TLAPS |
| `Preferences`, `MCPreferences` | the appearance settings of one account on several devices | |
| `PreferencesProofs` | theorems about it | `Preferences`, TLAPS |

Common conventions. An actor's record has a field `pc` naming the await it
stands at; an action is what runs from one await to the next that another actor
can observe. Reads that nothing can come between to any effect are merged with
the step that uses them. `Refused` is every early return with a 4xx, `Fail` an
exception from D1, R2 or the network before the next effect, `Crash` a closed
tab or a dead isolate. Cryptography is perfect: a ciphertext is the key it is
encrypted under, and keys, secrets and code sheets are model values.

### VaultKeys

`row` is the vault's `current_key_version` or why there is no row, `blob` the R2
object of each version (its key, and one bit for whether it holds the entries),
`share` the rows of `vault_key_shares`, `members` and `upgraded` the rows of
`user_organizations` and `user_keys` that matter, `tab` the clients, `held` a
history of the keys each user was ever given. `OpenVault`, `SaveVault`,
`CreateVault`, `DeleteVault`, `AddMember`, `RemoveMember` and `Reconcile` are
what a user starts. They run through `DownloadSelect`/`DownloadGet`
(`handleDownloadVault`), `ShowEntries`/`StartRescue`/`StartRotate`/`StartGrant`/
`CannotDecrypt` (`decryptVaultContents` and its callers), `UploadSelect`/
`UploadPut` (`handleUploadVault`), `ShareCheck`/`ShareBatch`
(`handlePutVaultShares`), `CommitCheck`/`CommitFlip`/`CommitSweep`
(`handleCommitKeyVersion`) and `DeleteBatch`/`DeletePurge`. `Serial` makes the
worker finish one request before it takes the next: flows still interleave
between requests.

Simplifications: one vault, one organisation, the permission level `manage` that
the client always gives; `CreateVault`, `RemoveMember` and `DeleteBatch` merge
the role check with the write; the middleware's check is merged with the
handler's first read; the legacy owner is taken to keep the password
(section 4 says what happens otherwise). A key that nothing refers to may be
generated again and is then forgotten from `held`, which keeps the set of keys
finite without changing who can open what.

### VaultPromise and VaultRescue

What users of a vault know of it: whether there is something in it (`status`),
whether that has the entries the vault had at first (`kept`), and who can read
it. The abstract steps create it, store the first contents, admit readers, let
a member join, delete it; none loses the entries or a reader. `VaultRescue`
maps the state of `VaultKeys` to it: `readers` are the members whose share or
legacy key opens the *live* object. `KeepsPromise` says that staging an object,
wrapping its key, flipping the row and sweeping the old object are, in that
order and stopped anywhere, one of those steps or none. Removing a member takes
readers away, so the refinement is of the flows without removals.

### Organizations

Each user has at most one request in hand and each request goes through the
awaits of its handler: `RoleTarget`, `RoleWrite`; `AddLookup` (two reads merged),
`AddInsert`; `RemoveTarget`, `RemoveList`, `RemoveBatch`; `DeleteList`,
`DeleteBatch`, `DeletePurge` (the objects one by one); `CreateOrganization`,
`SeedOwner`; and, because they write rows that belong to the organisation,
`VaultInsert`, `VaultAcl`, `ShareBatch`, `SavePut`. Foreign keys and their
cascades are modelled where the migrations declare them and nowhere else.
A request keeps what its checks have read, the caller's role (`by`) and that of
the member to be removed (`saw`), to be compared with what is so when it writes.
`InHand` bounds how many requests overlap. `MCOrganizations` adds the history
variable `races`, the number of requests made while another was in hand.

### RateLimiter

Time is relative: how long until the lockout ends, since the last failure, until
the alarm. A handler peeks at its subjects in any order, verifies, and records a
failure with each or clears each (`Promise.all`). `peek`, `fail`, `reset` and
`alarm` are atomic, since a Durable Object holds back other events while storage
is awaited. The volume limit of `/api/auth/params` and `/api/register`'s own
order of calls are not modelled (section 6).

### TwoFactor

One account, any number of sessions, each with one request in hand that carries
the row as it read it. `SheetOf` names a batch of recovery codes; `app` and
`sheet` are what the user's authenticator has scanned and what the user was
shown last; a request that stops leaves both as they are. `warned` says that one
that was to replace or remove the codes has stopped after it had deleted them
(`HalfDone`), or that its answer was lost: the user got an error instead of a
sheet. `proven` and `redeemed` are history.

### Accounts

`user`, `keys`, `vault`, `share` and `object` are the account's rows and objects,
`orgVault` one organisation vault that only this account's legacy key opens,
`tab` its sessions. A password with a salt stands for both values derived from
them, the verifier and the key-encryption key. `StartUpgrade`, `LoadVault`,
`Stage`, `AbandonUpgrade`, `CheckUpgrade`, `UpgradeBatch` are
`upgradeLegacyAccount` and `handleAuthUpgrade`; `ChangePassword`, `CheckChange`,
`ChangeBatch` are `rotateMasterPassword` and `handleUpdateMasterPassword`;
`CheckDelete`, `DeleteObjects`, `DeleteRows`, `DeleteUser` are
`handleDeleteAccount`.

Simplifications: a save to a personal vault writes under the key it already has
and is left out; an upload's check and write are one step; the three reads of
`handleAuthUpgrade` are one, and so are the reads of a download; the
compensating deletion of a half-made vault is one step; organisation
memberships do not change during an upgrade; an address is not registered again
after its account is gone. `RescueOrgVault` is the whole flow that `VaultKeys`
details.

### Browser

`session` is what `session.js` keeps in localStorage, the user and whether the
token still is valid; `accounts`, `cred`, `sealed`, `owner`, `share` are the
rows of the accounts' credentials, private keys and personal vaults; `tab` holds
what is in the memory of each tab: whose private key, the inactivity timer, the
flow under way. `Boot`, `SignIn`/`SignedIn`/`SignInRefused`, `Logout`,
`TimeOut`, `Unauthorized` and `Reload` are the ways in and out;
`StartRekey`/`RekeyBatch`, `StartDelete`/`DeleteRows`/`Deleted`,
`StartCreate`/`VaultInsert`/`PutShare` the flows that read the user, derive a
secret or pick a public key, and send the request with the token of that moment
(`Sends`). The worker compares the user of the token with that of the request and
the secret with the verifier on file (`Verified`), and knows nothing of the keys in
the tab's memory; that a password change opens the sealed copy there first is the
client's doing (`Opens`). Every 401 answer to a request without `suppressAuthRedirect` is
`SignedOut`.

Simplifications: all accounts have been upgraded, and different accounts have
different passwords; a salt stands for the keys that a password and that salt
derive; the first contents of a vault are left out.

### AuditLog

`flying` are the inserts that handlers gave to `waitUntil`, `log` the rows,
`panel` the activity list of each user. An event is of an action that has a label
in `ACTIVITY_LABELS` or of one that has none (`mapped`); of the rows of a page the
list shows those with a label (`Labelled`), and nobody's list shows the events of
nobody, which therefore are all unlabelled in the model. The clock is coarse, so
that stamps coincide; `Late` is how long a registered insert may run on. `Prune`
is the cron trigger, `ReadPage` one `GET /api/users/me/audit-log`. `edges` is
history: the stamps at which a page of the list has ended.

### Preferences

`page` is `prefs.js` on each device: what is shown, what is cached, the patch
that `saveTimer` will send. `Send`, `Read`, `Upsert` are the save's way through
`handleUpdatePreferences`. `wanted` and `lost` are history: the last choice made
for each field, and the fields for which it was given up (replaced while it
waited for the debounce, dropped by a reload, failed), made on two devices at
once, or written while a save was in hand that will undo it (`WillUndo`: one that
has read the row before, or is for the same field). A save is sent whether or not
an earlier one of the device has been answered; `Slots` is how many the worker
has in hand at a time.

## 3. The runs

All bounds are those of the named `.cfg`. States are counted up to symmetry.

| run | instance | checks | shows |
|---|---|---|---|
| `vault_chaos` | 2 users, two tabs of the owner, 2 keys, requests overlap, failures | `TypeOK`, `SharesDieWithVault`, `LiveObjectKept`, `NullOnlyWhenOvertaken` | what holds under any interleaving |
| `vault_rescue` | 3 users, a tab each for two of them, 3 keys, requests one at a time, crashes, no removals | `KeepsPromise`, `SharesOpenLive` | rescue, creation and grants implement the abstract vault wherever they stop |
| `vault_rotate` | 3 users, one tab, 3 keys, no faults, fairness | `Revoked`, `GrantRevokesNobody`, `MembersHeal` | rotation revokes; access heals |
| `vault_rotate_crash` | 2 users, one tab, crashes | `LiveBlobReadable` | **violated**: finding 1 |
| `organisation` | 3 users, 1 vault, two requests in hand, one of them made while the other was (`MaxRaces`), accounts deleted, crashes | `TypeOK`, `MembersExist`, `ComesInBelow`, `RowsGoFirst`, `LastOwnerSafe`, `NothingLeftInTurn`, `OwnersFallInTurn` | what constraints and write order guarantee when requests race, and what holds while they follow one another |
| `rate_limiter` | two handlers, an address and an account | `TypeOK`, `LateAttemptsBounded`, `BackoffTopsOut`, `LockoutServed`, `ForgivenOnlyIdle`, `LockoutEnds` | the limiter under concurrency |
| `two_factor` | 2 sessions, 3 secrets, 2 sheets of 2 codes, crashes | `TypeOK`, `NoLockout`, `SingleUse`, `CodesWork` | one change at a time, sign-ins at any time |
| `accounts` | 2 tabs, 2 passwords, 2 vaults, 4 seeds, crashes and failures | `TypeOK`, `KeysOpen`, `VaultsOpen`, `TabKeyed` | the whole life of an account |
| `account_upgrade_race` | 2 tabs upgrading at once | `KeypairKept` | **violated**: finding 2 |
| `browser` | 2 tabs, 2 accounts, 1 vault, 3 salts | `TypeOK`, `KeysOwn`, `VaultsOpen`, `IdleTabsLock` | tabs that replace each other's session |
| `audit_log` | 1 account and unauthenticated events, 4 events with and without a label, pages of 2, sweeps of 1, 4 instants | `TypeOK`, `ListsAll`, `BacklogDrains` | lists and sweeps among late and equal-stamped rows |
| `preferences` | 2 devices, 2 fields of 2 values, two saves in hand | `TypeOK`, `LastChoiceStored` | which saves undo what another stored, and that no others do |

Why the bounds are enough for the cases they are meant for. A third user is the
member who is neither remover nor removed, or the colleague who still holds the
key; two tabs and two requests in hand give every pairwise race, and the races
known from reading the code are all pairwise. In `organisation` any request may
race with any other once, before and after which requests follow one another in
every order; the theorems of section 5 bound neither the races nor the requests
in hand. With one fewer key than a pair of flows can want at a time, two
re-keyings of `vault_chaos` cannot both be past `Generate`; again the theorems
have no such bound. `vault_chaos` has failures and not crashes since a crash is
a failure and a reload. In `rate_limiter` the exponent clamp (`MaxSteps` = 4)
never binds, since the ceiling of four units does first, as in the code (2^32
times any base is beyond 24 hours); `Decay` = 2 lies between the first lockout
and the ceiling as the decay window does; five failures are the most that two
concurrent handlers run up. Four events are one more than a page and its
neighbour: a full page, an equal stamp across its edge, and a late row below it;
sweeps of one row are sweeps that do not keep up. Two accounts with a salt each
leave one salt for a password change; two of three salts become free again when
tabs forget them.

`audit_log`, `accounts` and `organisation` do not check for deadlock: their
clocks, events, seeds or accounts run out.

Some properties hold only under a restriction, named in the configuration or in
the property, because the code guarantees them for requests in sequence and not
for requests that overlap. Lifting the restriction gives a counterexample in
each case:

* `GrantRevokesNobody` and `Revoked` with two tabs: a reconciliation that loaded
  the key before a rotation upserts the old key over the new share
  (`vaults.ts:512`), against "can never revoke access" (`README.md:370-371`);
  `key-gaps` does not see it, as a share exists. A tab that cached the old key
  saves the vault under it (`pages/vaults.js:511`).
* `KeepsPromise`, `SharesOpenLive` with two tabs of the legacy owner: two rescues
  at once mix one's shares with the other's object.
* `KeepsPromise` with `Serial = FALSE`: a colleague's download reads the row before a
  rescue's commit and the object after its sweep, and a save from the empty view
  loses the entries (`vaults.ts:395-396`). `SharesOpenLive` is not violated in that
  instance.
* `KeepsPromise` with requests that fail while their tab goes on
  (`Faults = {"crash", "fail"}`): a rescue whose commit failed is repeated at the
  next opening, which caches the key of the first attempt from its share
  (`vault-keys.js:76`); if the second commit fails too, an ordinary save puts the
  live object under a key that no share holds (`pages/vaults.js:511`).
* `SharesOfMembers`, `NoVaultOutlivesOrg`, `OwnersFallToOwners` without `InTurn`:
  a share granted between the list and the batch of a removal stays; a vault
  inserted during the deletion of its organisation stays; an admin removes a
  member who was made owner meanwhile (the guide, `organisations-guide.html:160`,
  says an admin cannot), or an owner who has been demoted meanwhile still demotes
  or removes another. `LastOwnerSafe` holds without `InTurn` and names these cases.
* `NoLockout` with two changes of the second factor at a time: the second of two
  confirmations moves the NULL that the first left in `pending_secret_enc` into
  `secret_enc` (`totp.ts:384`), against `totp.ts:310-311`; every later sign-in is
  refused.
* `KeysOpen`, `VaultsOpen`, `TabKeyed` of `Accounts` with two tabs in the legacy
  flow (`LegacyTabs` = 2): finding 2, and a second tab that stages over the
  object the first has just made live.

Other properties hold without such a restriction and name the exception in their
statement, so that they say that there is no other: `NullOnlyWhenOvertaken` (a commit
between the two reads of a download), `LastOwnerSafe` (a request overtaken since its
check), `CodesWork` (a replacement of the codes that is half done), `ListsAll` (the
stamp at which a page ended, and actions without a label), `LastChoiceStored` (a save
in hand that has read the row before or is for the same field). What each exception
means for a user is in section 4.

Fairness. `VaultKeys` assumes that a flow that has begun goes on (`WF` of
`Continue`: the worker answers and the client's `await` resumes) and that members
keep visiting the organisations page (`SF` of `Reconcile`: each visit runs
`reconcileOrgVaultKeys`; strong, because a busy tab disables it now and then).
`RateLimiter` assumes that time passes. `AuditLog` assumes that the cron trigger
goes on firing (`WF` of `Prune`; `wrangler.toml` has it every night), `Browser`
that time passes and that a timer that is due fires (`WF` of `Tick` and
`TimeOut`, which `setTimeout` gives). No other property needs fairness.

## 4. Findings

1. `rotateVaultKey` (`vault-keys.js:208`) names version `v2`, which every vault
   already has, so it overwrites the live object before any share holds the new
   key, against the comment at `vaults.ts:219-220`. A tab closed in between
   makes the vault unreadable for everyone.
2. Two tabs that upgrade the same account both pass the check at
   `auth.ts:426`; the second batch replaces the keypair and the shares but, being
   guarded, not the credentials, against `auth.ts:427-428`. The account's private
   key can never be unlocked again.

Other places where a text and the code differ, met while modelling:

* Two owners who demote or remove each other at the same time both pass their
  checks and leave an organisation without an owner, against the reasoning at
  `organizations.ts:189-191` ("so the count is always >= 2") and
  `organisations-guide.html:100`. So does an admin, never an owner, whose removal of
  a plain member was checked (`organizations.ts:245-253`) before that member was
  promoted and removed the owner: the batch at 285 removes the one owner there is.
  `LastOwnerSafe` says that there is no other way to it than these two (the caller has
  fallen since its check, the member to be removed has risen), but the owner's own
  departure.
* A download reads the row and then the object (`vaults.ts:395-396`). A commit that
  flips the row and sweeps the object in between makes it answer 204 "new/empty", the
  client shows an empty vault, and a save from it overwrites the entries.
  `NullOnlyWhenOvertaken` says that nothing else does this.
* The recovery codes are deleted in one statement and inserted in another
  (`totp.ts:178-180`), and disabling deletes the codes before the row
  (`totp.ts:438-439`). A request that stops in between answers 500, and the user, who
  was never told, has a sheet of codes none of which works and an authenticator that
  still is asked for; a response that is lost after the insert leaves new codes that
  nobody has seen. Another regeneration, which the password and the authenticator
  allow, ends it. `CodesWork` says that there is no other way to dead codes.
* A tab that holds the keys of one account shows the other once another tab has
  signed in to it (`pages/settings.js:23-35` takes the address from the session).
  A password change from it stops at the sealed copy in memory (`auth-flow.js:95`).
  The deletion of the account does not look at it: the password of the account
  that is signed in deletes that account (`pages/settings.js:672-683`), from a tab
  full of the other's vaults. The model has this step (`StartDelete`), and no
  property excludes it.
* Two saves of settings in hand at a time: each reads the row, merges and writes it
  back whole (`preferences.ts:61`), and the later undoes the field of the earlier; a
  device may have two in hand itself, since the second leaves after 350 ms
  (`prefs.js:133-139`). `LastChoiceStored` says which saves are undone.
* The legacy key kept for organisation vaults is derived from the password of the
  current sign-in (`auth-flow.js:164`). After a password change it is not the key
  those vaults are encrypted under, against `README.md:326-327`.
* `README.md:329` says that `encryption_salt` is cleared once the last vault is
  re-keyed, but nothing ever lowers `legacy_vaults_pending`.
* `organisations-guide.html:190` says that deleting an organisation removes its
  entries from the server, but the `.v2` objects stay (`organizations.ts:349`).
* `admin-guide.html:188` says that an organisation outlives its sole owner's
  account, but the creator's deletion cascades to it (`0001_init.sql:33`).
* `user-guide.html:157-163` and the dialog at `pages/settings.js:534` say that a
  password change re-encrypts all vaults.
* `README.md:347-348` gives 24 hours as the longest lockout, which takes
  concurrent attempts to reach (`BackoffTopsOut`).
* `rateLimiter.ts:66` describes the volume limit as 30 per 15 minutes, and line
  32 says that a lockout is never permanent. Every call of `/api/auth/params`
  counts, also one that is refused (`auth.ts:89`), and only an hour without a
  call forgives: calls less than an hour apart add up for ever, and whoever
  retries while locked out doubles the lockout each time, up to 24 hours.
* `vaults.ts:68-70` says that no unopenable vault is left behind, which a crash
  before the access list or the share is written does, and so does another tab
  that signs in between the two: the share is refused, and so is the deletion
  that should make up for it (`Abandon` in `Browser`).
* `auth.ts:210-211` says that a failed key insert must not leave a keyless user
  behind, but an insert that throws does.
* `user-guide.html:92` says that any activity resets the inactivity timer. Each
  tab has its own (`session.js:53`), and an idle tab's timer removes the session
  of the tab in use. Likewise a tab that is opened removes it (`main.js:63`).
* `api.js:41-45` says that a 401 means that the session is invalid; a mistyped
  password answers 401 at sign-in, password change and deletion
  (`auth.ts:310`, `655`, `733`), and a valid session is removed.
* `README.md:375-376`: the session is removed after five minutes, but the
  decrypted entries stay in memory until the alert is dismissed
  (`session.js:48-50`), and the reload that follows removes a session another
  tab has started meanwhile.
* `README.md:21` says that each setting is persisted. Changing a second one
  within 350 ms of the first drops the first (`prefs.js:132`), on the server
  though not on the screen.
* `auditLog.ts:95-97` gives keyset pages as the reason why rows do not shift; the
  key is the timestamp alone, so that events that share the timestamp of the last
  row of a page are never listed (`ListsAll` excepts them). Nor are those whose
  action has no label (`pages/settings.js:83-85`, `137`), by intent; but a first page
  of nothing else says "No account activity recorded yet" (`166-169`).

## 5. What is proved

TLC checks every property below on a small instance; each theorem states it for
every value of the constants. All the invariants and action properties that the
passing runs check have a theorem.

`VaultKeysProofs` has three parts. The first proves, for any users, tabs, keys,
faults and either `Serial`, from `VaultKeysAssumption` alone (the key model values
are distinct, admins are users, every tab is signed in to a user):

* `TypeCorrect`: `Spec => []TypeOK`
* `SharesDie`: `Spec => []SharesDieWithVault`
* `LiveKept`: `Spec => LiveObjectKept`
* `NullIsOvertaken`: `Spec => []NullOnlyWhenOvertaken`

The argument. None of the four is inductive. `LiveObjectKept` fails from a
state in which a tab is about to flip the row to `v2` with no `v2` object stored,
so the invariant must know that this cannot happen: a tab that *owes* the end of
a re-encryption (`Owes`: its object is written, its shares, commit or sweep are
still to come) finds the staged object in place as long as the row exists
(`Fits`). For that to be preserved, nobody may remove a staged object while the
row lives: the sweep never removes `v2`, and a purge runs only after the row is
deleted, which `Fits` also records, with what each kind of write may write to.
`SoleCreator` is needed because two creations in hand would let one take back
the row that the other's shares refer to. `Inv` is the conjunction; `InitInv`
and `NextInv` prove it inductive, action by action, with a lemma per action or
per group of actions that leave the server alone; `LiveStep` derives the action
property from it. `NullInv` adds, for the last, that a row that serves `v1` has its object,
and that one that serves `v2` without an object belongs to a vault whose entries are
nowhere, neither stored nor in a tab (`Hollow`); that does not end, since
entries that are nowhere do not come back (`HollowStays`). A download that finds no
object has then either read of a vault without entries, or a version that the row
does not serve any more.

Its second part proves, for any users, keys and number of tabs, under `Orderly`:

* `SharesOpen`: `Spec => []SharesOpenLive`
* `PromiseKept`: `Spec => KeepsPromise`, the refinement of `VaultPromise`

`Orderly` has four parts, each of which is needed: section 3 says what happens
without it. The worker finishes a request before it takes the next (`Serial`);
nobody is removed; a request that fails takes its tab with it (crashes, which may
come at any await, but no `"fail"`); the creator, who alone holds the legacy key,
works in one tab. The other members may have any number of tabs, and flows
interleave at every request.

The argument. `RescueInv` extends `Inv` above and divides the states by what the
row says. While there is no vault (`NothingYet`) nothing is stored and no tab knows
anything. While the row says `v1` (`OldLive`, with `Staged` for each tab) the
pre-upgrade object is untouched, nobody shows the vault or can wrap a key but the
creator's tab, and a rescue that has come past its write has its object in place
and one that has come past its shares has these. Once the row says `v2`
(`NewLive`) there is one key `k`, or none yet, such that every share, the stored
object and every key that a tab caches, writes with or wraps is `k`, and some
member has a share (`OneKey`, `Agrees`). The flip of the row takes `OldLive` to
`NewLive` with `k` the key that the rescue generated; that is the only step at
which the two meet. What a request in the middle has read is what still is there,
for which there must be no other (`OneRequest`), and the first shares are
wrapped by one creation (`OneCreator`). From it `OldFacts`, `NewFacts` and
`OffFacts` read off who can read what, and `PromiseStep` maps each step: shares
and the flip to an admission of readers, the first object of a new vault to its
being stored, a join to a join, all that is staged or swept to a stutter. Readers do
not go because shares change from none to `k` only. TLC checked `RescueInv` as an
invariant of `vault_rescue` (137,278 states) and of an instance with three tabs
(278,873) before any of it was proved.

Its third part is about removals, for any users and keys, under `Alone`: one tab,
of any user, whose flows are neither broken off nor failed.

* `RemovedAreRevoked`: `Spec => []Revoked`
* `GrantsOnlyAddAlone`: `Spec => GrantRevokesNobody`

`Alone` is the hypothesis of the run `vault_rotate`. A flow broken off between the
removal and the rotation leaves the removed member with the live key, and so does
a second tab that is at work on the vault then (section 3).

The argument. `Revoked` speaks of keys handed out long before. `AloneInv` says
where the keys are at every await of the tab. Before the flip the tab has no key
cached and only the object, then the share, of the key it has generated
(`OldKey`). After it, the live object, the tab's own share and its cache agree,
except while a rotation has written the object and not yet the shares (`NewKey`,
`Replacing`), so that a save, a grant and the next rotation start from the live
key. A rotation can therefore always open what it re-keys: it is never left
undone with a removed member's key in place. A key is generated fresh, and its
recipients are members when it is wrapped, for no removal comes between
(`Carries`, `MembersOnly`). And the tab's user stays a member with a public key,
so that none of these requests is refused (`FailureAlone`). TLC checked
`AloneInv` with a tab of the creator (98,524 states) and of another member
(36,523) before it was proved.

`AccountsProofs` proves, for any tabs, passwords, seeds, vaults and faults, from
`AccountsAssumption` and `NoneAssumption` (`None` is none of the values and records
it stands beside), under `OneLegacyTab`:

* `TypeCorrect`: `Spec => []TypeOK`
* `KeysAlwaysOpen`: `Spec => []KeysOpen`
* `VaultsAlwaysOpen`: `Spec => []VaultsOpen`
* `TabsAlwaysKeyed`: `Spec => []TabKeyed`
* `KeypairStays`: `Spec => KeypairKept`

`OneLegacyTab` says that of the tabs that sign in to an account of version 1 or
upgrade it there is one at a time. Finding 2 is what two of them do, and
`KeypairStays` says that there is no other way to it. Any number of tabs register,
sign in to an upgraded account, change its password, create vaults and delete it,
in any order and broken off anywhere.

The argument. `KeysOpen`, `VaultsOpen` and `TabKeyed` are not inductive, since each
write of a row is made from what a tab has carried through several requests. A
password change seals the private key of the session again, so that a session
must hold that of the account (`Keyed`). The upgrade writes shares of the
objects it has staged, so that every vault of the account that it does not still
have to treat must have its object under the tab's seed, and the password it
wraps with must be the one that let it in (`Upgrading`); no other tab may be in
that flow (`Alone`). A registration inserts the keys of the row it inserted before
(`Registering`), and the vault a tab creates has no object before it has its share
and is no other tab's (`Creating`, `Alone`). Before the upgrade the row and the
objects are as they always were (`OldLive`), after it the sealed key opens with
the row's credentials and every object has a share with its key (`NewLive`).
`ClientStep` covers the steps that leave the rows alone, which need only say what
becomes of the tab, and `Assembled` those that do not. That seeds are fresh plays no
part. TLC checked `AccountInv` on the instance of `accounts` (798,961 states)
before it was proved.

`OrganizationsProofs` proves, for any users, vaults, leavers, faults and number
of requests in hand, without any assumption on the constants for the first five:

* `TypeCorrect`: `Spec => []TypeOK`
* `NoDanglingMembers`: `Spec => []MembersExist`
* `NoOwnerFromOutside`: `Spec => ComesInBelow`
* `ObjectsOutliveRows`: `Spec => RowsGoFirst`
* `LastOwnerStays`: `Spec => LastOwnerSafe`
* `NothingLeft`: `MCSpec => []NothingLeftInTurn`
* `OwnersFall`: `MCSpec => OwnersFallInTurn`

Its invariant adds to the types and `MembersExist` what a request in hand knows
and what stays true while it waits: an addition carries a role below an owner's
and a save a key version (`Fits`; the latter because an access list always is
that of a vault that exists, `AclOK`), and from the moment a deletion comes to
purging, no row points at a bare object (`PurgesDead`): the batch has dropped
every row, and the vaults created afterwards start at `v2`. Nothing in the
argument bounds the requests in hand, so the races that `organisation` explores
once at a time are covered in any number. `RoleWriters` and `ObjectWriters` say
which actions write roles and objects; the first two action properties follow
from them and the invariant. `LastOwnerStays` needs one thing more, `AllChecked`:
what each role change or removal in hand has seen. It is about somebody else than
its caller (what `organizations.ts` refuses at the start), so that a caller who still
is an owner when the write comes remains one; a role change has an owner for its
caller, and a removal has seen that its caller was an owner or its target none
(`OutranksTarget`), so that a write by anyone who is no owner has been overtaken
(`OwnersFallChecked`). An admin may remove members all along and is no owner at any
time, and for that the property needs what was seen of the target, too.

The last two say what holds while requests come one at a time (`races` is 0 and no
account has been deleted), and so that the code is right but for the overlaps
that section 3 and the findings are about. They are theorems about the
specification with the history variable, which `CountingRefines` shows to be an
implementation of `Spec`. `TurnInv` adds to the invariant above that only one
request is in hand (`OneInHand`: a second would have been counted, the users being
finite) and that what it has read is still so (`Knows`): the roles it was checked
with, the vaults it has listed, the organisation it writes to. From that the batch
it comes to leaves nothing behind. The conclusion is claimed only as
long as nothing has raced, hence `InTurnBefore`: a step that ends in such a state
began in one. TLC checked `TurnInv` on `organisation` (395,297 states) first.

`RateLimiterProofs` proves, for any subjects, handlers, policies, decay window and
ceilings, from `RateLimiterAssumption` (the handlers are finite, each has a
subject; thresholds, first lockouts and the ceiling are positive numbers):

* `TypeCorrect`: `Spec => []TypeOK`
* `FewLateAttempts`: `Spec => []LateAttemptsBounded`
* `BackoffStops`: `Spec => []BackoffTopsOut`
* `LockoutsServed`: `Spec => LockoutServed`
* `ForgivenessIsEarned`: `Spec => ForgivenOnlyIdle`

The invariant has a part for each object and one for the handlers. `Fits` relates
what an object has stored to its alarm: the alarm is never due before the lockout
is over, nor before the decay window has passed since the last failure, so that
an alarm forgives nothing too early. `Tops` says that the failures other than the
last and the late ones earn no lockout beyond the decay window: one that is not late
is counted after the lockout, and with the end of a lockout longer than the window
the count is forgiven. `LateOK` is a counting argument:
the requests that can still fail although the subject is locked out are those
that were past their check (`Pending`); each late failure takes one away and
none is added while the lockout lasts, and the failure that began the lockout is
not among them. All of it rests on `LockoutFacts`: a lockout grows with the count
and stops at the ceiling. That in turn needs that powers of two grow, an
induction. The library's induction theorems cannot be used (they take an
operator), but its theorem that a well-founded relation has minimal elements is about sets:
`LeastNumber` and `Induction` follow from it, and with them that the recursive
definition of `PowerOfTwo` has the one solution (`PowerDef`) and what it is
(`PowerFacts`, `PowerGrows`). TLC checked the invariant on `rate_limiter` (104,569
states) first.

`TwoFactorProofs` proves, for any sessions, secrets, sheets and faults, from
`TwoFactorAssumption` (the sessions are finite, `NoSecret` is no secret):

* `TypeCorrect`: `Spec => []TypeOK`
* `CodesOnce`: `Spec => []SingleUse`, with any number of requests at a time
* `SheetWorks`: `Spec => []CodesWork`, likewise
* `NeverLockedOut`: `Spec => []NoLockout`, if `Managing = 1`

The first two rest on `CodeInv`: a code that can be redeemed has not been
(`FreshUnused`), which the guarded update and the order of deletion and insertion
keep. `CodesWork` is inductive as it stands (`WorkNext`), once `warned` remembers which
requests have stopped half-way: the batches that the DELETE takes and the INSERT
brings are whole, and an answer that arrives makes sheet and rows the same again.
The last rests on
`LockInv`: one request changes the second factor (`OneManages`), and one about to
enable the pending secret has seen it proven (`EnablesProven`). `EnablesProven` is
what a second change would break, and section 3 shows that it does; sign-ins run
beside the one change without bound.

`BrowserProofs` proves, for any users, tabs, vaults, salts and timeout, from
`BrowserAssumption` (`Nobody` and `NoSalt` are no user and no salt, the timeout is
positive):

* `TypeCorrect`: `Spec => []TypeOK`
* `KeysStayOwn`: `Spec => []KeysOwn`
* `VaultsStayOpen`: `Spec => []VaultsOpen`

`KeysOwn` is not inductive: that the keys a tab seals again are those of the row
written, whoever's token the tab found, is not for the worker to check. The
client's check does it, and on one condition: `Opens` finds the sealed copy in
memory under the salt on file of the account the session names, salts on file are
one account's each (`Distinct`), and keys in memory whose copy is under a salt on
file are that account's (`Held`); for a re-key under way, they are those of the
account it is for. Nor is `VaultsOpen` inductive: the deletion that makes up for a refused share could take a vault
that has one. `Reserved` adds that the vault a tab is creating has no share and is
no other tab's.

`AuditLogProofs` proves, for any users, kinds of events, page and batch size,
retention and bounds, from `AuditLogAssumption` (an insert runs on for no longer
than the retention period; pages and batches are not empty):

* `TypeCorrect`: `Spec => []TypeOK`
* `ListsComplete`: `Spec => []ListsAll`
* `PagesInOrder`: `Spec => PagesDescend`

The invariant cuts the events that were there when a list was opened at its
cursor: those at or above it are shown, or have no label, or have the timestamp at
which a page ended (`Listed`); those below are still in the log, or expired (`Waits`), since a sweep
takes only what has expired. An empty cursor means that nothing is below. The
cursor a page leaves is the timestamp of its last row, which `ReadPage` takes from
the set `NextBefore`; a page without a last row is no step, and that a full page
has one is not needed.

`PreferencesProofs` proves, for any fields, values, devices and number of saves in
hand, from `PreferencesAssumption` (`Nothing` is no value of the tables):

* `TypeCorrect`: `Spec => []TypeOK`
* `ChoicesStored`: `Spec => []LastChoiceStored`

Its invariant says of each field not given up that its last choice is on its way
from one device at most, or else is in the row (`Carried`); that a save which is the
only one for the field brings that choice, unless its device is about to send another
(`Brings`); and that what any save in hand has read of the field still is in the
row, or a choice for it is to come (`Current`). Of two saves in hand for the
same field the second to be written undoes the first, which `Upsert` has put among
the lost by then.

Only model-checked, and why: `MembersHeal`, `LockoutEnds`, `BacklogDrains` and
`IdleTabsLock`. They are liveness properties under fairness, beyond the provers.
The two runs that expect a violation are counterexamples, which only TLC gives.

## 6. Not modelled

* The volume limit of `/api/auth/params` in `RateLimiter`: a third subject whose
  calls do not peek, next to the two of a sign-in, exceeds what a run explores.
  What reading it shows is in section 4.
* Vault permission levels below `manage`, which the client never gives, and edits
  of a vault beyond the bit that tells whether its first entries are there: any
  two overlapping saves lose one of them.
* Token signatures, validation and hashing: libraries and pure functions.
* The worker's router, headers and CORS: a stateless dispatch.
* Pages, dialogs and widgets beyond the flows they start: rendering.

## 7. Plan

1. Done: `VaultKeys` with `VaultPromise`, `Organizations`, `RateLimiter`,
   `TwoFactor`, `Accounts`, `Browser`, `AuditLog`, `Preferences`.
2. Done, proofs: `VaultKeysProofs`, `AccountsProofs`, `OrganizationsProofs`,
   `RateLimiterProofs`, `TwoFactorProofs`, `BrowserProofs`, `AuditLogProofs`,
   `PreferencesProofs`.
3. Next, proofs: weaker hypotheses for `PromiseKept` (more than one tab of the
   creator once the row says `v2`) and for `Revoked` (flows other than a rotation
   that are broken off), if TLC finds that they suffice.
