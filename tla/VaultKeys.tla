----------------------------- MODULE VaultKeys -----------------------------
(***************************************************************************)
(* The key of one organisation vault: the row in D1 that says which key    *)
(* version is live, the R2 object of each version, the key shares wrapped  *)
(* for the members, and the browser tabs that re-key, share and save it.   *)
(*                                                                         *)
(* A tab works through a client flow (open, rescue, rotate, grant, save,   *)
(* create, delete) one request at a time; a request to the worker is one   *)
(* step per await that another request can overtake.  tab[t].pc names the  *)
(* await the tab stands at and tab[t].goal the flow it belongs to.         *)
(*                                                                         *)
(* A vault key is a member of Keys.  AES-GCM and ECIES are perfect: a blob *)
(* opens under the key it was written with and no other, and a share gives *)
(* its holder exactly the key that was wrapped.  The contents of a blob    *)
(* are one bit, full: whether it still holds the entries the vault had     *)
(* when the model starts.                                                  *)
(***************************************************************************)

CONSTANTS
  Users,        \* accounts
  Admins,       \* those who may add and remove members and create vaults
  Removers,     \* the admins who do remove members
  LegacyOwner,  \* creator of the vault, the one holder of its pre-upgrade key
  Tabs,         \* browser tabs, each a client session
  UserOf,       \* the account a tab is signed in to
  Keys,         \* vault keys
  Legacy,       \* the pre-upgrade key, derived from LegacyOwner's password
  NoKey,        \* no key: an absent share, an empty cache, an absent object
  Faults,       \* what may go wrong at an await: "crash", "fail"
  Serial        \* TRUE: the worker finishes a request before it takes another

ASSUME VaultKeysAssumption ==
  /\ Admins \subseteq Users
  /\ Removers \subseteq Admins
  /\ LegacyOwner \in Users
  /\ UserOf \in [Tabs -> Users]
  /\ Legacy \notin Keys /\ NoKey \notin Keys /\ Legacy # NoKey
  /\ Faults \subseteq {"crash", "fail"}
  /\ Serial \in BOOLEAN

VARIABLES
  row,       \* the vaults row: its current_key_version, or why there is none
  blob,      \* R2: the object stored for each key version
  share,     \* vault_key_shares: the key wrapped for each user
  members,   \* user_organizations: who the vault's organisation admits
  upgraded,  \* user_keys: who has a public key to wrap for
  tab,       \* the browser tabs
  held       \* history: the keys each user has ever been given a share of

server == <<row, blob, share, members, upgraded, held>>
vars == <<row, blob, share, members, upgraded, tab, held>>

Versions == {"v1", "v2"}

Blob == [key: Keys \union {Legacy, NoKey}, full: BOOLEAN]
NoBlob == [key |-> NoKey, full |-> FALSE]

Goals == {"none", "open", "rescue", "rotate", "grant", "save", "create", "delete"}

\* The awaits inside a request, after its checks and before its effect.
MidRequest == {"acl", "get", "put", "share_batch", "flip", "sweep", "purge"}

PCs == MidRequest \union
       {"idle", "lookup", "members", "select", "share", "put_select",
        "share_check", "commit", "delete"}

Tab == [pc: PCs, goal: Goals,
        cached: Keys \union {NoKey},          \* state.vaultKeys
        view: {"none", "empty", "full"},      \* state.decryptedVaults
        fresh: Keys \union {NoKey},           \* the key this flow writes or wraps
        got: Blob,                            \* the entries this flow has in hand
        list: SUBSET Users,                   \* members still to wrap for
        to: SUBSET Users,                     \* recipients of the share request
        ver: Versions \union {"none"}]        \* version the handler has read

NewTab == [pc |-> "idle", goal |-> "none", cached |-> NoKey, view |-> "none",
           fresh |-> NoKey, got |-> NoBlob, list |-> {}, to |-> {}, ver |-> "none"]

\* The types of the tables, the objects and the clients.
TypeOK ==
  /\ row \in Versions \union {"absent", "bare", "deleted"}
  /\ blob \in [Versions -> Blob]
  /\ share \in [Users -> Keys \union {NoKey}]
  /\ members \subseteq Users
  /\ upgraded \subseteq Users
  /\ tab \in [Tabs -> Tab]
  /\ held \in [Users -> SUBSET Keys]

-----------------------------------------------------------------------------
(* Helpers.                                                                *)

\* The object a download serves: what versionedObjectKey(row) points at.
Live == IF row \in Versions THEN blob[row] ELSE NoBlob

\* checkVaultPermission: the vault row exists, and its access list names the
\* organisation the user is a member of.  The client creates every vault with
\* 'manage', so every member may read, write and manage.
Entitled(u) == row \in Versions /\ u \in members

\* A tab starts a request: under Serial, only when the worker has none in hand.
Turn(t) == Serial => \A o \in Tabs \ {t} : tab[o].pc \notin MidRequest

SignedIn(t) == UserOf[t] \in upgraded

\* A vault key generated now is none of those anything still refers to.  A name
\* that nothing refers to is used again, and forgotten from the history.
KeysInUse == {blob[v].key : v \in Versions} \union {share[u] : u \in Users}
             \union UNION {{tab[t].cached, tab[t].fresh, tab[t].got.key} : t \in Tabs}

\* Mutant: a generator that may return a key in use.
GenerateAny(k) == UNCHANGED held
Generate(k) ==
  /\ k \in Keys \ KeysInUse
  /\ held' = [u \in Users |-> held[u] \ {k}]

\* The members a key can be wrapped for.
Keyed == members \intersect upgraded

\* The key-gap query: those of them who hold no share.  Mutant: the anti-join
\* without its condition on the user.
MissingOfVault == {u \in Keyed : \A o \in Users : share[o] = NoKey}
Missing == {u \in Keyed : share[u] = NoKey}

Become(t, r) == tab' = [tab EXCEPT ![t] = r]

\* What a flow leaves behind: the caches, and nothing of the request.
Done(r) == [r EXCEPT !.pc = "idle", !.goal = "none", !.fresh = NoKey,
                     !.got = NoBlob, !.list = {}, !.to = {}, !.ver = "none"]

Entries(b) == IF b.full THEN "full" ELSE "empty"

\* A request that fails.  A rescue still shows the entries it had decrypted, a
\* half-made vault is deleted, a grant goes on to the next member, and any
\* other flow is reported and dropped.
Aborted(r) ==
  CASE r.goal = "rescue" -> Done([r EXCEPT !.view = Entries(r.got)])
    [] r.goal = "create" /\ r.pc # "acl" ->
         [Done(r) EXCEPT !.pc = "delete", !.goal = "delete"]
    [] r.goal = "grant" /\ r.pc \in {"share_check", "share_batch"} /\ r.list # {} ->
         [r EXCEPT !.pc = "share_check", !.to = {}]
    [] OTHER -> Done(r)

-----------------------------------------------------------------------------
(* What a user of the app starts.                                          *)

OpenVault(t) ==
  /\ tab[t].pc = "idle" /\ SignedIn(t)
  /\ tab[t].view = "none"
  /\ Become(t, [tab[t] EXCEPT !.pc = "select", !.goal = "open"])
  /\ UNCHANGED server

\* Needs a vault key and an opened vault.  An ordinary save names no version.
SaveVault(t) ==
  /\ tab[t].pc = "idle" /\ SignedIn(t)
  /\ tab[t].cached # NoKey /\ tab[t].view # "none"
  /\ Become(t, [tab[t] EXCEPT !.pc = "put_select", !.goal = "save",
                  !.fresh = tab[t].cached,
                  !.got = [key |-> tab[t].cached, full |-> tab[t].view = "full"]])
  /\ UNCHANGED server

CreateVault(t) ==
  /\ tab[t].pc = "idle" /\ SignedIn(t) /\ Turn(t)
  /\ row = "absent"
  /\ UserOf[t] \in Admins \intersect members
  /\ row' = "bare"
  /\ Become(t, [tab[t] EXCEPT !.pc = "acl", !.goal = "create"])
  /\ UNCHANGED <<blob, share, members, upgraded, held>>

DeleteVault(t) ==
  /\ tab[t].pc = "idle" /\ SignedIn(t)
  /\ Entitled(UserOf[t])
  /\ Become(t, [tab[t] EXCEPT !.pc = "delete", !.goal = "delete"])
  /\ UNCHANGED server

\* The row of user_organizations is inserted; the tab then looks up the new
\* member's public key.
AddMember(t, u) ==
  /\ tab[t].pc = "idle" /\ SignedIn(t) /\ Turn(t)
  /\ UserOf[t] \in Admins \intersect members
  /\ u \notin members
  /\ members' = members \union {u}
  /\ Become(t, [tab[t] EXCEPT !.pc = "lookup", !.goal = "grant", !.list = {u}])
  /\ UNCHANGED <<row, blob, share, upgraded, held>>

\* One batch drops the membership and the share; the tab then rotates the key
\* of every vault the response names.
RemoveMember(t, u) ==
  /\ tab[t].pc = "idle" /\ SignedIn(t) /\ Turn(t)
  /\ UserOf[t] \in Removers \intersect members
  /\ u \in members \ {UserOf[t]}
  /\ members' = members \ {u}
  /\ IF row \in Versions
     THEN /\ share' = [share EXCEPT ![u] = NoKey]
          /\ Become(t, [tab[t] EXCEPT !.pc = "members", !.goal = "rotate"])
     ELSE UNCHANGED <<share, tab>>
  /\ UNCHANGED <<row, blob, upgraded, held>>

\* Visiting the organisations page: the members who could hold a share of this
\* vault's key and do not.
Reconcile(t) ==
  /\ tab[t].pc = "idle" /\ SignedIn(t)
  /\ Entitled(UserOf[t])
  /\ Missing # {}
  /\ Become(t, [tab[t] EXCEPT !.pc = "select", !.goal = "grant", !.list = Missing])
  /\ UNCHANGED server

\* Signing in for the first time since the key hierarchy writes a keypair.
Upgrade(u) ==
  /\ u \notin upgraded
  /\ upgraded' = upgraded \union {u}
  /\ UNCHANGED <<row, blob, share, members, tab, held>>

-----------------------------------------------------------------------------
(* The requests a flow is made of.                                         *)

\* The access list of a new vault.  When the insert reports no success the row
\* is taken back.
CreateAcl(t) ==
  /\ tab[t].pc = "acl"
  /\ \/ /\ row' = "v2"
        /\ Become(t, [tab[t] EXCEPT !.pc = "members"])
     \/ /\ "fail" \in Faults
        /\ row' = "deleted"
        /\ Become(t, Aborted(tab[t]))
  /\ UNCHANGED <<blob, share, members, upgraded, held>>

\* Nothing can be wrapped for a member without a public key.
LookupMember(t) ==
  /\ tab[t].pc = "lookup"
  /\ Become(t, IF tab[t].list \subseteq upgraded
               THEN [tab[t] EXCEPT !.pc = "select"] ELSE Done(tab[t]))
  /\ UNCHANGED server

\* GET member-keys: the members a key can be wrapped for.  A created vault gets
\* its key here; a rotation goes on to decrypt the contents.
ListMembers(t) ==
  /\ tab[t].pc = "members" /\ Turn(t)
  /\ UserOf[t] \in members
  /\ \/ /\ tab[t].goal = "create"
        /\ \E k \in Keys :
             /\ Generate(k)
             /\ Become(t, [tab[t] EXCEPT !.pc = "share_check", !.fresh = k,
                             !.list = Keyed \union {UserOf[t]}])
     \/ /\ tab[t].goal = "rescue"
        /\ Become(t, [tab[t] EXCEPT !.pc = "share_check", !.list = Keyed])
        /\ UNCHANGED held
     \/ /\ tab[t].goal = "rotate"
        /\ Become(t, [tab[t] EXCEPT !.pc = "select", !.list = Keyed])
        /\ UNCHANGED held
  /\ UNCHANGED <<row, blob, share, members, upgraded>>

\* The version a download serves.  Mutant: always the newest.
NewestVersion == "v2"
ServedVersion == row

\* GET data reads the row, then the object of the version it read.
DownloadSelect(t) ==
  /\ tab[t].pc = "select" /\ Turn(t)
  /\ Entitled(UserOf[t])
  /\ Become(t, [tab[t] EXCEPT !.pc = "get", !.ver = ServedVersion])
  /\ UNCHANGED server

DownloadGet(t) ==
  /\ tab[t].pc = "get"
  /\ Become(t, [tab[t] EXCEPT !.pc = "share", !.got = blob[tab[t].ver]])
  /\ UNCHANGED server

\* loadVaultKey: the cached key, or the caller's share.
KeyFor(t) == IF tab[t].cached # NoKey THEN tab[t].cached ELSE share[UserOf[t]]
ShareAllowed(t) == tab[t].cached # NoKey \/ Entitled(UserOf[t])

HasLegacyKey(t) == UserOf[t] = LegacyOwner

\* decryptVaultContents: nothing stored, opened with the vault key, opened with
\* the legacy key.  Mutant: contents the vault key does not open taken for none.
UnreadableIsEmpty(t) ==
  \/ tab[t].got.key = NoKey
  \/ KeyFor(t) # NoKey /\ tab[t].got.key # KeyFor(t)
OpensEmpty(t) == tab[t].got.key = NoKey
OpensWithKey(t) == tab[t].got.key # NoKey /\ tab[t].got.key = KeyFor(t)
OpensWithLegacy(t) == tab[t].got.key = Legacy /\ HasLegacyKey(t)

Decrypted(t) ==
  /\ tab[t].pc = "share" /\ Turn(t)
  /\ ShareAllowed(t)
  /\ OpensEmpty(t) \/ OpensWithKey(t) \/ OpensWithLegacy(t)

\* The page shows the entries.
ShowEntries(t) ==
  /\ Decrypted(t)
  /\ tab[t].goal = "open" /\ ~OpensWithLegacy(t)
  /\ Become(t, Done([tab[t] EXCEPT !.cached = KeyFor(t),
                       !.view = IF OpensEmpty(t) THEN "empty" ELSE Entries(tab[t].got)]))
  /\ UNCHANGED server

\* An organisation vault that opened with the legacy key is re-keyed at once.
StartRescue(t) ==
  /\ Decrypted(t)
  /\ tab[t].goal = "open" /\ OpensWithLegacy(t)
  /\ \E k \in Keys :
       /\ Generate(k)
       /\ Become(t, [tab[t] EXCEPT !.pc = "put_select", !.goal = "rescue",
                       !.cached = KeyFor(t), !.fresh = k])
  /\ UNCHANGED <<row, blob, share, members, upgraded>>

\* After a removal: a new key for the contents just decrypted.
StartRotate(t) ==
  /\ Decrypted(t)
  /\ tab[t].goal = "rotate"
  /\ \E k \in Keys :
       /\ Generate(k)
       /\ Become(t, [tab[t] EXCEPT !.pc = "put_select", !.cached = KeyFor(t),
                       !.fresh = k])
  /\ UNCHANGED <<row, blob, share, members, upgraded>>

\* The key the caller holds is wrapped for the members on the list.  Without a
\* key the vault is reported as unreachable.
StartGrant(t) ==
  /\ Decrypted(t)
  /\ tab[t].goal = "grant"
  /\ Become(t, IF KeyFor(t) = NoKey THEN Done(tab[t])
               ELSE [tab[t] EXCEPT !.pc = "share_check", !.cached = KeyFor(t),
                       !.fresh = KeyFor(t), !.got = NoBlob])
  /\ UNCHANGED server

\* No key opens the blob: a stale key is forgotten with the entries it opened.
CannotDecrypt(t) ==
  /\ tab[t].pc = "share" /\ Turn(t)
  /\ ShareAllowed(t)
  /\ ~(OpensEmpty(t) \/ OpensWithKey(t) \/ OpensWithLegacy(t))
  /\ Become(t, Done(IF KeyFor(t) = NoKey THEN tab[t]
                    ELSE [tab[t] EXCEPT !.cached = NoKey, !.view = "none"]))
  /\ UNCHANGED server

\* The version a write names, or the row's.
TargetVersion(t) == IF tab[t].goal = "save" THEN row ELSE "v2"

\* PUT data resolves the version to write, then writes that object.  Mutant: a
\* vault that is not found is not refused.
UploadSelectUnchecked(t) ==
  /\ tab[t].pc = "put_select" /\ Turn(t)
  /\ Become(t, [tab[t] EXCEPT !.pc = "put", !.ver = TargetVersion(t)])
  /\ UNCHANGED server

UploadSelect(t) ==
  /\ tab[t].pc = "put_select" /\ Turn(t)
  /\ Entitled(UserOf[t])
  /\ Become(t, [tab[t] EXCEPT !.pc = "put", !.ver = TargetVersion(t)])
  /\ UNCHANGED server

UploadPut(t) ==
  /\ tab[t].pc = "put"
  /\ blob' = [blob EXCEPT ![tab[t].ver] =
                [key |-> tab[t].fresh, full |-> tab[t].got.full]]
  /\ Become(t, CASE tab[t].goal = "rescue" -> [tab[t] EXCEPT !.pc = "members"]
                 [] tab[t].goal = "rotate" -> [tab[t] EXCEPT !.pc = "share_check"]
                 [] OTHER -> Done(tab[t]))
  /\ UNCHANGED <<row, share, members, upgraded, held>>

\* PUT shares: the caller may manage the vault and every recipient may open it.
\* A grant sends one request per member; the other flows send the whole list.
ShareCheck(t) ==
  /\ tab[t].pc = "share_check" /\ Turn(t)
  /\ Entitled(UserOf[t])
  /\ \E to \in IF tab[t].goal = "grant" THEN {{m} : m \in tab[t].list}
               ELSE {tab[t].list} :
       /\ to # {} /\ to \subseteq members
       /\ Become(t, [tab[t] EXCEPT !.pc = "share_batch", !.to = to,
                       !.list = tab[t].list \ to])
  /\ UNCHANGED server

\* A share references its vault's row, or breaks its foreign key.  Mutant: no
\* foreign key.
NoForeignKey == TRUE
ForeignKey == row \in Versions

\* The key that is wrapped.  Mutant: the one the session has cached.
CachedKey(t) == IF tab[t].cached # NoKey THEN tab[t].cached ELSE tab[t].fresh
WrappedKey(t) == tab[t].fresh

\* The batch: all rows of the vault are dropped first, unless this is a grant.
\* Mutant: a grant drops them too.
AlwaysReplaces(t) == TRUE
Replaces(t) == tab[t].goal # "grant"

ShareBatch(t) ==
  /\ tab[t].pc = "share_batch"
  /\ ForeignKey
  /\ share' = [u \in Users |-> IF u \in tab[t].to THEN WrappedKey(t)
                               ELSE IF Replaces(t) THEN NoKey ELSE share[u]]
  /\ held' = [u \in Users |-> IF u \in tab[t].to THEN held[u] \union {WrappedKey(t)}
                              ELSE held[u]]
  /\ Become(t,
       CASE tab[t].goal = "grant" ->
              IF tab[t].list = {} THEN Done(tab[t])
              ELSE [tab[t] EXCEPT !.pc = "share_check", !.to = {}]
         [] tab[t].goal = "create" ->
              [tab[t] EXCEPT !.pc = "put_select", !.cached = tab[t].fresh, !.to = {}]
         [] OTHER -> [tab[t] EXCEPT !.pc = "commit", !.to = {}])
  /\ UNCHANGED <<row, blob, members, upgraded>>

\* POST commit: check and read the superseded version, flip the row, sweep the
\* superseded object.
CommitCheck(t) ==
  /\ tab[t].pc = "commit" /\ Turn(t)
  /\ Entitled(UserOf[t])
  /\ Become(t, [tab[t] EXCEPT !.pc = "flip", !.ver = row])
  /\ UNCHANGED server

\* The UPDATE changes nothing when the row is gone.
CommitFlip(t) ==
  /\ tab[t].pc = "flip"
  /\ row' = IF row \in Versions THEN "v2" ELSE row
  /\ Become(t, [tab[t] EXCEPT !.pc = "sweep"])
  /\ UNCHANGED <<blob, share, members, upgraded, held>>

\* The version superseded, unless it is the one that went live.  Mutant: without
\* that exception.
WasLive(t) == {tab[t].ver}
Superseded(t) == {tab[t].ver} \ {"v2"}

\* The handler reads the row again (a missing one throws); a sweep that fails is
\* swallowed.
CommitSweep(t) ==
  /\ tab[t].pc = "sweep"
  /\ row \in Versions
  /\ \/ blob' = [v \in Versions |-> IF v \in Superseded(t) THEN NoBlob ELSE blob[v]]
     \/ "fail" \in Faults /\ UNCHANGED blob
  /\ Become(t, Done([tab[t] EXCEPT !.cached = tab[t].fresh,
                       !.view = IF tab[t].goal = "rescue" THEN Entries(tab[t].got)
                                ELSE tab[t].view]))
  /\ UNCHANGED <<row, share, members, upgraded, held>>

\* DELETE vault: one batch for the rows, then the object of every version.
DeleteBatch(t) ==
  /\ tab[t].pc = "delete" /\ Turn(t)
  /\ Entitled(UserOf[t])
  /\ row' = "deleted"
  /\ share' = [u \in Users |-> NoKey]
  /\ Become(t, [tab[t] EXCEPT !.pc = "purge"])
  /\ UNCHANGED <<blob, members, upgraded, held>>

\* Each object is deleted in its turn; a delete that fails is swallowed.
DeletePurge(t) ==
  /\ tab[t].pc = "purge"
  /\ \E gone \in IF "fail" \in Faults THEN SUBSET Versions ELSE {Versions} :
       blob' = [v \in Versions |-> IF v \in gone THEN NoBlob ELSE blob[v]]
  /\ Become(t, Done(tab[t]))
  /\ UNCHANGED <<row, share, members, upgraded, held>>

-----------------------------------------------------------------------------
(* What goes wrong.                                                        *)

\* A 403 or 404: the caller lost its access, a recipient has none, or the row
\* went away under the handler.
Refused(t) ==
  /\ \/ /\ tab[t].pc \in {"select", "put_select", "share_check", "commit", "delete"}
        /\ ~Entitled(UserOf[t])
     \/ tab[t].pc = "members" /\ UserOf[t] \notin members
     \/ tab[t].pc = "share" /\ ~ShareAllowed(t)
     \/ tab[t].pc = "share_batch" /\ ~ForeignKey
     \/ tab[t].pc = "sweep" /\ row \notin Versions
     \/ /\ tab[t].pc = "share_check" /\ tab[t].goal # "grant"
        /\ (tab[t].list = {} \/ ~(tab[t].list \subseteq members))
  /\ Become(t, Aborted(tab[t]))
  /\ UNCHANGED server

\* A grant whose next recipient is no longer a member skips that member.
SkipMember(t) ==
  /\ tab[t].pc = "share_check" /\ tab[t].goal = "grant" /\ Turn(t)
  /\ Entitled(UserOf[t])
  /\ \E m \in tab[t].list \ members :
       Become(t, Aborted([tab[t] EXCEPT !.list = tab[t].list \ {m}]))
  /\ UNCHANGED server

\* D1, R2 or the network fails a request before its next effect.
Fail(t) ==
  /\ "fail" \in Faults
  /\ tab[t].pc # "idle"
  /\ Become(t, Aborted(tab[t]))
  /\ UNCHANGED server

\* The tab is closed in the middle of a flow, and its request with it.
Crash(t) ==
  /\ "crash" \in Faults
  /\ tab[t].pc # "idle"
  /\ Become(t, NewTab)
  /\ UNCHANGED server

\* A reload, a sign-out or the inactivity timer: nothing is kept.
Reload(t) ==
  /\ tab[t].pc = "idle" /\ tab[t] # NewTab
  /\ Become(t, NewTab)
  /\ UNCHANGED server

-----------------------------------------------------------------------------

Init ==
  /\ row \in {"absent", "v1"}
  /\ blob = [v \in Versions |-> IF v = row THEN [key |-> Legacy, full |-> TRUE] ELSE NoBlob]
  /\ share = [u \in Users |-> NoKey]
  /\ members \in {m \in SUBSET Users : LegacyOwner \in m}
  /\ upgraded \in {m \in SUBSET Users : LegacyOwner \in m}
  /\ tab = [t \in Tabs |-> NewTab]
  /\ held = [u \in Users |-> {}]

\* A step that carries on a flow already begun.
Continue(t) ==
  \/ CreateAcl(t) \/ LookupMember(t) \/ ListMembers(t)
  \/ DownloadSelect(t) \/ DownloadGet(t)
  \/ ShowEntries(t) \/ StartRescue(t) \/ StartRotate(t) \/ StartGrant(t)
  \/ CannotDecrypt(t)
  \/ UploadSelect(t) \/ UploadPut(t)
  \/ ShareCheck(t) \/ ShareBatch(t)
  \/ CommitCheck(t) \/ CommitFlip(t) \/ CommitSweep(t)
  \/ DeleteBatch(t) \/ DeletePurge(t)
  \/ Refused(t) \/ SkipMember(t)

Next ==
  \/ \E t \in Tabs :
       \/ OpenVault(t) \/ SaveVault(t) \/ CreateVault(t) \/ DeleteVault(t)
       \/ Reconcile(t)
       \/ \E u \in Users : AddMember(t, u) \/ RemoveMember(t, u)
       \/ Continue(t)
       \/ Fail(t) \/ Crash(t) \/ Reload(t)
  \/ \E u \in Users : Upgrade(u)

Spec == Init /\ [][Next]_vars

\* A flow that has begun goes on, and the members keep visiting the
\* organisations page, which starts a reconciliation each time.
FairSpec ==
  /\ Spec
  /\ \A t \in Tabs : WF_vars(Continue(t)) /\ SF_vars(Reconcile(t))

-----------------------------------------------------------------------------
(* Properties.                                                             *)

\* Staging, sharing and committing never take away the object the row points
\* at: once a vault serves an object it serves one until it is deleted, whatever
\* the interleaving, the failures and the crashes.  The order put, share,
\* commit, sweep of vault-keys.js and handleCommitKeyVersion is what issue #70
\* asked for.
LiveObjectKept ==
  [][Live # NoBlob /\ row' \in Versions => Live' # NoBlob]_vars

\* No share outlives its vault: the delete batch of handleDeleteVault and the
\* foreign key of vault_key_shares leave none behind, and a share request that
\* was checked before the deletion cannot add one after it.
SharesDieWithVault ==
  row \notin Versions => \A u \in Users : share[u] = NoKey

CanOpen(u) == \/ share[u] = Live.key
              \/ u = LegacyOwner /\ Live.key = Legacy

\* Some member can always open what is stored: no crash and no interleaving
\* leaves the live object under a key that nobody can fetch any more.  While a
\* rotation is between its save and its shares the rotating tab has the key.
LiveBlobReadable ==
  Live # NoBlob =>
    \/ \E u \in members : CanOpen(u)
    \/ \E t \in Tabs : tab[t].goal = "rotate" /\ tab[t].fresh = Live.key

\* Once a vault is under the key hierarchy every share that exists opens it: no
\* member is left with a key of an abandoned rescue, which the gap query would
\* not report.
SharesOpenLive ==
  row = "v2" /\ Live # NoBlob => \A u \in Users : share[u] \in {NoKey, Live.key}

\* handleDownloadVault answers 204, "new/empty", when it finds no object.  The client
\* takes a vault with entries for empty in one case only: a commit has flipped the row
\* and swept the object between the two reads of the download.
NullOnlyWhenOvertaken ==
  \A t \in Tabs :
    tab[t].pc = "share" /\ tab[t].got = NoBlob =>
      ~Live.full \/ (tab[t].ver = "v1" /\ row = "v2")

\* Outside a rotation no one but a member was ever given the live key: what a
\* removed member has cached opens nothing that is stored now.
Revoked ==
  row = "v2" /\ (\A t \in Tabs : tab[t].goal # "rotate") =>
    \A u \in Users \ members : Live.key \notin held[u]

\* A grant only adds: it never takes the live key from a member who holds it.
GrantRevokesNobody ==
  [][\A t \in Tabs, u \in Users :
       /\ tab[t].pc = "share_batch" /\ tab[t].goal = "grant" /\ tab'[t] # tab[t]
       /\ Live # NoBlob /\ share[u] = Live.key
       => share'[u] = share[u]]_vars

\* Access heals: a member with a public key comes to hold the live key, whatever
\* kept it from being wrapped when the member was added.
MembersHeal ==
  \A u \in Users :
    row = "v2" /\ Live # NoBlob /\ u \in Keyed
      ~> \/ row # "v2" \/ u \notin members
         \/ share[u] = Live.key
=============================================================================
