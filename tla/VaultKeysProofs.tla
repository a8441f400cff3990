-------------------------- MODULE VaultKeysProofs --------------------------
(***************************************************************************)
(* Proofs about VaultKeys.  The first part is for any users, tabs, keys,   *)
(* faults and either value of Serial.                                      *)
(*                                                                         *)
(* The second shows that VaultKeys keeps the promise of VaultPromise, for  *)
(* any users, keys and number of tabs, when nobody is removed, the worker  *)
(* finishes a request before it takes another, and the creator of the      *)
(* vault works in one tab.  Any tab may crash between any two requests and *)
(* in the middle of one.                                                   *)
(*                                                                         *)
(* The third is about removals, in one tab that works through its flows.   *)
(***************************************************************************)
EXTENDS VaultRescue, TLAPS

(* Lemmas about what a tab is left with.                                   *)

\* A flow that is done leaves an idle tab, whatever it was doing.
LEMMA DoneType ==
  ASSUME NEW r \in Tab
  PROVE  Done(r) \in Tab /\ Done(r).pc = "idle" /\ Done(r).goal = "none"
<1>1. NoBlob \in Blob /\ "idle" \in PCs /\ "none" \in Goals
  BY DEF NoBlob, Blob, PCs, Goals
<1> QED BY <1>1 DEF Done, Tab

\* A failed request leaves its tab idle, deleting a half-made vault, or at the
\* next recipient of a grant: never anywhere it could still write or commit.
LEMMA AbortedType ==
  ASSUME NEW r \in Tab
  PROVE  /\ Aborted(r) \in Tab
         /\ Aborted(r).pc \in {"idle", "delete", "share_check"}
         /\ Aborted(r).pc = "share_check" =>
              Aborted(r).goal = "grant" /\ r.goal = "grant" /\ Aborted(r).fresh = r.fresh
              /\ r.pc \in {"share_check", "share_batch"}
<1>1. CASE r.goal = "rescue"
  <2> DEFINE s == [r EXCEPT !.view = Entries(r.got)]
  <2>1. s \in Tab
    BY DEF Tab, Entries
  <2>2. Aborted(r) = Done(s)
    BY <1>1 DEF Aborted
  <2> QED BY <2>1, <2>2, DoneType
<1>2. CASE r.goal = "create" /\ r.pc # "acl"
  <2>1. Aborted(r) = [Done(r) EXCEPT !.pc = "delete", !.goal = "delete"]
    BY <1>2 DEF Aborted
  <2>2. ASSUME NEW x \in Tab, NEW y, y = [x EXCEPT !.pc = "delete", !.goal = "delete"]
        PROVE  y \in Tab /\ y.pc = "delete"
    BY <2>2 DEF Tab, PCs, Goals
  <2>3. Aborted(r) \in Tab /\ Aborted(r).pc = "delete"
    BY <2>1, <2>2, DoneType, Zenon
  <2> QED BY <2>3
<1>3. CASE r.goal = "grant" /\ r.pc \in {"share_check", "share_batch"} /\ r.list # {}
  <2>1. Aborted(r) = [r EXCEPT !.pc = "share_check", !.to = {}]
    BY <1>3 DEF Aborted
  <2>2. ASSUME NEW y, y = [r EXCEPT !.pc = "share_check", !.to = {}]
        PROVE  y \in Tab /\ y.pc = "share_check" /\ y.goal = r.goal /\ y.fresh = r.fresh
    BY <2>2 DEF Tab, PCs, Goals
  <2>3. /\ Aborted(r) \in Tab /\ Aborted(r).pc = "share_check"
        /\ Aborted(r).goal = r.goal /\ Aborted(r).fresh = r.fresh
    BY <2>1, <2>2, Zenon
  <2> QED BY <2>3, <1>3
<1>4. CASE /\ ~(r.goal = "rescue")
           /\ ~(r.goal = "create" /\ r.pc # "acl")
           /\ ~(r.goal = "grant" /\ r.pc \in {"share_check", "share_batch"} /\ r.list # {})
  <2>1. Aborted(r) = Done(r)
    BY <1>4 DEF Aborted
  <2>2. Aborted(r) \in Tab /\ Aborted(r).pc = "idle"
    BY <2>1, DoneType, Zenon
  <2> QED BY <2>2
<1> QED BY <1>1, <1>2, <1>3, <1>4

-----------------------------------------------------------------------------
(* The inductive invariant.                                                *)

\* A re-encryption whose new object is written and which has still to wrap its
\* key, to commit or to sweep.
Owes(r) ==
  \/ r.pc \in {"commit", "flip", "sweep"}
  \/ r.pc \in {"share_check", "share_batch"} /\ r.goal \notin {"grant", "create"}
  \/ r.pc = "members" /\ r.goal = "rescue"

\* What a tab's place in its flow says of the row and of the staged object.
Fits(r, w, b) ==
  /\ r.pc = "acl" => w = "bare" /\ r.goal = "create"
  /\ r.pc = "purge" => w = "deleted"
  /\ r.pc = "sweep" => w \in {"v2", "deleted"}
  /\ Owes(r) \/ r.pc \in {"share_check", "share_batch", "put_select", "put"} =>
       r.fresh # NoKey
  /\ r.pc \in {"get", "put"} => r.ver \in Versions
  /\ r.pc = "put" => r.goal = "save" \/ r.ver = "v2"
  /\ Owes(r) /\ w \in Versions => b["v2"] # NoBlob
  /\ w \in {"absent", "bare"} => r.pc # "put" /\ ~Owes(r)

TabOK(r) == Fits(r, row, blob)

\* Every tab is at a place that fits.
TabsOK == \A t \in Tabs : TabOK(tab[t])

\* Only one request creates the vault.
SoleCreator ==
  \A t, o \in Tabs : tab[t].pc = "acl" /\ tab[o].pc = "acl" => t = o

\* The inductive invariant: the types, each tab's place, and no orphaned share.
Inv == TypeOK /\ TabsOK /\ SoleCreator /\ SharesDieWithVault

\* An absent vault or one from before the upgrade, and idle tabs, satisfy the
\* invariant.
THEOREM InitInv == Init => Inv
<1> SUFFICES ASSUME Init PROVE Inv
  OBVIOUS
<1> USE VaultKeysAssumption DEF Init
<1>1. NewTab \in Tab /\ NewTab.pc = "idle"
  BY DEF NewTab, Tab, NoBlob, Blob, PCs, MidRequest, Goals, Versions
<1>2. TypeOK
  <2>1. blob \in [Versions -> Blob]
    BY DEF Versions, Blob, NoBlob
  <2> QED BY <1>1, <2>1 DEF TypeOK, Versions
<1>3. \A t \in Tabs : tab[t].pc = "idle"
  BY <1>1
<1>4. TabsOK
  BY <1>3 DEF TabsOK, TabOK, Fits, Owes
<1>5. SoleCreator
  BY <1>3 DEF SoleCreator
<1>6. SharesDieWithVault
  BY DEF SharesDieWithVault
<1> QED BY <1>2, <1>4, <1>5, <1>6 DEF Inv

-----------------------------------------------------------------------------
(* Steps of a tab.                                                         *)

\* A step of a tab that leaves the row and the objects as they are keeps the
\* tab part of the invariant when the tab's new state agrees with them.
LEMMA TabStep ==
  ASSUME TypeOK, TabsOK, SoleCreator, UNCHANGED <<row, blob>>,
         NEW t \in Tabs, NEW r \in Tab, Become(t, r), TabOK(r), r.pc # "acl"
  PROVE  tab' \in [Tabs -> Tab] /\ TabsOK' /\ SoleCreator'
<1>1. tab' \in [Tabs -> Tab] /\ tab'[t] = r /\ \A o \in Tabs \ {t} : tab'[o] = tab[o]
  BY DEF Become, TypeOK
<1>2. TabsOK'
  <2> SUFFICES ASSUME NEW o \in Tabs PROVE TabOK(tab[o])'
    BY DEF TabsOK
  <2>1. CASE o = t
    BY <2>1, <1>1 DEF TabOK, Fits, Owes
  <2>2. CASE o # t
    BY <2>2, <1>1 DEF TabsOK, TabOK, Fits, Owes
  <2> QED BY <2>1, <2>2
<1>3. SoleCreator'
  BY <1>1 DEF SoleCreator
<1> QED BY <1>1, <1>2, <1>3

\* Such a step that changes nothing on the server either.
LEMMA ClientStep ==
  ASSUME Inv, UNCHANGED server,
         NEW t \in Tabs, NEW r \in Tab, Become(t, r), TabOK(r), r.pc # "acl"
  PROVE  Inv'
<1>1. tab' \in [Tabs -> Tab] /\ TabsOK' /\ SoleCreator'
  BY TabStep DEF Inv, server
<1>2. TypeOK'
  BY <1>1 DEF Inv, TypeOK, server
<1>3. SharesDieWithVault'
  BY DEF Inv, SharesDieWithVault, server
<1> QED BY <1>1, <1>2, <1>3 DEF Inv

\* An idle tab agrees with any row.
LEMMA SettledOK ==
  ASSUME NEW r \in Tab, r.pc \in {"idle", "lookup", "select", "share", "delete"}
  PROVE  TabOK(r) /\ r.pc # "acl"
BY DEF TabOK, Fits, Owes

\* So does a tab whose flow failed.
LEMMA AbortedOK ==
  ASSUME NEW r \in Tab, TabOK(r)
  PROVE  Aborted(r) \in Tab /\ TabOK(Aborted(r)) /\ Aborted(r).pc # "acl"
<1> DEFINE x == Aborted(r)
<1>1. /\ x \in Tab /\ x.pc \in {"idle", "delete", "share_check"}
      /\ x.pc = "share_check" =>
           x.goal = "grant" /\ r.goal = "grant" /\ x.fresh = r.fresh
           /\ r.pc \in {"share_check", "share_batch"}
  BY AbortedType
<1> HIDE DEF x
<1>2. TabOK(x) /\ x.pc # "acl"
  BY <1>1 DEF TabOK, Fits, Owes
<1> QED BY <1>1, <1>2 DEF x

\* loadVaultKey returns a key, or none.
LEMMA KeyForType ==
  ASSUME TypeOK, NEW t \in Tabs
  PROVE  KeyFor(t) \in Keys \union {NoKey}
BY VaultKeysAssumption DEF KeyFor, TypeOK, Tab

\* What a user starts without a request that changes anything.
LEMMA StartInv ==
  ASSUME Inv, NEW t \in Tabs,
         OpenVault(t) \/ SaveVault(t) \/ DeleteVault(t) \/ Reconcile(t)
  PROVE  Inv'
<1> DEFINE s == tab[t]
<1>1. s \in Tab
  BY DEF Inv, TypeOK
<1>2. CASE OpenVault(t)
  <2> DEFINE r == [s EXCEPT !.pc = "select", !.goal = "open"]
  <2>1. r \in Tab /\ r.pc = "select"
    BY <1>1 DEF Tab, PCs, Goals
  <2>2. Become(t, r) /\ UNCHANGED server
    BY <1>2 DEF OpenVault
  <2> HIDE DEF r
  <2> QED BY <2>1, <2>2, SettledOK, ClientStep
<1>3. CASE SaveVault(t)
  <2> DEFINE r == [s EXCEPT !.pc = "put_select", !.goal = "save", !.fresh = s.cached,
                     !.got = [key |-> s.cached, full |-> s.view = "full"]]
  <2>1. r \in Tab /\ r.pc = "put_select" /\ r.fresh # NoKey
    <3>1. s.cached \in Keys \union {NoKey} /\ s.cached # NoKey
      BY <1>1, <1>3 DEF SaveVault, Tab
    <3>2. [key |-> s.cached, full |-> s.view = "full"] \in Blob
      BY <3>1 DEF Blob
    <3>3. "put_select" \in PCs /\ "save" \in Goals
      BY DEF PCs, Goals
    <3> QED BY <1>1, <3>1, <3>2, <3>3 DEF Tab
  <2>2. Become(t, r) /\ UNCHANGED server
    BY <1>3 DEF SaveVault
  <2> HIDE DEF r
  <2>3. TabOK(r)
    BY <2>1 DEF TabOK, Fits, Owes
  <2> QED BY <2>1, <2>2, <2>3, ClientStep
<1>4. CASE DeleteVault(t)
  <2> DEFINE r == [s EXCEPT !.pc = "delete", !.goal = "delete"]
  <2>1. r \in Tab /\ r.pc = "delete"
    BY <1>1 DEF Tab, PCs, Goals
  <2>2. Become(t, r) /\ UNCHANGED server
    BY <1>4 DEF DeleteVault
  <2> HIDE DEF r
  <2> QED BY <2>1, <2>2, SettledOK, ClientStep
<1>5. CASE Reconcile(t)
  <2> DEFINE r == [s EXCEPT !.pc = "select", !.goal = "grant", !.list = Missing]
  <2>1. Missing \in SUBSET Users
    BY DEF Missing, Keyed, Inv, TypeOK
  <2>2. r \in Tab /\ r.pc = "select"
    BY <1>1, <2>1 DEF Tab, PCs, Goals
  <2>3. Become(t, r) /\ UNCHANGED server
    BY <1>5 DEF Reconcile
  <2> HIDE DEF r
  <2> QED BY <2>2, <2>3, SettledOK, ClientStep
<1> QED BY <1>2, <1>3, <1>4, <1>5

\* The end of a flow.
LEMMA DoneOK ==
  ASSUME NEW r \in Tab
  PROVE  Done(r) \in Tab /\ TabOK(Done(r)) /\ Done(r).pc # "acl"
<1> DEFINE x == Done(r)
<1>1. x \in Tab /\ x.pc = "idle"
  BY DoneType
<1> HIDE DEF x
<1>2. TabOK(x) /\ x.pc # "acl"
  BY <1>1, SettledOK
<1> QED BY <1>1, <1>2 DEF x

\* Reading a vault.
LEMMA DownloadInv ==
  ASSUME Inv, NEW t \in Tabs,
         LookupMember(t) \/ DownloadSelect(t) \/ DownloadGet(t)
  PROVE  Inv'
<1> DEFINE s == tab[t]
<1>1. s \in Tab /\ TabOK(s)
  BY DEF Inv, TypeOK, TabsOK
<1>2. CASE LookupMember(t)
  <2> DEFINE r == [s EXCEPT !.pc = "select"]
  <2>1. r \in Tab /\ r.pc = "select"
    BY <1>1 DEF Tab, PCs
  <2>2. (Become(t, r) \/ Become(t, Done(s))) /\ UNCHANGED server
    BY <1>2 DEF LookupMember
  <2> HIDE DEF r
  <2> QED BY <1>1, <2>1, <2>2, SettledOK, DoneOK, ClientStep
<1>3. CASE DownloadSelect(t)
  <2> DEFINE r == [s EXCEPT !.pc = "get", !.ver = row]
  <2>1. row \in Versions
    BY <1>3 DEF DownloadSelect, Entitled
  <2>2. r \in Tab /\ r.pc = "get" /\ r.ver \in Versions
    BY <1>1, <2>1 DEF Tab, PCs, MidRequest
  <2>3. Become(t, r) /\ UNCHANGED server
    BY <1>3 DEF DownloadSelect, ServedVersion
  <2> HIDE DEF r
  <2>4. TabOK(r)
    BY <2>2 DEF TabOK, Fits, Owes
  <2> QED BY <2>2, <2>3, <2>4, ClientStep
<1>4. CASE DownloadGet(t)
  <2> DEFINE r == [s EXCEPT !.pc = "share", !.got = blob[s.ver]]
  <2>1. s.ver \in Versions
    BY <1>1, <1>4 DEF DownloadGet, TabOK, Fits
  <2>2. blob[s.ver] \in Blob
    BY <2>1 DEF Inv, TypeOK
  <2>3. r \in Tab /\ r.pc = "share"
    BY <1>1, <2>2 DEF Tab, PCs
  <2>4. Become(t, r) /\ UNCHANGED server
    BY <1>4 DEF DownloadGet
  <2> HIDE DEF r
  <2> QED BY <2>3, <2>4, SettledOK, ClientStep
<1> QED BY <1>2, <1>3, <1>4

\* What a flow does with the contents, when it changes nothing on the server.
LEMMA OpenedInv ==
  ASSUME Inv, NEW t \in Tabs,
         ShowEntries(t) \/ StartGrant(t) \/ CannotDecrypt(t)
  PROVE  Inv'
<1> DEFINE s == tab[t]
<1>1. s \in Tab
  BY DEF Inv, TypeOK
<1>2. KeyFor(t) \in Keys \union {NoKey}
  BY KeyForType DEF Inv
<1>3. CASE ShowEntries(t)
  <2> DEFINE r == [s EXCEPT !.cached = KeyFor(t),
                     !.view = IF OpensEmpty(t) THEN "empty" ELSE Entries(s.got)]
  <2>1. r \in Tab
    BY <1>1, <1>2 DEF Tab, Entries
  <2>2. Become(t, Done(r)) /\ UNCHANGED server
    BY <1>3 DEF ShowEntries
  <2> HIDE DEF r
  <2> QED BY <2>1, <2>2, DoneOK, ClientStep
<1>4. CASE StartGrant(t)
  <2> DEFINE r == [s EXCEPT !.pc = "share_check", !.cached = KeyFor(t),
                     !.fresh = KeyFor(t), !.got = NoBlob]
  <2>1. CASE KeyFor(t) = NoKey
    <3>1. Become(t, Done(s)) /\ UNCHANGED server
      BY <1>4, <2>1 DEF StartGrant
    <3> QED BY <1>1, <3>1, DoneOK, ClientStep
  <2>2. CASE KeyFor(t) # NoKey
    <3>1. r \in Tab /\ r.pc = "share_check" /\ r.fresh # NoKey /\ r.goal = s.goal
      BY <1>1, <1>2, <2>2 DEF Tab, PCs, NoBlob, Blob
    <3>2. Become(t, r) /\ UNCHANGED server /\ s.goal = "grant"
      BY <1>4, <2>2 DEF StartGrant
    <3> HIDE DEF r
    <3>3. TabOK(r)
      BY <3>1, <3>2 DEF TabOK, Fits, Owes
    <3> QED BY <3>1, <3>2, <3>3, ClientStep
  <2> QED BY <2>1, <2>2
<1>5. CASE CannotDecrypt(t)
  <2> DEFINE r == [s EXCEPT !.cached = NoKey, !.view = "none"]
  <2>1. r \in Tab
    BY <1>1 DEF Tab
  <2>2. Become(t, Done(IF KeyFor(t) = NoKey THEN s ELSE r)) /\ UNCHANGED server
    BY <1>5 DEF CannotDecrypt
  <2> HIDE DEF r
  <2>3. (IF KeyFor(t) = NoKey THEN s ELSE r) \in Tab
    BY <1>1, <2>1
  <2> QED BY <2>2, <2>3, DoneOK, ClientStep
<1> QED BY <1>3, <1>4, <1>5

\* The first half of the requests that write.
LEMMA CheckInv ==
  ASSUME Inv, NEW t \in Tabs,
         UploadSelect(t) \/ ShareCheck(t) \/ CommitCheck(t)
  PROVE  Inv'
<1> DEFINE s == tab[t]
<1>1. s \in Tab /\ TabOK(s)
  BY DEF Inv, TypeOK, TabsOK
<1>2. row \in Versions
  BY DEF UploadSelect, ShareCheck, CommitCheck, Entitled
<1>3. CASE UploadSelect(t)
  <2> DEFINE r == [s EXCEPT !.pc = "put", !.ver = TargetVersion(t)]
  <2>1. TargetVersion(t) \in Versions /\ (s.goal = "save" \/ TargetVersion(t) = "v2")
    BY <1>2 DEF TargetVersion, Versions
  <2>2. r \in Tab /\ r.pc = "put" /\ r.ver = TargetVersion(t) /\ r.goal = s.goal
        /\ r.fresh = s.fresh
    BY <1>1, <2>1 DEF Tab, PCs, MidRequest
  <2>3. Become(t, r) /\ UNCHANGED server /\ s.pc = "put_select"
    BY <1>3 DEF UploadSelect
  <2> HIDE DEF r
  <2>4. TabOK(r)
    BY <1>1, <1>2, <2>1, <2>2, <2>3 DEF TabOK, Fits, Owes, Versions
  <2> QED BY <2>2, <2>3, <2>4, ClientStep
<1>4. CASE ShareCheck(t)
  <2>1. PICK to \in SUBSET Users :
          Become(t, [s EXCEPT !.pc = "share_batch", !.to = to, !.list = s.list \ to])
    <3>1. members \subseteq Users
      BY DEF Inv, TypeOK
    <3> QED BY <1>4, <3>1 DEF ShareCheck
  <2> DEFINE r == [s EXCEPT !.pc = "share_batch", !.to = to, !.list = s.list \ to]
  <2>2. r \in Tab /\ r.pc = "share_batch" /\ r.goal = s.goal /\ r.fresh = s.fresh
    BY <1>1 DEF Tab, PCs, MidRequest
  <2>3. Become(t, r) /\ UNCHANGED server /\ s.pc = "share_check"
    BY <1>4, <2>1 DEF ShareCheck
  <2> HIDE DEF r
  <2>4. TabOK(r)
    BY <1>1, <1>2, <2>2, <2>3 DEF TabOK, Fits, Owes, Versions
  <2> QED BY <2>2, <2>3, <2>4, ClientStep
<1>5. CASE CommitCheck(t)
  <2> DEFINE r == [s EXCEPT !.pc = "flip", !.ver = row]
  <2>1. r \in Tab /\ r.pc = "flip" /\ r.fresh = s.fresh
    BY <1>1, <1>2 DEF Tab, PCs, MidRequest
  <2>2. Become(t, r) /\ UNCHANGED server /\ s.pc = "commit"
    BY <1>5 DEF CommitCheck
  <2> HIDE DEF r
  <2>3. TabOK(r)
    BY <1>1, <1>2, <2>1, <2>2 DEF TabOK, Fits, Owes, Versions
  <2> QED BY <2>1, <2>2, <2>3, ClientStep
<1> QED BY <1>3, <1>4, <1>5

\* What goes wrong.
LEMMA FailureInv ==
  ASSUME Inv, NEW t \in Tabs,
         Refused(t) \/ SkipMember(t) \/ Fail(t) \/ Crash(t) \/ Reload(t)
  PROVE  Inv'
<1> DEFINE s == tab[t]
<1>1. s \in Tab /\ TabOK(s)
  BY DEF Inv, TypeOK, TabsOK
<1>2. CASE Refused(t) \/ Fail(t)
  <2>1. Become(t, Aborted(s)) /\ UNCHANGED server
    BY <1>2 DEF Refused, Fail
  <2> QED BY <1>1, <2>1, AbortedOK, ClientStep
<1>3. CASE SkipMember(t)
  <2>1. PICK m : Become(t, Aborted([s EXCEPT !.list = s.list \ {m}])) /\ UNCHANGED server
    BY <1>3 DEF SkipMember
  <2> DEFINE r == [s EXCEPT !.list = s.list \ {m}]
  <2>2. r \in Tab /\ r.pc = s.pc /\ r.goal = s.goal /\ r.fresh = s.fresh /\ r.ver = s.ver
    BY <1>1 DEF Tab
  <2> HIDE DEF r
  <2>3. TabOK(r)
    BY <1>1, <2>2 DEF TabOK, Fits, Owes
  <2>4. Become(t, Aborted(r)) /\ UNCHANGED server
    BY <2>1 DEF r
  <2> QED BY <2>2, <2>3, <2>4, AbortedOK, ClientStep
<1>4. CASE Crash(t) \/ Reload(t)
  <2>1. NewTab \in Tab /\ NewTab.pc = "idle"
    BY DEF NewTab, Tab, NoBlob, Blob, PCs, MidRequest, Goals, Versions
  <2>2. Become(t, NewTab) /\ UNCHANGED server
    BY <1>4 DEF Crash, Reload
  <2> QED BY <2>1, <2>2, SettledOK, ClientStep
<1> QED BY <1>2, <1>3, <1>4

\* Shares are dropped where the row is, and added only while it is there.
LEMMA ShareInv ==
  ASSUME Inv, NEW t \in Tabs, ShareBatch(t)
  PROVE  Inv'
<1> DEFINE s == tab[t]
<1>1. s \in Tab /\ TabOK(s) /\ s.pc = "share_batch"
  BY DEF Inv, TypeOK, TabsOK, ShareBatch
<1>2. s.fresh \in Keys
  BY <1>1 DEF TabOK, Fits, Tab
<1>3. PICK r \in Tab : Become(t, r) /\ TabOK(r) /\ r.pc # "acl"
  <2>1. CASE s.goal = "grant"
    <3> DEFINE r == [s EXCEPT !.pc = "share_check", !.to = {}]
    <3>1. Become(t, Done(s)) \/ Become(t, r)
      BY <2>1 DEF ShareBatch
    <3>2. r \in Tab /\ r.pc = "share_check" /\ r.goal = "grant" /\ r.fresh # NoKey
      BY <1>1, <1>2, <2>1, VaultKeysAssumption DEF Tab, PCs
    <3> HIDE DEF r
    <3>3. TabOK(r)
      BY <3>2 DEF TabOK, Fits, Owes
    <3> QED BY <1>1, <3>1, <3>2, <3>3, DoneOK
  <2>2. CASE s.goal = "create"
    <3> DEFINE r == [s EXCEPT !.pc = "put_select", !.cached = s.fresh, !.to = {}]
    <3>1. Become(t, r)
      BY <2>2 DEF ShareBatch
    <3>2. r \in Tab /\ r.pc = "put_select" /\ r.fresh # NoKey
      BY <1>1, <1>2, VaultKeysAssumption DEF Tab, PCs
    <3> HIDE DEF r
    <3>3. TabOK(r)
      BY <3>2 DEF TabOK, Fits, Owes
    <3> QED BY <3>1, <3>2, <3>3
  <2>3. CASE s.goal \notin {"grant", "create"}
    <3> DEFINE r == [s EXCEPT !.pc = "commit", !.to = {}]
    <3>1. Become(t, r)
      BY <2>3 DEF ShareBatch
    <3>2. r \in Tab /\ r.pc = "commit" /\ r.fresh # NoKey
      BY <1>1, <1>2, VaultKeysAssumption DEF Tab, PCs
    <3> HIDE DEF r
    <3>3. TabOK(r)
      BY <1>1, <2>3, <3>2 DEF TabOK, Fits, Owes
    <3> QED BY <3>1, <3>2, <3>3
  <2> QED BY <2>1, <2>2, <2>3
<1>4. tab' \in [Tabs -> Tab] /\ TabsOK' /\ SoleCreator'
  BY <1>3, TabStep DEF Inv, ShareBatch
<1>5. TypeOK'
  <2>1. share' \in [Users -> Keys \union {NoKey}]
    BY <1>2 DEF ShareBatch, WrappedKey, Inv, TypeOK
  <2>2. held' \in [Users -> SUBSET Keys]
    BY <1>2 DEF ShareBatch, WrappedKey, Inv, TypeOK
  <2> QED BY <1>4, <2>1, <2>2 DEF ShareBatch, Inv, TypeOK
<1>6. SharesDieWithVault'
  BY DEF ShareBatch, ForeignKey, SharesDieWithVault
<1> QED BY <1>4, <1>5, <1>6 DEF Inv

\* A new key is forgotten from the history; nothing else on the server changes.
LEMMA GenerateInv ==
  ASSUME Inv, NEW t \in Tabs, NEW k \in Keys, Generate(k),
         UNCHANGED <<row, blob, share, members, upgraded>>,
         NEW r \in Tab, Become(t, r), TabOK(r), r.pc # "acl"
  PROVE  Inv'
<1>1. tab' \in [Tabs -> Tab] /\ TabsOK' /\ SoleCreator'
  BY TabStep DEF Inv
<1>2. held' \in [Users -> SUBSET Keys]
  BY DEF Generate, Inv, TypeOK
<1>3. TypeOK'
  BY <1>1, <1>2 DEF Inv, TypeOK
<1>4. SharesDieWithVault'
  BY DEF Inv, SharesDieWithVault
<1> QED BY <1>1, <1>3, <1>4 DEF Inv

\* GET member-keys: a creation gets its key, a rescue or a rotation its members.
LEMMA ListMembersInv ==
  ASSUME Inv, NEW t \in Tabs, ListMembers(t)
  PROVE  Inv'
<1> DEFINE s == tab[t]
<1>1. s \in Tab /\ TabOK(s) /\ s.pc = "members"
  BY DEF Inv, TypeOK, TabsOK, ListMembers
<1>2. Keyed \in SUBSET Users /\ UserOf[t] \in Users
  BY VaultKeysAssumption DEF Keyed, Inv, TypeOK
<1>3. CASE s.goal = "create"
  <2>1. PICK k \in Keys : Generate(k) /\ Become(t, [s EXCEPT !.pc = "share_check",
                             !.fresh = k, !.list = Keyed \union {UserOf[t]}])
    BY <1>3 DEF ListMembers
  <2> DEFINE r == [s EXCEPT !.pc = "share_check", !.fresh = k,
                     !.list = Keyed \union {UserOf[t]}]
  <2>2. r \in Tab /\ r.pc = "share_check" /\ r.goal = "create" /\ r.fresh = k
    BY <1>1, <1>2, <1>3 DEF Tab, PCs
  <2>3. Become(t, r)
    BY <2>1
  <2> HIDE DEF r
  <2>4. TabOK(r)
    BY <2>2, VaultKeysAssumption DEF TabOK, Fits, Owes
  <2> QED BY <2>1, <2>2, <2>3, <2>4, GenerateInv DEF ListMembers
<1>4. CASE s.goal = "rescue"
  <2> DEFINE r == [s EXCEPT !.pc = "share_check", !.list = Keyed]
  <2>1. r \in Tab /\ r.pc = "share_check" /\ r.goal = "rescue" /\ r.fresh = s.fresh
    BY <1>1, <1>2, <1>4 DEF Tab, PCs
  <2>2. Become(t, r) /\ UNCHANGED server
    BY <1>4 DEF ListMembers, server
  <2> HIDE DEF r
  <2>3. TabOK(r)
    BY <1>1, <1>4, <2>1 DEF TabOK, Fits, Owes
  <2> QED BY <2>1, <2>2, <2>3, ClientStep
<1>5. CASE s.goal = "rotate"
  <2> DEFINE r == [s EXCEPT !.pc = "select", !.list = Keyed]
  <2>1. r \in Tab /\ r.pc = "select"
    BY <1>1, <1>2 DEF Tab, PCs
  <2>2. Become(t, r) /\ UNCHANGED server
    BY <1>5 DEF ListMembers, server
  <2> HIDE DEF r
  <2> QED BY <2>1, <2>2, SettledOK, ClientStep
<1> QED BY <1>3, <1>4, <1>5 DEF ListMembers

\* A re-encryption begins with a new key in hand.
LEMMA StartWriteInv ==
  ASSUME Inv, NEW t \in Tabs, StartRescue(t) \/ StartRotate(t)
  PROVE  Inv'
<1> DEFINE s == tab[t]
<1>1. s \in Tab /\ KeyFor(t) \in Keys \union {NoKey}
  BY KeyForType DEF Inv, TypeOK
<1>2. PICK k \in Keys, g \in {"rescue", s.goal} : Generate(k) /\
        Become(t, [s EXCEPT !.pc = "put_select", !.goal = g, !.cached = KeyFor(t), !.fresh = k])
  <2>1. CASE StartRescue(t)
    BY <2>1 DEF StartRescue
  <2>2. CASE StartRotate(t)
    <3>1. PICK k \in Keys : Generate(k) /\
            Become(t, [s EXCEPT !.pc = "put_select", !.cached = KeyFor(t), !.fresh = k])
      BY <2>2 DEF StartRotate
    <3>2. [s EXCEPT !.pc = "put_select", !.goal = s.goal, !.cached = KeyFor(t), !.fresh = k]
            = [s EXCEPT !.pc = "put_select", !.cached = KeyFor(t), !.fresh = k]
      BY <1>1 DEF Tab
    <3> QED BY <3>1, <3>2
  <2> QED BY <2>1, <2>2
<1> DEFINE r == [s EXCEPT !.pc = "put_select", !.goal = g, !.cached = KeyFor(t), !.fresh = k]
<1>3. r \in Tab /\ r.pc = "put_select" /\ r.fresh = k
  BY <1>1 DEF Tab, PCs, Goals
<1>4. Become(t, r)
  BY <1>2
<1> HIDE DEF r
<1>5. TabOK(r)
  BY <1>3, VaultKeysAssumption DEF TabOK, Fits, Owes
<1>6. UNCHANGED <<row, blob, share, members, upgraded>>
  BY DEF StartRescue, StartRotate
<1> QED BY <1>2, <1>3, <1>4, <1>5, <1>6, GenerateInv

\* Membership.
LEMMA MembershipInv ==
  ASSUME Inv, NEW t \in Tabs, NEW u \in Users, AddMember(t, u) \/ RemoveMember(t, u)
  PROVE  Inv'
<1> DEFINE s == tab[t]
<1>1. s \in Tab
  BY DEF Inv, TypeOK
<1>2. UNCHANGED <<row, blob, upgraded, held>>
  BY DEF AddMember, RemoveMember
<1>3. members' \subseteq Users
  BY DEF AddMember, RemoveMember, Inv, TypeOK
<1>4. /\ share' \in [Users -> Keys \union {NoKey}]
      /\ SharesDieWithVault'
  BY <1>2 DEF AddMember, RemoveMember, Inv, TypeOK, SharesDieWithVault
<1>5. tab' \in [Tabs -> Tab] /\ TabsOK' /\ SoleCreator'
  <2>1. CASE UNCHANGED tab
    BY <1>2, <2>1 DEF Inv, TypeOK, TabsOK, TabOK, Fits, Owes, SoleCreator
  <2>2. CASE AddMember(t, u)
    <3> DEFINE r == [s EXCEPT !.pc = "lookup", !.goal = "grant", !.list = {u}]
    <3>1. r \in Tab /\ r.pc = "lookup"
      BY <1>1 DEF Tab, PCs, Goals
    <3>2. Become(t, r)
      BY <2>2 DEF AddMember
    <3> HIDE DEF r
    <3> QED BY <1>2, <3>1, <3>2, SettledOK, TabStep DEF Inv
  <2>3. CASE RemoveMember(t, u) /\ ~UNCHANGED tab
    <3> DEFINE r == [s EXCEPT !.pc = "members", !.goal = "rotate"]
    <3>1. r \in Tab /\ r.pc = "members" /\ r.goal = "rotate"
      BY <1>1 DEF Tab, PCs, Goals
    <3>2. Become(t, r)
      BY <2>3 DEF RemoveMember
    <3> HIDE DEF r
    <3>3. TabOK(r)
      BY <3>1 DEF TabOK, Fits, Owes
    <3> QED BY <1>2, <3>1, <3>2, <3>3, TabStep DEF Inv
  <2> QED BY <2>1, <2>2, <2>3
<1>6. TypeOK'
  BY <1>2, <1>3, <1>4, <1>5 DEF Inv, TypeOK
<1> QED BY <1>4, <1>5, <1>6 DEF Inv

-----------------------------------------------------------------------------
(* Steps that change the row or an object.                                 *)

\* Such a step keeps the tab part of the invariant when the new row and the new
\* objects suit the tab that takes it and every other tab as it is.
LEMMA ServerStep ==
  ASSUME TypeOK, NEW t \in Tabs, NEW r \in Tab, Become(t, r), Fits(r, row', blob'),
         \A o \in Tabs \ {t} : Fits(tab[o], row', blob'),
         r.pc = "acl" => \A o \in Tabs \ {t} : tab[o].pc # "acl",
         SoleCreator
  PROVE  tab' \in [Tabs -> Tab] /\ TabsOK' /\ SoleCreator'
<1>1. tab' \in [Tabs -> Tab] /\ tab'[t] = r /\ \A o \in Tabs \ {t} : tab'[o] = tab[o]
  BY DEF Become, TypeOK
<1>2. TabsOK'
  <2> SUFFICES ASSUME NEW o \in Tabs PROVE TabOK(tab[o])'
    BY DEF TabsOK
  <2>1. CASE o = t
    BY <2>1, <1>1 DEF TabOK, Fits, Owes
  <2>2. CASE o # t
    BY <2>2, <1>1 DEF TabOK, Fits
  <2> QED BY <2>1, <2>2
<1>3. SoleCreator'
  BY <1>1 DEF SoleCreator
<1> QED BY <1>1, <1>2, <1>3

\* The row of a new vault: no other tab can be creating it.
LEMMA CreateVaultInv ==
  ASSUME Inv, NEW t \in Tabs, CreateVault(t)
  PROVE  Inv'
<1> DEFINE r == [tab[t] EXCEPT !.pc = "acl", !.goal = "create"]
<1>1. r \in Tab /\ r.pc = "acl" /\ r.goal = "create"
  <2>1. tab[t] \in Tab
    BY DEF Inv, TypeOK
  <2>2. "acl" \in PCs /\ "create" \in Goals
    BY DEF PCs, MidRequest, Goals
  <2> QED BY <2>1, <2>2 DEF Tab
<1>2. Become(t, r) /\ row = "absent" /\ row' = "bare"
      /\ UNCHANGED <<blob, share, members, upgraded, held>>
  BY DEF CreateVault
<1> HIDE DEF r
<1>3. \A o \in Tabs \ {t} : tab[o].pc # "acl" /\ Fits(tab[o], row', blob')
  <2> SUFFICES ASSUME NEW o \in Tabs \ {t}
               PROVE  tab[o].pc # "acl" /\ Fits(tab[o], row', blob')
    OBVIOUS
  <2> QED BY <1>2 DEF Inv, TabsOK, TabOK, Fits, Owes, Versions
<1>4. Fits(r, row', blob')
  BY <1>1, <1>2 DEF TabOK, Fits, Owes
<1>5. tab' \in [Tabs -> Tab] /\ TabsOK' /\ SoleCreator'
  BY <1>1, <1>2, <1>3, <1>4, ServerStep DEF Inv
<1>6. TypeOK' /\ SharesDieWithVault'
  BY <1>2, <1>5 DEF Inv, TypeOK, SharesDieWithVault, Versions
<1> QED BY <1>5, <1>6 DEF Inv

\* The access list of a new vault, or the row taken back: no tab has written to
\* the vault yet.
LEMMA CreateAclInv ==
  ASSUME Inv, NEW t \in Tabs, CreateAcl(t)
  PROVE  Inv'
<1> DEFINE s == tab[t]
<1>1. s \in Tab /\ s.pc = "acl" /\ s.goal = "create" /\ row = "bare"
  BY DEF Inv, TypeOK, TabsOK, TabOK, Fits, CreateAcl
<1>2. row' \in {"v2", "deleted"} /\ UNCHANGED <<blob, share, members, upgraded, held>>
  BY DEF CreateAcl
<1>3. PICK r \in Tab : Become(t, r) /\ r.pc \in {"members", "idle", "delete"}
                     /\ (r.pc = "members" => r.goal = "create")
  <2> DEFINE x == [s EXCEPT !.pc = "members"]
  <2>1. x \in Tab /\ x.pc = "members" /\ x.goal = "create"
    BY <1>1 DEF Tab, PCs
  <2> DEFINE y == Aborted(s)
  <2>2. y \in Tab /\ y.pc \in {"idle", "delete"}
    BY <1>1, AbortedType
  <2>3. Become(t, x) \/ Become(t, y)
    BY DEF CreateAcl
  <2> HIDE DEF x, y
  <2> QED BY <2>1, <2>2, <2>3
<1>4. Fits(r, row', blob')
  BY <1>3 DEF TabOK, Fits, Owes
<1>5. \A o \in Tabs \ {t} : Fits(tab[o], row', blob')
  <2> SUFFICES ASSUME NEW o \in Tabs \ {t} PROVE Fits(tab[o], row', blob')
    OBVIOUS
  <2>1. tab[o].pc # "acl"
    BY <1>1 DEF Inv, SoleCreator
  <2> QED BY <1>1, <1>2, <2>1 DEF Inv, TabsOK, TabOK, Fits, Owes, Versions
<1>6. tab' \in [Tabs -> Tab] /\ TabsOK' /\ SoleCreator'
  BY <1>3, <1>4, <1>5, ServerStep DEF Inv
<1>7. TypeOK' /\ SharesDieWithVault'
  BY <1>1, <1>2, <1>6 DEF Inv, TypeOK, SharesDieWithVault, Versions
<1> QED BY <1>6, <1>7 DEF Inv

\* The object is written, at v2 unless it is an ordinary save.
LEMMA UploadPutInv ==
  ASSUME Inv, NEW t \in Tabs, UploadPut(t)
  PROVE  Inv'
<1> DEFINE s == tab[t]
<1>1. s \in Tab /\ TabOK(s) /\ s.pc = "put"
  BY DEF Inv, TypeOK, TabsOK, UploadPut
<1>2. s.fresh \in Keys /\ s.fresh # NoKey /\ s.got.full \in BOOLEAN /\ s.ver \in Versions
      /\ (s.goal = "save" \/ s.ver = "v2") /\ row \notin {"absent", "bare"}
  BY <1>1 DEF TabOK, Fits, Tab, Blob
<1>3. UNCHANGED <<row, share, members, upgraded, held>>
  BY DEF UploadPut
<1>4. blob' \in [Versions -> Blob] /\ blob'[s.ver] # NoBlob
      /\ \A v \in Versions : v # s.ver => blob'[v] = blob[v]
  BY <1>2 DEF UploadPut, Inv, TypeOK, Blob, NoBlob
<1>5. PICK r \in Tab : Become(t, r) /\ Fits(r, row', blob') /\ r.pc # "acl"
  <2>1. CASE s.goal = "rescue"
    <3> DEFINE r == [s EXCEPT !.pc = "members"]
    <3>1. r \in Tab /\ r.pc = "members" /\ r.fresh = s.fresh
      BY <1>1 DEF Tab, PCs
    <3>2. Become(t, r)
      BY <2>1 DEF UploadPut
    <3> HIDE DEF r
    <3>3. Fits(r, row', blob')
      BY <1>2, <1>3, <1>4, <2>1, <3>1 DEF TabOK, Fits, Owes
    <3> QED BY <3>1, <3>2, <3>3
  <2>2. CASE s.goal = "rotate"
    <3> DEFINE r == [s EXCEPT !.pc = "share_check"]
    <3>1. r \in Tab /\ r.pc = "share_check" /\ r.fresh = s.fresh
      BY <1>1 DEF Tab, PCs
    <3>2. Become(t, r)
      BY <2>2 DEF UploadPut
    <3> HIDE DEF r
    <3>3. Fits(r, row', blob')
      BY <1>2, <1>3, <1>4, <2>2, <3>1 DEF TabOK, Fits, Owes
    <3> QED BY <3>1, <3>2, <3>3
  <2>3. CASE s.goal \notin {"rescue", "rotate"}
    <3> DEFINE r == Done(s)
    <3>1. r \in Tab /\ r.pc = "idle"
      BY <1>1, DoneType
    <3>2. Become(t, r)
      BY <2>3 DEF UploadPut
    <3> HIDE DEF r
    <3>3. Fits(r, row', blob')
      BY <3>1 DEF TabOK, Fits, Owes
    <3> QED BY <3>1, <3>2, <3>3
  <2> QED BY <2>1, <2>2, <2>3
<1>6. \A o \in Tabs \ {t} : Fits(tab[o], row', blob')
  <2> SUFFICES ASSUME NEW o \in Tabs \ {t} PROVE Fits(tab[o], row', blob')
    OBVIOUS
  <2>1. blob["v2"] # NoBlob => blob'["v2"] # NoBlob
    BY <1>4 DEF Versions
  <2> QED BY <1>3, <2>1 DEF Inv, TabsOK, TabOK, Fits, Owes
<1>7. tab' \in [Tabs -> Tab] /\ TabsOK' /\ SoleCreator'
  BY <1>5, <1>6, ServerStep DEF Inv
<1>8. TypeOK' /\ SharesDieWithVault'
  BY <1>3, <1>4, <1>7 DEF Inv, TypeOK, SharesDieWithVault
<1> QED BY <1>7, <1>8 DEF Inv

\* The commit: the staged object that goes live is in place.
LEMMA CommitFlipInv ==
  ASSUME Inv, NEW t \in Tabs, CommitFlip(t)
  PROVE  Inv'
<1> DEFINE s == tab[t]
<1>1. s \in Tab /\ TabOK(s) /\ s.pc = "flip"
  BY DEF Inv, TypeOK, TabsOK, CommitFlip
<1>2. row \in {"v1", "v2", "deleted"} /\ s.fresh # NoKey
      /\ (row \in Versions => blob["v2"] # NoBlob)
  BY <1>1 DEF TabOK, Fits, Owes, Inv, TypeOK, Versions
<1>3. row' = (IF row \in Versions THEN "v2" ELSE row)
      /\ UNCHANGED <<blob, share, members, upgraded, held>>
  BY DEF CommitFlip
<1> DEFINE r == [s EXCEPT !.pc = "sweep"]
<1>4. r \in Tab /\ r.pc = "sweep" /\ r.fresh = s.fresh
  BY <1>1 DEF Tab, PCs, MidRequest
<1>5. Become(t, r)
  BY DEF CommitFlip
<1> HIDE DEF r
<1>6. Fits(r, row', blob')
  BY <1>2, <1>3, <1>4 DEF Fits, Owes, Versions
<1>7. \A o \in Tabs \ {t} : Fits(tab[o], row', blob')
  <2> SUFFICES ASSUME NEW o \in Tabs \ {t} PROVE Fits(tab[o], row', blob')
    OBVIOUS
  <2> QED BY <1>2, <1>3 DEF Inv, TabsOK, TabOK, Fits, Owes, Versions
<1>8. tab' \in [Tabs -> Tab] /\ TabsOK' /\ SoleCreator'
  BY <1>4, <1>5, <1>6, <1>7, ServerStep DEF Inv
<1>9. TypeOK' /\ SharesDieWithVault'
  BY <1>2, <1>3, <1>8 DEF Inv, TypeOK, SharesDieWithVault, Versions
<1> QED BY <1>8, <1>9 DEF Inv

\* The sweep takes away an object that is not the live one.
LEMMA CommitSweepInv ==
  ASSUME Inv, NEW t \in Tabs, CommitSweep(t)
  PROVE  Inv' /\ row = "v2" /\ row' = row /\ blob'["v2"] = blob["v2"]
<1> DEFINE s == tab[t]
<1>1. s \in Tab /\ TabOK(s) /\ s.pc = "sweep"
  BY DEF Inv, TypeOK, TabsOK, CommitSweep
<1>2. row = "v2" /\ UNCHANGED <<row, share, members, upgraded, held>>
  BY <1>1 DEF CommitSweep, TabOK, Fits, Versions
<1>3. blob' \in [Versions -> Blob] /\ blob'["v2"] = blob["v2"]
  <2>1. NoBlob \in Blob /\ blob \in [Versions -> Blob] /\ "v2" \in Versions
    BY DEF Inv, TypeOK, Blob, NoBlob, Versions
  <2>2. \/ blob' = [v \in Versions |-> IF v \in Superseded(t) THEN NoBlob ELSE blob[v]]
        \/ blob' = blob
    BY DEF CommitSweep
  <2>3. "v2" \notin Superseded(t)
    BY DEF Superseded
  <2> QED BY <2>1, <2>2, <2>3
<1> DEFINE x == [s EXCEPT !.cached = s.fresh,
                   !.view = IF s.goal = "rescue" THEN Entries(s.got) ELSE s.view]
<1>4. x \in Tab
  BY <1>1 DEF Tab, Entries
<1>5. Become(t, Done(x))
  BY DEF CommitSweep
<1> HIDE DEF x
<1> DEFINE r == Done(x)
<1>6. r \in Tab /\ r.pc = "idle"
  BY <1>4, DoneType
<1>7. Become(t, r)
  BY <1>5
<1> HIDE DEF r
<1>8. Fits(r, row', blob')
  BY <1>6 DEF Fits, Owes
<1>9. \A o \in Tabs \ {t} : Fits(tab[o], row', blob')
  <2> SUFFICES ASSUME NEW o \in Tabs \ {t} PROVE Fits(tab[o], row', blob')
    OBVIOUS
  <2> QED BY <1>2, <1>3 DEF Inv, TabsOK, TabOK, Fits, Owes, Versions
<1>10. tab' \in [Tabs -> Tab] /\ TabsOK' /\ SoleCreator'
  BY <1>6, <1>7, <1>8, <1>9, ServerStep DEF Inv
<1>11. TypeOK' /\ SharesDieWithVault'
  BY <1>2, <1>3, <1>10 DEF Inv, TypeOK, SharesDieWithVault, Versions
<1> QED BY <1>2, <1>3, <1>10, <1>11 DEF Inv

\* A deletion drops the row before the objects.
LEMMA DeleteInv ==
  ASSUME Inv, NEW t \in Tabs, DeleteBatch(t) \/ DeletePurge(t)
  PROVE  Inv' /\ row' = "deleted"
<1> DEFINE s == tab[t]
<1>1. s \in Tab /\ TabOK(s)
  BY DEF Inv, TypeOK, TabsOK
<1>2. row \in Versions \union {"deleted"} /\ row' = "deleted"
      /\ UNCHANGED <<members, upgraded, held>>
  BY <1>1 DEF DeleteBatch, DeletePurge, Entitled, TabOK, Fits
<1>3. blob' \in [Versions -> Blob]
  <2>1. NoBlob \in Blob /\ blob \in [Versions -> Blob]
    BY DEF Inv, TypeOK, Blob, NoBlob
  <2>2. \/ blob' = blob
        \/ \E gone \in SUBSET Versions :
             blob' = [v \in Versions |-> IF v \in gone THEN NoBlob ELSE blob[v]]
    BY DEF DeleteBatch, DeletePurge
  <2> QED BY <2>1, <2>2
<1>4. share' \in [Users -> Keys \union {NoKey}] /\ \A u \in Users : share'[u] = NoKey
  <2>1. CASE DeleteBatch(t)
    BY <2>1 DEF DeleteBatch
  <2>2. CASE DeletePurge(t)
    BY <1>1, <2>2 DEF DeletePurge, TabOK, Fits, Inv, TypeOK, SharesDieWithVault, Versions
  <2> QED BY <2>1, <2>2
<1>5. PICK r \in Tab : Become(t, r) /\ r.pc \in {"purge", "idle"}
  <2> DEFINE x == [s EXCEPT !.pc = "purge"]
  <2> DEFINE y == Done(s)
  <2>1. x \in Tab /\ x.pc = "purge"
    BY <1>1 DEF Tab, PCs, MidRequest
  <2>2. y \in Tab /\ y.pc = "idle"
    BY <1>1, DoneType
  <2>3. Become(t, x) \/ Become(t, y)
    BY DEF DeleteBatch, DeletePurge
  <2> HIDE DEF x, y
  <2> QED BY <2>1, <2>2, <2>3
<1>6. Fits(r, row', blob')
  BY <1>2, <1>5 DEF Fits, Owes
<1>7. \A o \in Tabs \ {t} : Fits(tab[o], row', blob')
  <2> SUFFICES ASSUME NEW o \in Tabs \ {t} PROVE Fits(tab[o], row', blob')
    OBVIOUS
  <2> QED BY <1>2 DEF Inv, TabsOK, TabOK, Fits, Owes, Versions
<1>8. tab' \in [Tabs -> Tab] /\ TabsOK' /\ SoleCreator'
  BY <1>5, <1>6, <1>7, ServerStep DEF Inv
<1>9. TypeOK' /\ SharesDieWithVault'
  BY <1>2, <1>3, <1>4, <1>8 DEF Inv, TypeOK, SharesDieWithVault
<1> QED BY <1>2, <1>8, <1>9 DEF Inv

\* A new keypair touches neither the vault nor the tabs.
LEMMA UpgradeInv ==
  ASSUME Inv, NEW u \in Users, Upgrade(u)
  PROVE  Inv'
<1>1. UNCHANGED <<row, blob, share, members, tab, held>> /\ upgraded' \subseteq Users
  BY DEF Upgrade, Inv, TypeOK
<1> QED BY <1>1 DEF Inv, TypeOK, TabsOK, TabOK, Fits, Owes, SoleCreator, SharesDieWithVault

\* A step of nobody.
LEMMA StutterInv == Inv /\ UNCHANGED vars => Inv'
BY DEF Inv, TypeOK, TabsOK, TabOK, Fits, Owes, SoleCreator, SharesDieWithVault, vars

-----------------------------------------------------------------------------
(* The theorems.                                                           *)

\* Every step keeps the inductive invariant.
THEOREM NextInv == Inv /\ [Next]_vars => Inv'
<1> SUFFICES ASSUME Inv, [Next]_vars PROVE Inv'
  OBVIOUS
<1>1. CASE UNCHANGED vars
  BY <1>1, StutterInv
<1>2. ASSUME NEW t \in Tabs, Continue(t) PROVE Inv'
  <2>1. CASE CreateAcl(t)
    BY <2>1, CreateAclInv
  <2>2. CASE LookupMember(t) \/ DownloadSelect(t) \/ DownloadGet(t)
    BY <2>2, DownloadInv
  <2>3. CASE ListMembers(t)
    BY <2>3, ListMembersInv
  <2>4. CASE ShowEntries(t) \/ StartGrant(t) \/ CannotDecrypt(t)
    BY <2>4, OpenedInv
  <2>5. CASE StartRescue(t) \/ StartRotate(t)
    BY <2>5, StartWriteInv
  <2>6. CASE UploadSelect(t) \/ ShareCheck(t) \/ CommitCheck(t)
    BY <2>6, CheckInv
  <2>7. CASE UploadPut(t)
    BY <2>7, UploadPutInv
  <2>8. CASE ShareBatch(t)
    BY <2>8, ShareInv
  <2>9. CASE CommitFlip(t)
    BY <2>9, CommitFlipInv
  <2>10. CASE CommitSweep(t)
    BY <2>10, CommitSweepInv
  <2>11. CASE DeleteBatch(t) \/ DeletePurge(t)
    BY <2>11, DeleteInv
  <2>12. CASE Refused(t) \/ SkipMember(t)
    BY <2>12, FailureInv
  <2> QED BY <1>2, <2>1, <2>2, <2>3, <2>4, <2>5, <2>6, <2>7, <2>8, <2>9, <2>10,
             <2>11, <2>12 DEF Continue
<1>3. ASSUME NEW t \in Tabs,
             OpenVault(t) \/ SaveVault(t) \/ DeleteVault(t) \/ Reconcile(t)
      PROVE  Inv'
  BY <1>3, StartInv
<1>4. ASSUME NEW t \in Tabs, CreateVault(t) PROVE Inv'
  BY <1>4, CreateVaultInv
<1>5. ASSUME NEW t \in Tabs, NEW u \in Users, AddMember(t, u) \/ RemoveMember(t, u)
      PROVE  Inv'
  BY <1>5, MembershipInv
<1>6. ASSUME NEW t \in Tabs, Fail(t) \/ Crash(t) \/ Reload(t) PROVE Inv'
  BY <1>6, FailureInv
<1>7. ASSUME NEW u \in Users, Upgrade(u) PROVE Inv'
  BY <1>7, UpgradeInv
<1> QED BY <1>1, <1>2, <1>3, <1>4, <1>5, <1>6, <1>7 DEF Next

\* The invariant holds in every state that Spec reaches.
THEOREM Invariance == Spec => []Inv
BY InitInv, NextInv, PTL DEF Spec

\* The variables keep their types, whatever the number of users, tabs and keys.
THEOREM TypeCorrect == Spec => []TypeOK
BY Invariance, PTL DEF Inv

\* No share outlives its vault: handleDeleteVault against a share request that
\* was checked before it, for any number of both.
THEOREM SharesDie == Spec => []SharesDieWithVault
BY Invariance, PTL DEF Inv

\* One step: a live object stays, whoever stages, commits, sweeps or fails.
LEMMA LiveStep ==
  ASSUME Inv, [Next]_vars, Live # NoBlob, row' \in Versions
  PROVE  Live' # NoBlob
<1>1. row \in Versions /\ blob[row] # NoBlob
  BY DEF Live
<1>2. SUFFICES blob'[row'] # NoBlob
  BY DEF Live
<1>3. CASE UNCHANGED <<row, blob>>
  BY <1>1, <1>3
<1>4. ASSUME NEW t \in Tabs, UploadPut(t) PROVE blob'[row'] # NoBlob
  <2>1. tab[t] \in Tab /\ TabOK(tab[t]) /\ tab[t].pc = "put" /\ row' = row
    BY <1>4 DEF UploadPut, Inv, TypeOK, TabsOK
  <2>2. tab[t].fresh # NoKey
    BY <2>1 DEF TabOK, Fits
  <2>3. blob'[row] = blob[row] \/ blob'[row] = [key |-> tab[t].fresh, full |-> tab[t].got.full]
    BY <1>1, <1>4 DEF UploadPut, Inv, TypeOK
  <2> QED BY <1>1, <2>1, <2>2, <2>3 DEF NoBlob
<1>5. ASSUME NEW t \in Tabs, CommitFlip(t) PROVE blob'[row'] # NoBlob
  <2>1. TabOK(tab[t]) /\ tab[t].pc = "flip" /\ row' = "v2" /\ blob' = blob
    BY <1>1, <1>5 DEF CommitFlip, Inv, TabsOK
  <2> QED BY <1>1, <2>1 DEF TabOK, Fits, Owes
<1>6. ASSUME NEW t \in Tabs, CommitSweep(t) PROVE blob'[row'] # NoBlob
  BY <1>1, <1>6, CommitSweepInv
<1>7. ASSUME NEW t \in Tabs, DeleteBatch(t) \/ DeletePurge(t) PROVE FALSE
  BY <1>7, DeleteInv DEF Versions
<1>8. ASSUME NEW t \in Tabs, CreateVault(t) \/ CreateAcl(t) PROVE FALSE
  BY <1>1, <1>8 DEF CreateVault, CreateAcl, Inv, TabsOK, TabOK, Fits, Versions
<1>9. ASSUME NEW t \in Tabs,
             \/ LookupMember(t) \/ ListMembers(t) \/ DownloadSelect(t) \/ DownloadGet(t)
             \/ ShowEntries(t) \/ StartRescue(t) \/ StartRotate(t) \/ StartGrant(t)
             \/ CannotDecrypt(t) \/ UploadSelect(t) \/ ShareCheck(t) \/ ShareBatch(t)
             \/ CommitCheck(t) \/ Refused(t) \/ SkipMember(t)
             \/ OpenVault(t) \/ SaveVault(t) \/ DeleteVault(t) \/ Reconcile(t)
             \/ Fail(t) \/ Crash(t) \/ Reload(t)
      PROVE  UNCHANGED <<row, blob>>
  BY <1>9 DEF LookupMember, ListMembers, DownloadSelect, DownloadGet, ShowEntries,
     StartRescue, StartRotate, StartGrant, CannotDecrypt, UploadSelect, ShareCheck,
     ShareBatch, CommitCheck, Refused, SkipMember, OpenVault, SaveVault, DeleteVault,
     Reconcile, Fail, Crash, Reload, server
<1>10. ASSUME NEW t \in Tabs, NEW u \in Users, AddMember(t, u) \/ RemoveMember(t, u)
       PROVE  UNCHANGED <<row, blob>>
  BY <1>10 DEF AddMember, RemoveMember
<1>11. ASSUME NEW u \in Users, Upgrade(u) PROVE UNCHANGED <<row, blob>>
  BY <1>11 DEF Upgrade
<1>12. CASE UNCHANGED vars
  BY <1>3, <1>12 DEF vars
<1> QED BY <1>3, <1>4, <1>5, <1>6, <1>7, <1>8, <1>9, <1>10, <1>11, <1>12
        DEF Next, Continue

\* The promise of staging, for every interleaving of any number of tabs, with
\* any crash and any failed request: no step but a deletion takes away the
\* object a vault serves.
THEOREM LiveKept == Spec => LiveObjectKept
<1>1. Inv /\ [Next]_vars => [Live # NoBlob /\ row' \in Versions => Live' # NoBlob]_vars
  BY LiveStep
<1> QED BY <1>1, Invariance, PTL DEF Spec, LiveObjectKept

-----------------------------------------------------------------------------
(* Downloads, and the commits that overtake them.                          *)

\* Nothing anywhere holds the entries the vault had.
Hollow ==
  /\ \A v \in Versions : ~blob[v].full
  /\ \A t \in Tabs : tab[t].view # "full" /\ ~tab[t].got.full

\* A download that read a version which a commit has superseded since.
Overtaken(r, w) == r.ver = "v1" /\ w = "v2"

\* What a download has read of the row w, and what it found.
Reads(r, w, h) ==
  /\ r.pc = "get" => r.ver = w \/ Overtaken(r, w) \/ w = "deleted"
  /\ r.pc = "share" /\ r.got = NoBlob => h \/ Overtaken(r, w) \/ w = "deleted"

\* The object the row points at is missing only if there never were entries.
NullInv ==
  /\ row \in {"absent", "bare"} => Hollow
  /\ row = "v1" => blob["v1"] # NoBlob
  /\ row = "v2" /\ blob["v2"] = NoBlob => Hollow
  /\ \A t \in Tabs : Reads(tab[t], row, Hollow)

LEMMA InitNull == Init => NullInv
<1> SUFFICES ASSUME Init PROVE NullInv
  OBVIOUS
<1>1. \A t \in Tabs : tab[t].pc = "idle" /\ tab[t].view = "none" /\ tab[t].got = NoBlob
  BY DEF Init, NewTab
<1>2. /\ row \in {"absent", "v1"}
      /\ row = "v1" => blob["v1"].key = Legacy
      /\ row = "absent" => \A v \in Versions : blob[v] = NoBlob
  BY DEF Init, Versions
<1>3. row = "v1" => blob["v1"] # NoBlob
  BY <1>2, VaultKeysAssumption DEF NoBlob
<1>4. row = "absent" => Hollow
  BY <1>1, <1>2 DEF Hollow, NoBlob
<1> QED BY <1>1, <1>2, <1>3, <1>4 DEF NullInv, Reads

\* What can happen to the row and the objects in a step.
LEMMA ServerSteps ==
  ASSUME Inv, [Next]_vars
  PROVE  \/ UNCHANGED <<row, blob>>
         \/ row = "absent" /\ row' = "bare" /\ blob' = blob
         \/ row = "bare" /\ row' \in {"v2", "deleted"} /\ blob' = blob
         \/ \E t \in Tabs : UploadPut(t)
         \/ row \in Versions /\ row' = "v2" /\ blob' = blob /\ blob["v2"] # NoBlob
         \/ /\ row' \in {row, "deleted"} /\ row # "v1"
            /\ blob' \in [Versions -> Blob] /\ blob'["v2"] = blob["v2"]
            /\ \A v \in Versions : blob'[v] \in {blob[v], NoBlob}
         \/ /\ row' = "deleted"
            /\ blob' \in [Versions -> Blob]
            /\ \A v \in Versions : blob'[v] \in {blob[v], NoBlob}
<1>1. blob \in [Versions -> Blob] /\ NoBlob \in Blob
  BY DEF Inv, TypeOK, NoBlob, Blob
<1>2. ASSUME NEW t \in Tabs, CreateVault(t) PROVE row = "absent" /\ row' = "bare" /\ blob' = blob
  BY <1>2 DEF CreateVault
<1>3. ASSUME NEW t \in Tabs, CreateAcl(t)
      PROVE  row = "bare" /\ row' \in {"v2", "deleted"} /\ blob' = blob
  BY <1>3 DEF CreateAcl, Inv, TabsOK, TabOK, Fits
<1>4. ASSUME NEW t \in Tabs, CommitFlip(t)
      PROVE  \/ UNCHANGED <<row, blob>>
             \/ row \in Versions /\ row' = "v2" /\ blob' = blob /\ blob["v2"] # NoBlob
  BY <1>4 DEF CommitFlip, Inv, TabsOK, TabOK, Fits, Owes
<1>5. ASSUME NEW t \in Tabs, CommitSweep(t)
      PROVE  /\ row' = row /\ row # "v1"
             /\ blob' \in [Versions -> Blob] /\ blob'["v2"] = blob["v2"]
             /\ \A v \in Versions : blob'[v] \in {blob[v], NoBlob}
  <2>1. row' = row /\ row # "v1"
    BY <1>5 DEF CommitSweep, Inv, TabsOK, TabOK, Fits
  <2>2. \/ blob' = [v \in Versions |-> IF v \in Superseded(t) THEN NoBlob ELSE blob[v]]
        \/ blob' = blob
    BY <1>5 DEF CommitSweep
  <2>3. "v2" \notin Superseded(t) /\ "v2" \in Versions
    BY DEF Superseded, Versions
  <2> QED BY <1>1, <2>1, <2>2, <2>3
<1>6. ASSUME NEW t \in Tabs, DeleteBatch(t) \/ DeletePurge(t)
      PROVE  /\ row' = "deleted"
             /\ blob' \in [Versions -> Blob]
             /\ \A v \in Versions : blob'[v] \in {blob[v], NoBlob}
  <2>1. CASE DeleteBatch(t)
    BY <1>1, <2>1 DEF DeleteBatch
  <2>2. CASE DeletePurge(t)
    <3>1. row' = "deleted"
      BY <2>2 DEF DeletePurge, Inv, TabsOK, TabOK, Fits
    <3>2. PICK gone : blob' = [v \in Versions |-> IF v \in gone THEN NoBlob ELSE blob[v]]
      BY <2>2 DEF DeletePurge
    <3> QED BY <1>1, <3>1, <3>2
  <2> QED BY <1>6, <2>1, <2>2
<1>7. ASSUME NEW t \in Tabs,
             \/ LookupMember(t) \/ ListMembers(t) \/ DownloadSelect(t) \/ DownloadGet(t)
             \/ ShowEntries(t) \/ StartRescue(t) \/ StartRotate(t) \/ StartGrant(t)
             \/ CannotDecrypt(t) \/ UploadSelect(t) \/ ShareCheck(t) \/ ShareBatch(t)
             \/ CommitCheck(t) \/ Refused(t) \/ SkipMember(t)
             \/ OpenVault(t) \/ SaveVault(t) \/ DeleteVault(t) \/ Reconcile(t)
             \/ Fail(t) \/ Crash(t) \/ Reload(t)
      PROVE  UNCHANGED <<row, blob>>
  BY <1>7 DEF LookupMember, ListMembers, DownloadSelect, DownloadGet, ShowEntries,
     StartRescue, StartRotate, StartGrant, CannotDecrypt, UploadSelect, ShareCheck,
     ShareBatch, CommitCheck, Refused, SkipMember, OpenVault, SaveVault, DeleteVault,
     Reconcile, Fail, Crash, Reload, server
<1>8. ASSUME NEW t \in Tabs, NEW u \in Users, AddMember(t, u) \/ RemoveMember(t, u)
      PROVE  UNCHANGED <<row, blob>>
  BY <1>8 DEF AddMember, RemoveMember
<1>9. ASSUME NEW u \in Users, Upgrade(u) PROVE UNCHANGED <<row, blob>>
  BY <1>9 DEF Upgrade
<1>10. UNCHANGED vars => UNCHANGED <<row, blob>>
  BY DEF vars
<1> QED BY <1>2, <1>3, <1>4, <1>5, <1>6, <1>7, <1>8, <1>9, <1>10 DEF Next, Continue

\* A tab that goes from r to x without reading an object brings no entries along
\* that it had not, and does not begin to stand where a download does.
Quiet(r, x) ==
  /\ x.view = "full" => r.view = "full" \/ r.got.full
  /\ x.got.full => r.view = "full" \/ r.got.full
  /\ x.pc \in {"get", "share"} => x = r

\* The step of a flow that carries on with what it has.
Brings(r, x) ==
  x.view = r.view /\ x.got = r.got /\ x.pc \notin {"get", "share"}

LEMMA QuietDone ==
  ASSUME NEW r \in Tab, NEW x \in Tab, x.view = r.view \/ x.view \in {"none", "empty"}
                                         \/ x.view = Entries(r.got)
  PROVE  Quiet(r, Done(x))
<1>1. Done(x).pc = "idle" /\ Done(x).view = x.view /\ Done(x).got = NoBlob
  BY DEF Done, Tab
<1> QED BY <1>1 DEF Quiet, Entries, NoBlob

LEMMA QuietAborted ==
  ASSUME NEW r \in Tab, NEW x \in Tab, x.view = r.view, x.got = r.got
  PROVE  Quiet(r, Aborted(x))
<1>1. Aborted(x).pc \in {"idle", "delete", "share_check"}
  BY AbortedType
<1>2. CASE x.goal = "rescue"
  <2> DEFINE y == [x EXCEPT !.view = Entries(x.got)]
  <2>1. y \in Tab /\ y.view = Entries(r.got)
    BY DEF Tab, Entries
  <2>2. Aborted(x) = Done(y)
    BY <1>2 DEF Aborted
  <2> HIDE DEF y
  <2> QED BY <2>1, <2>2, QuietDone
<1>3. CASE x.goal # "rescue"
  <2>1. \/ Aborted(x) = Done(x)
        \/ Aborted(x) = [Done(x) EXCEPT !.pc = "delete", !.goal = "delete"]
        \/ Aborted(x) = [x EXCEPT !.pc = "share_check", !.to = {}]
    BY <1>3 DEF Aborted
  <2>2. Done(x) \in Tab /\ Done(x).view = x.view /\ Done(x).got = NoBlob
    <3>1. Done(x).view = x.view /\ Done(x).got = NoBlob
      BY DEF Done, Tab
    <3> QED BY <3>1, DoneType
  <2>3. Aborted(x).view = x.view /\ Aborted(x).got \in {x.got, NoBlob}
    <3> PICK d : d = Done(x)
      OBVIOUS
    <3> QED BY <2>1, <2>2 DEF Tab
  <2> QED BY <1>1, <2>3 DEF Quiet, NoBlob
<1> QED BY <1>2, <1>3

LEMMA TabMoves ==
  ASSUME Inv, [Next]_vars, NEW o \in Tabs
  PROVE  Quiet(tab[o], tab'[o]) \/ DownloadSelect(o) \/ DownloadGet(o)
<1>1. tab \in [Tabs -> Tab]
  BY DEF Inv, TypeOK
<1>2. Quiet(tab[o], tab[o])
  BY DEF Quiet
<1>3. UNCHANGED tab => Quiet(tab[o], tab'[o])
  BY <1>2
<1>4. ASSUME NEW t \in Tabs, NEW x, Become(t, x), Quiet(tab[t], x)
      PROVE  Quiet(tab[o], tab'[o])
  BY <1>1, <1>2, <1>4 DEF Become
<1>5. ASSUME NEW t \in Tabs, NEW x, Become(t, x), Brings(tab[t], x)
      PROVE  Quiet(tab[o], tab'[o])
  BY <1>4, <1>5 DEF Quiet, Brings
<1>6. ASSUME NEW t \in Tabs, NEW x \in Tab, Become(t, Done(x)),
             x.view = tab[t].view \/ x.view \in {"none", "empty"} \/ x.view = Entries(tab[t].got)
      PROVE  Quiet(tab[o], tab'[o])
  BY <1>1, <1>4, <1>6, QuietDone
<1>7. ASSUME NEW t \in Tabs, NEW x \in Tab, Become(t, Aborted(x)),
             x.view = tab[t].view, x.got = tab[t].got
      PROVE  Quiet(tab[o], tab'[o])
  BY <1>1, <1>4, <1>7, QuietAborted
<1>8. ASSUME NEW t \in Tabs, Become(t, Done(tab[t])) \/ Become(t, Aborted(tab[t]))
      PROVE  Quiet(tab[o], tab'[o])
  BY <1>1, <1>6, <1>7, <1>8
<1>9. ASSUME NEW t \in Tabs, OpenVault(t) \/ SaveVault(t) \/ CreateVault(t) \/ DeleteVault(t)
                             \/ Reconcile(t)
      PROVE  Quiet(tab[o], tab'[o])
  <2>1. tab[t] \in Tab
    BY <1>1
  <2>2. CASE OpenVault(t)
    <3> DEFINE x == [tab[t] EXCEPT !.pc = "select", !.goal = "open"]
    <3>1. Become(t, x)
      BY <2>2 DEF OpenVault
    <3>2. Brings(tab[t], x)
      BY <2>1 DEF Tab, Brings
    <3> QED BY <1>5, <3>1, <3>2
  <2>3. CASE CreateVault(t)
    <3> DEFINE x == [tab[t] EXCEPT !.pc = "acl", !.goal = "create"]
    <3>1. Become(t, x)
      BY <2>3 DEF CreateVault
    <3>2. Brings(tab[t], x)
      BY <2>1 DEF Tab, Brings
    <3> QED BY <1>5, <3>1, <3>2
  <2>4. CASE DeleteVault(t)
    <3> DEFINE x == [tab[t] EXCEPT !.pc = "delete", !.goal = "delete"]
    <3>1. Become(t, x)
      BY <2>4 DEF DeleteVault
    <3>2. Brings(tab[t], x)
      BY <2>1 DEF Tab, Brings
    <3> QED BY <1>5, <3>1, <3>2
  <2>5. CASE Reconcile(t)
    <3> DEFINE x == [tab[t] EXCEPT !.pc = "select", !.goal = "grant", !.list = Missing]
    <3>1. Become(t, x)
      BY <2>5 DEF Reconcile
    <3>2. Brings(tab[t], x)
      BY <2>1 DEF Tab, Brings
    <3> QED BY <1>5, <3>1, <3>2
  <2>6. CASE SaveVault(t)
    <3> DEFINE x == [tab[t] EXCEPT !.pc = "put_select", !.goal = "save",
                       !.fresh = tab[t].cached,
                       !.got = [key |-> tab[t].cached, full |-> tab[t].view = "full"]]
    <3>1. Become(t, x)
      BY <2>6 DEF SaveVault
    <3>2. Quiet(tab[t], x)
      BY <2>1 DEF Quiet, Tab
    <3> QED BY <1>4, <3>1, <3>2
  <2> QED BY <1>9, <2>2, <2>3, <2>4, <2>5, <2>6
<1>10. ASSUME NEW t \in Tabs, NEW u \in Users, AddMember(t, u) \/ RemoveMember(t, u)
       PROVE  Quiet(tab[o], tab'[o])
  <2>1. tab[t] \in Tab
    BY <1>1
  <2>2. CASE AddMember(t, u)
    <3> DEFINE x == [tab[t] EXCEPT !.pc = "lookup", !.goal = "grant", !.list = {u}]
    <3>1. Become(t, x)
      BY <2>2 DEF AddMember
    <3>2. Brings(tab[t], x)
      BY <2>1 DEF Tab, Brings
    <3> QED BY <1>5, <3>1, <3>2
  <2>3. CASE RemoveMember(t, u) /\ row \in Versions
    <3> DEFINE x == [tab[t] EXCEPT !.pc = "members", !.goal = "rotate"]
    <3>1. Become(t, x)
      BY <2>3 DEF RemoveMember
    <3>2. Brings(tab[t], x)
      BY <2>1 DEF Tab, Brings
    <3> QED BY <1>5, <3>1, <3>2
  <2>4. CASE RemoveMember(t, u) /\ row \notin Versions
    BY <1>3, <2>4 DEF RemoveMember
  <2> QED BY <1>10, <2>2, <2>3, <2>4
<1>11. ASSUME NEW t \in Tabs, CreateAcl(t) \/ LookupMember(t) \/ ListMembers(t)
      PROVE  Quiet(tab[o], tab'[o])
  <2>1. tab[t] \in Tab
    BY <1>1
  <2>2. CASE CreateAcl(t) /\ ~Become(t, Aborted(tab[t]))
    <3> DEFINE x == [tab[t] EXCEPT !.pc = "members"]
    <3>1. Become(t, x)
      BY <2>2 DEF CreateAcl
    <3>2. Brings(tab[t], x)
      BY <2>1 DEF Tab, Brings
    <3> QED BY <1>5, <3>1, <3>2
  <2>3. CASE LookupMember(t) /\ ~Become(t, Done(tab[t]))
    <3> DEFINE x == [tab[t] EXCEPT !.pc = "select"]
    <3>1. Become(t, x)
      BY <2>3 DEF LookupMember
    <3>2. Brings(tab[t], x)
      BY <2>1 DEF Tab, Brings
    <3> QED BY <1>5, <3>1, <3>2
  <2>4. CASE ListMembers(t)
    <3>1. CASE ListMembers(t) /\ tab[t].goal = "create"
      <4> PICK k : Become(t, [tab[t] EXCEPT !.pc = "share_check", !.fresh = k,
                                  !.list = Keyed \union {UserOf[t]}])
        BY <3>1 DEF ListMembers
      <4> DEFINE x == [tab[t] EXCEPT !.pc = "share_check", !.fresh = k,
                             !.list = Keyed \union {UserOf[t]}]
      <4>1. Become(t, x)
        BY <3>1 DEF ListMembers
      <4>2. Brings(tab[t], x)
        BY <2>1 DEF Tab, Brings
      <4> QED BY <1>5, <4>1, <4>2
    <3>2. CASE ListMembers(t) /\ tab[t].goal = "rescue"
      <4> DEFINE x == [tab[t] EXCEPT !.pc = "share_check", !.list = Keyed]
      <4>1. Become(t, x)
        BY <3>2 DEF ListMembers
      <4>2. Brings(tab[t], x)
        BY <2>1 DEF Tab, Brings
      <4> QED BY <1>5, <4>1, <4>2
    <3>3. CASE ListMembers(t) /\ tab[t].goal = "rotate"
      <4> DEFINE x == [tab[t] EXCEPT !.pc = "select", !.list = Keyed]
      <4>1. Become(t, x)
        BY <3>3 DEF ListMembers
      <4>2. Brings(tab[t], x)
        BY <2>1 DEF Tab, Brings
      <4> QED BY <1>5, <4>1, <4>2
    <3> QED BY <2>4, <3>1, <3>2, <3>3 DEF ListMembers
  <2> QED BY <1>8, <1>11, <2>2, <2>3, <2>4
<1>12. ASSUME NEW t \in Tabs, ShowEntries(t) \/ CannotDecrypt(t)
       PROVE  Quiet(tab[o], tab'[o])
  <2>1. tab[t] \in Tab /\ KeyFor(t) \in Keys \union {NoKey}
    BY <1>1, KeyForType DEF Inv
  <2>2. CASE ShowEntries(t)
    <3> DEFINE x == [tab[t] EXCEPT !.cached = KeyFor(t),
                       !.view = IF OpensEmpty(t) THEN "empty" ELSE Entries(tab[t].got)]
    <3>1. x \in Tab /\ x.view \in {"empty", Entries(tab[t].got)}
      BY <2>1 DEF Tab, Entries
    <3>2. Become(t, Done(x))
      BY <2>2 DEF ShowEntries
    <3> HIDE DEF x
    <3> QED BY <1>6, <3>1, <3>2
  <2>3. CASE CannotDecrypt(t)
    <3> DEFINE x == [tab[t] EXCEPT !.cached = NoKey, !.view = "none"]
    <3>1. x \in Tab /\ x.view = "none"
      BY <2>1 DEF Tab
    <3>2. Become(t, Done(tab[t])) \/ Become(t, Done(x))
      BY <2>3 DEF CannotDecrypt
    <3> HIDE DEF x
    <3> QED BY <1>6, <1>8, <3>1, <3>2
  <2> QED BY <1>12, <2>2, <2>3
<1>13. ASSUME NEW t \in Tabs, StartRescue(t) \/ StartRotate(t) \/ StartGrant(t)
      PROVE  Quiet(tab[o], tab'[o])
  <2>1. tab[t] \in Tab
    BY <1>1
  <2>2. CASE StartRescue(t)
    <3> PICK k : Become(t, [tab[t] EXCEPT !.pc = "put_select", !.goal = "rescue",
                                !.cached = KeyFor(t), !.fresh = k])
      BY <2>2 DEF StartRescue
    <3> DEFINE x == [tab[t] EXCEPT !.pc = "put_select", !.goal = "rescue",
                       !.cached = KeyFor(t), !.fresh = k]
    <3>1. Become(t, x)
      BY <2>2 DEF StartRescue
    <3>2. Brings(tab[t], x)
      BY <2>1 DEF Tab, Brings
    <3> QED BY <1>5, <3>1, <3>2
  <2>3. CASE StartRotate(t)
    <3> PICK k : Become(t, [tab[t] EXCEPT !.pc = "put_select", !.cached = KeyFor(t),
                                !.fresh = k])
      BY <2>3 DEF StartRotate
    <3> DEFINE x == [tab[t] EXCEPT !.pc = "put_select", !.cached = KeyFor(t), !.fresh = k]
    <3>1. Become(t, x)
      BY <2>3 DEF StartRotate
    <3>2. Brings(tab[t], x)
      BY <2>1 DEF Tab, Brings
    <3> QED BY <1>5, <3>1, <3>2
  <2>4. CASE StartGrant(t)
    <3> DEFINE x == [tab[t] EXCEPT !.pc = "share_check", !.cached = KeyFor(t),
                       !.fresh = KeyFor(t), !.got = NoBlob]
    <3>1. Become(t, Done(tab[t])) \/ Become(t, x)
      BY <2>4 DEF StartGrant
    <3>2. Quiet(tab[t], x)
      BY <2>1 DEF Quiet, Tab, NoBlob
    <3> HIDE DEF x
    <3> QED BY <1>4, <1>8, <3>1, <3>2
  <2> QED BY <1>13, <2>2, <2>3, <2>4
<1>14. ASSUME NEW t \in Tabs, UploadSelect(t) \/ UploadPut(t) \/ ShareCheck(t) \/ ShareBatch(t)
      PROVE  Quiet(tab[o], tab'[o])
  <2>1. tab[t] \in Tab
    BY <1>1
  <2>2. CASE UploadSelect(t)
    <3> DEFINE x == [tab[t] EXCEPT !.pc = "put", !.ver = TargetVersion(t)]
    <3>1. Become(t, x)
      BY <2>2 DEF UploadSelect
    <3>2. Brings(tab[t], x)
      BY <2>1 DEF Tab, Brings
    <3> QED BY <1>5, <3>1, <3>2
  <2>3. CASE UploadPut(t)
    <3>1. CASE UploadPut(t) /\ tab[t].goal = "rescue"
      <4> DEFINE x == [tab[t] EXCEPT !.pc = "members"]
      <4>1. Become(t, x)
        BY <3>1 DEF UploadPut
      <4>2. Brings(tab[t], x)
        BY <2>1 DEF Tab, Brings
      <4> QED BY <1>5, <4>1, <4>2
    <3>2. CASE UploadPut(t) /\ tab[t].goal = "rotate"
      <4> DEFINE x == [tab[t] EXCEPT !.pc = "share_check"]
      <4>1. Become(t, x)
        BY <3>2 DEF UploadPut
      <4>2. Brings(tab[t], x)
        BY <2>1 DEF Tab, Brings
      <4> QED BY <1>5, <4>1, <4>2
    <3>3. CASE tab[t].goal \notin {"rescue", "rotate"}
      BY <1>8, <2>3, <3>3 DEF UploadPut
    <3> QED BY <2>3, <3>1, <3>2, <3>3
  <2>4. CASE ShareCheck(t)
    <3> PICK to : Become(t, [tab[t] EXCEPT !.pc = "share_batch", !.to = to,
                                 !.list = tab[t].list \ to])
      BY <2>4 DEF ShareCheck
    <3> DEFINE x == [tab[t] EXCEPT !.pc = "share_batch", !.to = to,
                       !.list = tab[t].list \ to]
    <3>1. Become(t, x)
      BY <2>4 DEF ShareCheck
    <3>2. Brings(tab[t], x)
      BY <2>1 DEF Tab, Brings
    <3> QED BY <1>5, <3>1, <3>2
  <2>5. CASE ShareBatch(t)
    <3>1. CASE ShareBatch(t) /\ tab[t].goal = "grant" /\ tab[t].list # {}
      <4> DEFINE x == [tab[t] EXCEPT !.pc = "share_check", !.to = {}]
      <4>1. Become(t, x)
        BY <3>1 DEF ShareBatch
      <4>2. Brings(tab[t], x)
        BY <2>1 DEF Tab, Brings
      <4> QED BY <1>5, <4>1, <4>2
    <3>2. CASE ShareBatch(t) /\ tab[t].goal = "create"
      <4> DEFINE x == [tab[t] EXCEPT !.pc = "put_select", !.cached = tab[t].fresh, !.to = {}]
      <4>1. Become(t, x)
        BY <3>2 DEF ShareBatch
      <4>2. Brings(tab[t], x)
        BY <2>1 DEF Tab, Brings
      <4> QED BY <1>5, <4>1, <4>2
    <3>3. CASE ShareBatch(t) /\ tab[t].goal \notin {"grant", "create"}
      <4> DEFINE x == [tab[t] EXCEPT !.pc = "commit", !.to = {}]
      <4>1. Become(t, x)
        BY <3>3 DEF ShareBatch
      <4>2. Brings(tab[t], x)
        BY <2>1 DEF Tab, Brings
      <4> QED BY <1>5, <4>1, <4>2
    <3>4. CASE tab[t].goal = "grant" /\ tab[t].list = {}
      BY <1>8, <2>5, <3>4 DEF ShareBatch
    <3> QED BY <2>5, <3>1, <3>2, <3>3, <3>4
  <2> QED BY <1>14, <2>2, <2>3, <2>4, <2>5
<1>15. ASSUME NEW t \in Tabs, CommitCheck(t) \/ CommitFlip(t) \/ DeleteBatch(t) \/ DeletePurge(t)
      PROVE  Quiet(tab[o], tab'[o])
  <2>1. tab[t] \in Tab
    BY <1>1
  <2>2. CASE CommitCheck(t)
    <3> DEFINE x == [tab[t] EXCEPT !.pc = "flip", !.ver = row]
    <3>1. Become(t, x)
      BY <2>2 DEF CommitCheck
    <3>2. Brings(tab[t], x)
      BY <2>1 DEF Tab, Brings
    <3> QED BY <1>5, <3>1, <3>2
  <2>3. CASE CommitFlip(t)
    <3> DEFINE x == [tab[t] EXCEPT !.pc = "sweep"]
    <3>1. Become(t, x)
      BY <2>3 DEF CommitFlip
    <3>2. Brings(tab[t], x)
      BY <2>1 DEF Tab, Brings
    <3> QED BY <1>5, <3>1, <3>2
  <2>4. CASE DeleteBatch(t)
    <3> DEFINE x == [tab[t] EXCEPT !.pc = "purge"]
    <3>1. Become(t, x)
      BY <2>4 DEF DeleteBatch
    <3>2. Brings(tab[t], x)
      BY <2>1 DEF Tab, Brings
    <3> QED BY <1>5, <3>1, <3>2
  <2>5. CASE DeletePurge(t)
    BY <1>8, <2>5 DEF DeletePurge
  <2> QED BY <1>15, <2>2, <2>3, <2>4, <2>5
<1>16. ASSUME NEW t \in Tabs, CommitSweep(t) PROVE Quiet(tab[o], tab'[o])
  <2> DEFINE x == [tab[t] EXCEPT !.cached = tab[t].fresh,
                     !.view = IF tab[t].goal = "rescue" THEN Entries(tab[t].got)
                              ELSE tab[t].view]
  <2>1. x \in Tab /\ x.view \in {tab[t].view, Entries(tab[t].got)}
    <3>1. tab[t] \in Tab
      BY <1>1
    <3> QED BY <3>1 DEF Tab, Entries
  <2>2. Become(t, Done(x))
    BY <1>16 DEF CommitSweep
  <2> HIDE DEF x
  <2> QED BY <1>6, <2>1, <2>2
<1>17. ASSUME NEW t \in Tabs, Refused(t) \/ Fail(t) \/ SkipMember(t)
       PROVE  Quiet(tab[o], tab'[o])
  <2>1. tab[t] \in Tab
    BY <1>1
  <2>2. CASE Refused(t) \/ Fail(t)
    BY <1>8, <2>2 DEF Refused, Fail
  <2>3. CASE SkipMember(t)
    <3>1. PICK m \in Users : Become(t, Aborted([tab[t] EXCEPT !.list = tab[t].list \ {m}]))
      <4>1. tab[t].list \subseteq Users
        BY <2>1 DEF Tab
      <4> QED BY <2>3, <4>1 DEF SkipMember
    <3> DEFINE x == [tab[t] EXCEPT !.list = tab[t].list \ {m}]
    <3>2. x \in Tab /\ x.view = tab[t].view /\ x.got = tab[t].got
      BY <2>1 DEF Tab
    <3> HIDE DEF x
    <3> QED BY <1>7, <3>1, <3>2 DEF x
  <2> QED BY <1>17, <2>2, <2>3
<1>18. ASSUME NEW t \in Tabs, Crash(t) \/ Reload(t) PROVE Quiet(tab[o], tab'[o])
  <2>1. Quiet(tab[t], NewTab)
    BY DEF Quiet, NewTab, NoBlob
  <2> QED BY <1>4, <1>18, <2>1 DEF Crash, Reload
<1>19. ASSUME NEW t \in Tabs, DownloadSelect(t) \/ DownloadGet(t), t # o
       PROVE  Quiet(tab[o], tab'[o])
  BY <1>1, <1>2, <1>19 DEF DownloadSelect, DownloadGet, Become
<1>20. (\E u \in Users : Upgrade(u)) \/ UNCHANGED vars => UNCHANGED tab
  BY DEF Upgrade, vars
<1>21. CASE \E t \in Tabs : Continue(t)
  BY <1>11, <1>12, <1>13, <1>14, <1>15, <1>16, <1>17, <1>19, <1>21 DEF Continue
<1> QED BY <1>3, <1>9, <1>10, <1>17, <1>18, <1>20, <1>21 DEF Next

\* Entries that are nowhere do not come back.
LEMMA HollowStays ==
  ASSUME Inv, [Next]_vars, Hollow
  PROVE  Hollow'
<1>1. ASSUME NEW v \in Versions PROVE ~blob'[v].full
  <2>1. CASE \E t \in Tabs : UploadPut(t)
    <3>1. PICK t \in Tabs : UploadPut(t)
      BY <2>1
    <3> PICK x : x = [key |-> tab[t].fresh, full |-> tab[t].got.full]
      OBVIOUS
    <3>2. blob'[v] = blob[v] \/ blob'[v] = x
      BY <3>1 DEF UploadPut, Inv, TypeOK
    <3>3. ~x.full
      BY DEF Hollow
    <3> QED BY <3>2, <3>3 DEF Hollow
  <2>2. CASE blob'[v] \in {blob[v], NoBlob}
    BY <2>2 DEF Hollow, NoBlob
  <2> QED BY <2>1, <2>2, ServerSteps
<1>2. ASSUME NEW o \in Tabs PROVE tab'[o].view # "full" /\ ~tab'[o].got.full
  <2>1. CASE Quiet(tab[o], tab'[o])
    BY <2>1 DEF Quiet, Hollow
  <2>2. CASE DownloadSelect(o)
    <3>1. tab[o] \in Tab
      BY DEF Inv, TypeOK
    <3>2. tab'[o].view = tab[o].view /\ tab'[o].got = tab[o].got
      BY <2>2, <3>1 DEF DownloadSelect, Become, Inv, TypeOK, Tab
    <3> QED BY <3>2 DEF Hollow
  <2>3. CASE DownloadGet(o)
    <3>1. tab[o] \in Tab /\ tab[o].ver \in Versions
      BY <2>3 DEF DownloadGet, Inv, TypeOK, TabsOK, TabOK, Fits
    <3>2. tab'[o].view = tab[o].view /\ tab'[o].got = blob[tab[o].ver]
      BY <2>3, <3>1 DEF DownloadGet, Become, Inv, TypeOK, Tab
    <3> QED BY <3>1, <3>2 DEF Hollow
  <2> QED BY <2>1, <2>2, <2>3, TabMoves
<1> QED BY <1>1, <1>2 DEF Hollow

\* A row of the vault changes to no version but the second, and never back.
LEMMA RowSteps ==
  ASSUME Inv, NullInv, [Next]_vars
  PROVE  /\ row' \in {"absent", "bare"} => row \in {"absent", "bare"}
         /\ row' = "v1" => row = "v1" /\ blob'["v1"] # NoBlob
         /\ row' = "v2" /\ blob'["v2"] = NoBlob => Hollow
         /\ row = "v1" => row' \in {"v1", "v2", "deleted"}
         /\ row = "v2" => row' \in {"v2", "deleted"}
         /\ row = "deleted" => row' = "deleted"
<1>1. ASSUME NEW t \in Tabs, UploadPut(t)
      PROVE  row' = row /\ \A v \in Versions : blob'[v] = blob[v] \/ blob'[v] # NoBlob
  <2>1. tab[t].fresh # NoKey /\ row' = row
    BY <1>1 DEF UploadPut, Inv, TabsOK, TabOK, Fits
  <2> PICK x : x = [key |-> tab[t].fresh, full |-> tab[t].got.full]
    OBVIOUS
  <2>2. x # NoBlob
    BY <2>1 DEF NoBlob
  <2>3. ASSUME NEW v \in Versions PROVE blob'[v] = blob[v] \/ blob'[v] = x
    BY <1>1 DEF UploadPut, Inv, TypeOK
  <2> QED BY <2>1, <2>2, <2>3
<1> QED BY <1>1, ServerSteps DEF NullInv, Versions

LEMMA NextNull == Inv /\ NullInv /\ [Next]_vars => NullInv'
<1> SUFFICES ASSUME Inv, NullInv, [Next]_vars PROVE NullInv'
  OBVIOUS
<1>1. Hollow => Hollow'
  BY HollowStays
<1>2. ASSUME NEW o \in Tabs PROVE Reads(tab[o], row, Hollow)'
  <2>1. Reads(tab[o], row, Hollow) /\ tab[o] \in Tab
    BY DEF NullInv, Inv, TypeOK
  <2>2. CASE Quiet(tab[o], tab'[o])
    <3>1. CASE tab'[o] = tab[o]
      <4>1. tab[o].pc = "get" => tab[o].ver \in Versions
        BY DEF Inv, TabsOK, TabOK, Fits
      <4> QED BY <1>1, <2>1, <3>1, <4>1, RowSteps DEF Reads, Overtaken, Versions, NullInv
    <3>2. CASE tab'[o].pc \notin {"get", "share"}
      BY <3>2 DEF Reads
    <3> QED BY <2>2, <3>1, <3>2 DEF Quiet
  <2>3. CASE DownloadSelect(o)
    <3>1. tab'[o].pc = "get" /\ tab'[o].ver = row /\ row' = row
      BY <2>1, <2>3 DEF DownloadSelect, ServedVersion, Become, Inv, TypeOK, Tab, server
    <3> QED BY <3>1 DEF Reads
  <2>4. CASE DownloadGet(o)
    <3>1. /\ tab'[o].pc = "share" /\ tab'[o].got = blob[tab[o].ver]
          /\ tab'[o].ver = tab[o].ver /\ row' = row /\ tab[o].pc = "get"
      BY <2>1, <2>4 DEF DownloadGet, Become, Inv, TypeOK, Tab, server
    <3>2. tab[o].ver \in Versions
      BY <3>1 DEF Inv, TabsOK, TabOK, Fits
    <3>3. blob[tab[o].ver] = NoBlob /\ tab[o].ver = row => Hollow
      BY <3>2 DEF NullInv, Versions
    <3> QED BY <1>1, <2>1, <3>1, <3>3 DEF Reads, Overtaken
  <2> QED BY <2>2, <2>3, <2>4, TabMoves
<1>3. /\ row' \in {"absent", "bare"} => Hollow'
      /\ row' = "v1" => blob'["v1"] # NoBlob
      /\ row' = "v2" /\ blob'["v2"] = NoBlob => Hollow'
  BY <1>1, RowSteps DEF NullInv
<1> QED BY <1>2, <1>3 DEF NullInv

\* A download takes a vault with entries for empty in no other case than that of a
\* commit between its two reads, whoever stages, commits, sweeps, crashes or fails.
THEOREM NullIsOvertaken == Spec => []NullOnlyWhenOvertaken
<1>1. NullInv => NullOnlyWhenOvertaken
  <2> SUFFICES ASSUME NullInv, NEW t \in Tabs, tab[t].pc = "share", tab[t].got = NoBlob, Live.full
               PROVE  Overtaken(tab[t], row)
    BY DEF NullOnlyWhenOvertaken, Overtaken
  <2>1. row \in Versions /\ blob[row].full
    BY DEF Live, NoBlob
  <2>2. ~Hollow /\ row # "deleted"
    BY <2>1 DEF Hollow, Versions
  <2> QED BY <2>2 DEF NullInv, Reads
<1> QED BY <1>1, InitNull, NextNull, Invariance, PTL DEF Spec

-----------------------------------------------------------------------------
(* The promise: its inductive invariant.                                   *)

\* The hypotheses of the promise.
Orderly ==
  /\ Serial
  /\ Removers = {}
  /\ "fail" \notin Faults
  /\ \A s, t \in Tabs : UserOf[s] = LegacyOwner /\ UserOf[t] = LegacyOwner => s = t

\* The contents from before the upgrade.
Old == [key |-> Legacy, full |-> TRUE]

\* The awaits of each flow; a rotation has none, as nobody is removed.
InFlow(r) ==
  /\ r.goal = "none" => r.pc = "idle"
  /\ r.goal = "open" => r.pc \in {"select", "get", "share"}
  /\ r.goal = "grant" =>
       r.pc \in {"lookup", "select", "get", "share", "share_check", "share_batch"}
  /\ r.goal = "save" => r.pc \in {"put_select", "put"}
  /\ r.goal = "delete" => r.pc \in {"delete", "purge"}
  /\ r.goal = "create" =>
       r.pc \in {"acl", "members", "share_check", "share_batch", "put_select", "put"}
  /\ r.goal = "rescue" =>
       r.pc \in {"put_select", "put", "members", "share_check", "share_batch",
                 "commit", "flip", "sweep"}
  /\ r.goal # "rotate"

\* What the tab of user u knows, whatever the row w says: it is at an await of
\* its flow, it wraps for members only and for itself when it replaces the
\* shares, and nothing has overtaken its request since it read the version.
Placed(r, u, w, m) ==
  /\ InFlow(r)
  /\ r.goal = "rescue" => u = LegacyOwner
  /\ r.goal \in {"none", "create"} => r.got = NoBlob
  /\ r.list \subseteq m /\ r.to \subseteq m
  /\ r.goal \in {"rescue", "create"} =>
       /\ r.pc = "share_check" => u \in r.list
       /\ r.pc = "share_batch" => u \in r.to
  /\ r.pc \in {"get", "put", "share_batch", "flip"} => w \in Versions
  /\ r.pc = "get" => r.ver = w
  /\ r.pc = "share" /\ r.got.key = NoKey => ~r.got.full
  /\ r.pc = "put" => r.ver = (IF r.goal = "save" THEN w ELSE "v2")

\* A tab while the vault is not there yet.
Before(r) ==
  /\ r.view = "none" /\ r.cached = NoKey
  /\ r.pc \in {"idle", "lookup", "select", "acl"}

\* A tab while the pre-upgrade contents are live: it shows nothing, only the
\* creator's tab can hold or wrap a key, and a rescue that has written has its
\* object, then its shares, in place.
Staged(r, u, b, sh) ==
  /\ r.view = "none"
  /\ r.goal \notin {"save", "create"}
  /\ u # LegacyOwner => r.cached = NoKey /\ r.pc \notin {"share_check", "share_batch"}
  /\ r.pc = "share" => r.got = Old
  /\ r.goal = "rescue" =>
       /\ r.pc # "sweep"
       /\ r.got.full
       /\ r.pc \notin {"put_select", "put"} => b["v2"] = [key |-> r.fresh, full |-> TRUE]
       /\ r.pc \in {"commit", "flip"} =>
            sh[u] = r.fresh /\ \A x \in Users : sh[x] \in {NoKey, r.fresh}

Writes(r) == r.pc \in {"put_select", "put", "sweep"}
Wraps(r) == r.goal = "grant" /\ r.pc \in {"share_check", "share_batch"}

\* A tab once the vault is under the key k (none yet, if k is NoKey): the key it
\* caches, writes with or wraps is k, and what it has in hand or shows is as
\* full as what is stored.
Agrees(r, u, b, k) ==
  /\ r.goal = "rescue" => r.pc = "sweep"
  /\ r.goal # "rescue" => r.cached \in {NoKey, k}
  /\ r.goal = "create" /\ ~Writes(r) => k = NoKey
  /\ Writes(r) \/ Wraps(r) => r.fresh = k
  /\ Writes(r) => r.got.full = b["v2"].full
  /\ r.pc = "share" => \/ r.got.key = Legacy /\ u # LegacyOwner
                       \/ r.got.key \in {NoKey, k} /\ r.got.full = b["v2"].full
  /\ r.view = "full" => b["v2"].full
  /\ r.view = "empty" => ~b["v2"].full

\* Shares, stored object and tabs have no key but k, and some member holds it.
OneKey(k) ==
  /\ \A u \in Users : share[u] \in {NoKey, k}
  /\ blob["v2"].key \in {NoKey, k}
  /\ k # NoKey => \E u \in members : share[u] = k
  /\ \A t \in Tabs : Agrees(tab[t], UserOf[t], blob, k)

\* The creator stays a member with a public key; nobody else has a share.
Membership ==
  /\ LegacyOwner \in members /\ LegacyOwner \in upgraded
  /\ \A u \in Users \ members : share[u] = NoKey

\* An object without a key is no object.
Objects == \A v \in Versions : blob[v].key = NoKey => ~blob[v].full

OneRequest ==
  \A t, o \in Tabs : tab[t].pc \in MidRequest /\ tab[o].pc \in MidRequest => t = o

OneCreator ==
  \A t, o \in Tabs : tab[t].goal = "create" /\ tab[o].goal = "create" => t = o

AllPlaced == \A t \in Tabs : Placed(tab[t], UserOf[t], row, members)

NothingYet ==
  row \in {"absent", "bare"} =>
    /\ \A v \in Versions : blob[v] = NoBlob
    /\ \A t \in Tabs : Before(tab[t])

OldLive ==
  row = "v1" =>
    /\ blob["v1"] = Old
    /\ \A t \in Tabs : Staged(tab[t], UserOf[t], blob, share)

NewLive == row = "v2" => \E k \in Keys \union {NoKey} : OneKey(k)

\* The inductive invariant, on top of Inv.
RescueInv ==
  /\ Membership /\ Objects /\ OneRequest /\ OneCreator /\ AllPlaced
  /\ NothingYet /\ OldLive /\ NewLive

-----------------------------------------------------------------------------
(* Initially.                                                              *)

\* It holds before anything has happened.
LEMMA InitRescue == Init => RescueInv
<1> SUFFICES ASSUME Init PROVE RescueInv
  OBVIOUS
<1> USE VaultKeysAssumption
<1>1. \A t \in Tabs : /\ tab[t].pc = "idle" /\ tab[t].goal = "none" /\ tab[t].got = NoBlob
                      /\ tab[t].list = {} /\ tab[t].to = {} /\ tab[t].view = "none"
                      /\ tab[t].cached = NoKey
  BY DEF Init, NewTab
<1>2. Membership /\ Objects
  BY DEF Init, Membership, Objects, NoBlob
<1>3. OneRequest /\ OneCreator
  BY <1>1 DEF OneRequest, OneCreator, MidRequest
<1>4. AllPlaced
  BY <1>1 DEF AllPlaced, Placed, InFlow
<1>5. NothingYet
  BY <1>1 DEF NothingYet, Before, Init, Versions
<1>6. OldLive
  BY <1>1 DEF OldLive, Staged, Init, Old, Versions
<1>7. NewLive
  BY DEF NewLive, Init
<1> QED BY <1>2, <1>3, <1>4, <1>5, <1>6, <1>7 DEF RescueInv

-----------------------------------------------------------------------------
(* Steps that change a tab and nothing else it could notice.               *)

\* What the invariant asks of a state r of tab t while the server is as it is.
TabFits(t, r) ==
  /\ Placed(r, UserOf[t], row, members)
  /\ row \in {"absent", "bare"} => Before(r)
  /\ row = "v1" => Staged(r, UserOf[t], blob, share)
  /\ row = "v2" => \A k \in Keys \union {NoKey} :
                     OneKey(k) => Agrees(r, UserOf[t], blob, k)

\* A tab is in such a state.
LEMMA TabsFit ==
  ASSUME RescueInv, NEW t \in Tabs
  PROVE  TabFits(t, tab[t])
BY DEF RescueInv, AllPlaced, NothingYet, OldLive, OneKey, TabFits

\* Only one request at a time stays so when a tab begins one in its turn.
LEMMA Requests ==
  ASSUME Orderly, TypeOK, OneRequest, NEW t \in Tabs, NEW r, Become(t, r),
         r.pc \in MidRequest => tab[t].pc \in MidRequest \/ Turn(t)
  PROVE  OneRequest'
<1>1. tab'[t] = r /\ \A o \in Tabs \ {t} : tab'[o] = tab[o]
  BY DEF TypeOK, Become
<1>2. SUFFICES ASSUME NEW x \in Tabs, NEW y \in Tabs, x # y,
                      tab'[x].pc \in MidRequest, tab'[y].pc \in MidRequest
               PROVE  FALSE
  BY DEF OneRequest
<1> QED BY <1>1, <1>2 DEF OneRequest, Turn, Orderly

\* Only one tab creates the vault.
LEMMA Creators ==
  ASSUME TypeOK, OneCreator, NEW t \in Tabs, NEW r, Become(t, r),
         r.goal = "create" =>
           tab[t].goal = "create" \/ \A o \in Tabs : tab[o].goal # "create"
  PROVE  OneCreator'
BY DEF TypeOK, OneCreator, Become

\* A step of a tab keeps the invariant when the tab's new state fits.
LEMMA TabKeeps ==
  ASSUME Orderly, Inv, RescueInv, UNCHANGED <<row, blob, share, members, upgraded>>,
         NEW t \in Tabs, NEW r, Become(t, r), TabFits(t, r),
         r.pc \in MidRequest => tab[t].pc \in MidRequest \/ Turn(t),
         r.goal = "create" => tab[t].goal = "create"
  PROVE  RescueInv'
<1>1. tab'[t] = r /\ \A o \in Tabs \ {t} : tab'[o] = tab[o]
  BY DEF Inv, TypeOK, Become
<1>2. OneRequest' /\ OneCreator'
  BY Requests, Creators DEF Inv, RescueInv
<1>3. Membership' /\ Objects'
  BY DEF RescueInv, Membership, Objects
<1>4. AllPlaced'
  BY <1>1 DEF RescueInv, AllPlaced, TabFits
<1>5. NothingYet'
  BY <1>1 DEF RescueInv, NothingYet, TabFits
<1>6. OldLive'
  <2> SUFFICES ASSUME row = "v1" PROVE \A o \in Tabs : Staged(tab'[o], UserOf[o], blob', share')
    BY DEF OldLive, RescueInv
  <2>1. \A o \in Tabs : Staged(tab'[o], UserOf[o], blob, share)
    BY <1>1 DEF RescueInv, OldLive, TabFits
  <2> QED BY <2>1
<1>7. NewLive'
  <2> SUFFICES ASSUME row = "v2" PROVE \E k \in Keys \union {NoKey} : OneKey(k)'
    BY DEF NewLive
  <2>1. PICK k \in Keys \union {NoKey} : OneKey(k)
    BY DEF RescueInv, NewLive
  <2>2. \A o \in Tabs : Agrees(tab'[o], UserOf[o], blob, k)
    BY <1>1, <2>1 DEF OneKey, TabFits
  <2>3. OneKey(k)'
    BY <2>1, <2>2 DEF OneKey
  <2> QED BY <2>3
<1> QED BY <1>2, <1>3, <1>4, <1>5, <1>6, <1>7 DEF RescueInv

-----------------------------------------------------------------------------
(* The steps of a tab on its own.                                          *)

\* What a tab keeps between two flows agrees with what is live.
Keeps(t, r) ==
  /\ row \in {"absent", "bare"} => r.view = "none" /\ r.cached = NoKey
  /\ row = "v1" => r.view = "none" /\ (UserOf[t] # LegacyOwner => r.cached = NoKey)
  /\ row = "v2" => \A k \in Keys \union {NoKey} : OneKey(k) =>
                     /\ r.cached \in {NoKey, k}
                     /\ r.view = "full" => blob["v2"].full
                     /\ r.view = "empty" => ~blob["v2"].full

\* So do the caches of a tab in any flow but a rescue.
LEMMA FitsKeeps ==
  ASSUME NEW t, NEW r, TabFits(t, r), r.goal # "rescue"
  PROVE  Keeps(t, r)
BY DEF TabFits, Keeps, Before, Staged, Agrees

\* A flow that leaves such caches behind leaves a tab that fits.
LEMMA DoneFits ==
  ASSUME NEW t \in Tabs, NEW r \in Tab, Keeps(t, r)
  PROVE  /\ TabFits(t, Done(r))
         /\ Done(r).pc = "idle" /\ Done(r).goal = "none"
<1> DEFINE x == Done(r)
<1>1. /\ x.pc = "idle" /\ x.goal = "none" /\ x.got = NoBlob /\ x.list = {} /\ x.to = {}
      /\ x.cached = r.cached /\ x.view = r.view
  BY DEF Done, Tab
<1> HIDE DEF x
<1>2. Placed(x, UserOf[t], row, members)
  BY <1>1 DEF Placed, InFlow
<1>3. TabFits(t, x)
  BY <1>1, <1>2 DEF TabFits, Keeps, Before, Staged, Agrees, Writes, Wraps
<1> QED BY <1>1, <1>3 DEF x

\* A request that fails leaves a tab that fits; a rescue fails only when the vault
\* is gone.
LEMMA AbortedFits ==
  ASSUME NEW t \in Tabs, NEW r \in Tab, TabFits(t, r),
         r.goal = "rescue" => row = "deleted"
  PROVE  /\ TabFits(t, Aborted(r))
         /\ Aborted(r).pc \notin MidRequest /\ Aborted(r).goal # "create"
<1>1. CASE r.goal = "rescue"
  <2> DEFINE x == [r EXCEPT !.view = Entries(r.got)]
  <2>1. x \in Tab
    BY DEF Tab, Entries
  <2>2. Keeps(t, x)
    BY <1>1 DEF Keeps
  <2>3. Aborted(r) = Done(x)
    BY <1>1 DEF Aborted
  <2> HIDE DEF x
  <2> QED BY <2>1, <2>2, <2>3, DoneFits DEF MidRequest
<1>2. CASE r.goal = "create" /\ r.pc # "acl"
  <2> DEFINE d == Done(r)
  <2>1. Keeps(t, r)
    BY <1>2, FitsKeeps
  <2>2. /\ d \in Tab /\ d.got = NoBlob /\ d.list = {} /\ d.to = {}
        /\ d.cached = r.cached /\ d.view = r.view
    BY DoneType DEF Done, Tab
  <2> HIDE DEF d
  <2> DEFINE x == [d EXCEPT !.pc = "delete", !.goal = "delete"]
  <2>3. /\ x.pc = "delete" /\ x.goal = "delete" /\ x.list = {} /\ x.to = {}
        /\ x.cached = r.cached /\ x.view = r.view
    BY <2>2 DEF Tab
  <2>4. Aborted(r) = x
    BY <1>2 DEF Aborted, d
  <2> HIDE DEF x
  <2>5. row \notin {"absent", "bare"}
    BY <1>2 DEF TabFits, Before, Placed, InFlow
  <2>6. TabFits(t, x)
    BY <2>1, <2>3, <2>5 DEF TabFits, Placed, InFlow, Keeps, Staged, Agrees, Writes, Wraps
  <2> QED BY <2>3, <2>4, <2>6 DEF MidRequest
<1>3. CASE r.goal = "grant" /\ r.pc \in {"share_check", "share_batch"} /\ r.list # {}
  <2> DEFINE x == [r EXCEPT !.pc = "share_check", !.to = {}]
  <2>1. /\ x.pc = "share_check" /\ x.goal = "grant" /\ x.list = r.list /\ x.to = {}
        /\ x.cached = r.cached /\ x.view = r.view /\ x.fresh = r.fresh
    BY <1>3 DEF Tab
  <2>2. Aborted(r) = x
    BY <1>3 DEF Aborted
  <2> HIDE DEF x
  <2>3. TabFits(t, x)
    BY <1>3, <2>1 DEF TabFits, Placed, InFlow, Before, Staged, Agrees, Writes, Wraps
  <2> QED BY <2>1, <2>2, <2>3 DEF MidRequest
<1>4. CASE /\ ~(r.goal = "rescue")
           /\ ~(r.goal = "create" /\ r.pc # "acl")
           /\ ~(r.goal = "grant" /\ r.pc \in {"share_check", "share_batch"} /\ r.list # {})
  <2>1. Aborted(r) = Done(r)
    BY <1>4 DEF Aborted
  <2> QED BY <1>4, <2>1, FitsKeeps, DoneFits DEF MidRequest
<1> QED BY <1>1, <1>2, <1>3, <1>4

\* What a user starts without a request that changes anything.
LEMMA StartRescueInv ==
  ASSUME Orderly, Inv, RescueInv, NEW t \in Tabs,
         OpenVault(t) \/ SaveVault(t) \/ DeleteVault(t) \/ Reconcile(t)
  PROVE  RescueInv'
<1> DEFINE s == tab[t]
<1>1. s \in Tab /\ TabFits(t, s) /\ s.pc = "idle" /\ UNCHANGED server
  BY TabsFit DEF Inv, TypeOK, OpenVault, SaveVault, DeleteVault, Reconcile
<1>2. s.goal = "none" /\ s.got = NoBlob /\ s.list \subseteq members /\ s.to \subseteq members
      /\ Keeps(t, s)
  BY <1>1, FitsKeeps DEF TabFits, Placed, InFlow, Tab, Goals
<1>3. CASE OpenVault(t)
  <2> DEFINE r == [s EXCEPT !.pc = "select", !.goal = "open"]
  <2>1. /\ r.pc = "select" /\ r.goal = "open" /\ r.list = s.list /\ r.to = s.to
        /\ r.cached = s.cached /\ r.view = s.view
    BY <1>1 DEF Tab
  <2>2. Become(t, r)
    BY <1>3 DEF OpenVault
  <2> HIDE DEF r
  <2>3. TabFits(t, r)
    BY <1>2, <2>1 DEF TabFits, Placed, InFlow, Keeps, Before, Staged, Agrees, Writes, Wraps
  <2> QED BY <1>1, <2>1, <2>2, <2>3, TabKeeps DEF MidRequest, server
<1>4. CASE SaveVault(t)
  <2> DEFINE r == [s EXCEPT !.pc = "put_select", !.goal = "save", !.fresh = s.cached,
                     !.got = [key |-> s.cached, full |-> s.view = "full"]]
  <2>1. /\ r.pc = "put_select" /\ r.goal = "save" /\ r.list = s.list /\ r.to = s.to
        /\ r.cached = s.cached /\ r.view = s.view /\ r.fresh = s.cached
        /\ r.got.full = (s.view = "full")
    BY <1>1 DEF Tab
  <2>2. Become(t, r) /\ s.cached # NoKey /\ s.view \in {"empty", "full"}
    BY <1>1, <1>4 DEF SaveVault, Tab
  <2> HIDE DEF r
  <2>3. Placed(r, UserOf[t], row, members)
    BY <1>2, <2>1 DEF Placed, InFlow
  <2>4. row \notin {"absent", "bare", "v1"}
    BY <1>2, <2>2 DEF Keeps
  <2>5. ASSUME row = "v2", NEW k \in Keys \union {NoKey}, OneKey(k)
        PROVE  Agrees(r, UserOf[t], blob, k)
    <3>1. s.cached = k /\ (s.view = "full" <=> blob["v2"].full) /\ blob["v2"].full \in BOOLEAN
      BY <1>2, <2>2, <2>5 DEF Keeps, Inv, TypeOK, Versions, Blob
    <3> QED BY <2>1, <2>2, <3>1 DEF Agrees, Writes, Wraps
  <2>6. TabFits(t, r)
    BY <2>3, <2>4, <2>5 DEF TabFits
  <2> QED BY <1>1, <2>1, <2>2, <2>6, TabKeeps DEF MidRequest, server
<1>5. CASE DeleteVault(t)
  <2> DEFINE r == [s EXCEPT !.pc = "delete", !.goal = "delete"]
  <2>1. /\ r.pc = "delete" /\ r.goal = "delete" /\ r.list = s.list /\ r.to = s.to
        /\ r.cached = s.cached /\ r.view = s.view
    BY <1>1 DEF Tab
  <2>2. Become(t, r) /\ row \in Versions
    BY <1>5 DEF DeleteVault, Entitled
  <2> HIDE DEF r
  <2>3. TabFits(t, r)
    BY <1>2, <2>1, <2>2 DEF TabFits, Placed, InFlow, Keeps, Staged, Agrees, Writes, Wraps, Versions
  <2> QED BY <1>1, <2>1, <2>2, <2>3, TabKeeps DEF MidRequest, server
<1>6. CASE Reconcile(t)
  <2> DEFINE r == [s EXCEPT !.pc = "select", !.goal = "grant", !.list = Missing]
  <2>1. /\ r.pc = "select" /\ r.goal = "grant" /\ r.list = Missing /\ r.to = s.to
        /\ r.cached = s.cached /\ r.view = s.view
    BY <1>1 DEF Tab
  <2>2. Become(t, r) /\ Missing \subseteq members
    BY <1>6 DEF Reconcile, Missing, Keyed
  <2> HIDE DEF r
  <2>3. TabFits(t, r)
    BY <1>2, <2>1, <2>2 DEF TabFits, Placed, InFlow, Keeps, Before, Staged, Agrees, Writes, Wraps
  <2> QED BY <1>1, <2>1, <2>2, <2>3, TabKeeps DEF MidRequest, server
<1> QED BY <1>3, <1>4, <1>5, <1>6

\* loadVaultKey returns the live key or none; while the old contents are live it
\* returns no key that opens them.
LEMMA KeyForFits ==
  ASSUME TypeOK, NEW t \in Tabs, TabFits(t, tab[t]), tab[t].pc = "share"
  PROVE  /\ KeyFor(t) # Legacy
         /\ \A k \in Keys \union {NoKey} : row = "v2" /\ OneKey(k) => KeyFor(t) \in {NoKey, k}
<1> USE VaultKeysAssumption
<1>1. KeyFor(t) \in Keys \union {NoKey}
  BY KeyForType
<1>2. ASSUME NEW k \in Keys \union {NoKey}, row = "v2", OneKey(k)
      PROVE  KeyFor(t) \in {NoKey, k}
  <2>1. Agrees(tab[t], UserOf[t], blob, k) /\ share[UserOf[t]] \in {NoKey, k}
    BY <1>2 DEF OneKey
  <2>2. tab[t].goal # "rescue"
    BY DEF TabFits, Placed, InFlow
  <2> QED BY <2>1, <2>2 DEF KeyFor, Agrees
<1> QED BY <1>1, <1>2

\* Looking a member up, and the download.
LEMMA DownloadRescueInv ==
  ASSUME Orderly, Inv, RescueInv, NEW t \in Tabs,
         LookupMember(t) \/ DownloadSelect(t) \/ DownloadGet(t)
  PROVE  RescueInv'
<1> DEFINE s == tab[t]
<1>1. s \in Tab /\ TabFits(t, s) /\ UNCHANGED server
  BY TabsFit DEF Inv, TypeOK, LookupMember, DownloadSelect, DownloadGet
<1>2. s.list \subseteq members /\ s.to \subseteq members
  BY <1>1 DEF TabFits, Placed
<1>3. CASE LookupMember(t)
  <2>1. s.pc = "lookup" /\ s.goal = "grant" /\ Keeps(t, s)
    BY <1>1, <1>3, FitsKeeps DEF LookupMember, TabFits, Placed, InFlow, Tab, Goals
  <2> DEFINE r == [s EXCEPT !.pc = "select"]
  <2>2. /\ r.pc = "select" /\ r.goal = "grant" /\ r.list = s.list /\ r.to = s.to
        /\ r.cached = s.cached /\ r.view = s.view
    BY <1>1, <2>1 DEF Tab
  <2>3. Become(t, r) \/ Become(t, Done(s))
    BY <1>3 DEF LookupMember
  <2> HIDE DEF r
  <2>4. TabFits(t, r)
    BY <1>2, <2>1, <2>2 DEF TabFits, Placed, InFlow, Keeps, Before, Staged, Agrees, Writes, Wraps
  <2>5. CASE Become(t, r)
    BY <1>1, <2>2, <2>4, <2>5, TabKeeps DEF MidRequest, server
  <2>6. CASE Become(t, Done(s))
    BY <1>1, <2>1, <2>6, DoneFits, TabKeeps DEF MidRequest, server
  <2> QED BY <2>3, <2>5, <2>6
<1>4. CASE DownloadSelect(t)
  <2> DEFINE r == [s EXCEPT !.pc = "get", !.ver = ServedVersion]
  <2>1. /\ r.pc = "get" /\ r.ver = row /\ r.goal = s.goal /\ r.list = s.list /\ r.to = s.to
        /\ r.cached = s.cached /\ r.view = s.view
    BY <1>1 DEF Tab, ServedVersion
  <2>2. Become(t, r) /\ Turn(t) /\ row \in Versions /\ s.pc = "select"
    BY <1>4 DEF DownloadSelect, Entitled
  <2>3. s.goal \in {"open", "grant"}
    BY <1>1, <2>2 DEF TabFits, Placed, InFlow, Tab, Goals
  <2> HIDE DEF r
  <2>4. TabFits(t, r)
    BY <1>1, <1>2, <2>1, <2>2, <2>3
       DEF TabFits, Placed, InFlow, Staged, Agrees, Writes, Wraps, Versions
  <2> QED BY <1>1, <2>1, <2>2, <2>4, TabKeeps DEF server
<1>5. CASE DownloadGet(t)
  <2> DEFINE r == [s EXCEPT !.pc = "share", !.got = blob[s.ver]]
  <2>1. s.pc = "get" /\ s.ver = row /\ row \in Versions
    BY <1>1, <1>5 DEF DownloadGet, TabFits, Placed
  <2>2. s.goal \in {"open", "grant"}
    BY <1>1, <2>1 DEF TabFits, Placed, InFlow, Tab, Goals
  <2>3. /\ r.pc = "share" /\ r.got = blob[row] /\ r.goal = s.goal /\ r.list = s.list
        /\ r.to = s.to /\ r.cached = s.cached /\ r.view = s.view
    BY <1>1, <2>1 DEF Tab
  <2>4. Become(t, r)
    BY <1>5 DEF DownloadGet
  <2> HIDE DEF r
  <2>5. Placed(r, UserOf[t], row, members)
    BY <1>2, <2>1, <2>2, <2>3 DEF Placed, InFlow, RescueInv, Objects
  <2>6. TabFits(t, r)
    BY <1>1, <2>1, <2>2, <2>3, <2>5
       DEF TabFits, Staged, Agrees, Writes, Wraps, Versions, RescueInv, OldLive, OneKey
  <2> QED BY <1>1, <2>3, <2>4, <2>6, TabKeeps DEF MidRequest, server
<1> QED BY <1>3, <1>4, <1>5

\* What a flow does with the contents.
LEMMA OpenedRescueInv ==
  ASSUME Orderly, Inv, RescueInv, NEW t \in Tabs,
         \/ ShowEntries(t) \/ StartRescue(t) \/ StartRotate(t) \/ StartGrant(t)
         \/ CannotDecrypt(t)
  PROVE  RescueInv'
<1> DEFINE s == tab[t]
<1> USE VaultKeysAssumption
<1>1. /\ s \in Tab /\ TabFits(t, s) /\ s.pc = "share"
      /\ UNCHANGED <<row, blob, share, members, upgraded>>
  BY TabsFit DEF Inv, TypeOK, ShowEntries, StartRescue, StartRotate, StartGrant,
     CannotDecrypt, Decrypted, server
<1>2. /\ s.goal \in {"open", "grant"} /\ s.list \subseteq members /\ s.to \subseteq members
      /\ Keeps(t, s) /\ row \notin {"absent", "bare"}
  BY <1>1, FitsKeeps DEF TabFits, Placed, InFlow, Tab, Goals, Before
<1> DEFINE key == KeyFor(t)
<1>3. /\ key \in Keys \union {NoKey} /\ key # Legacy
      /\ \A k \in Keys \union {NoKey} : row = "v2" /\ OneKey(k) => key \in {NoKey, k}
  BY <1>1, KeyForType, KeyForFits DEF Inv
<1>4. row = "v1" => s.got.key = Legacy /\ s.got.full
  BY <1>1 DEF TabFits, Staged, Old
<1>5. \A k \in Keys \union {NoKey} : row = "v2" /\ OneKey(k) =>
        \/ s.got.key = Legacy /\ UserOf[t] # LegacyOwner
        \/ s.got.key \in {NoKey, k} /\ s.got.full = blob["v2"].full
  BY <1>1 DEF TabFits, Agrees
<1>6. CASE ShowEntries(t)
  <2> DEFINE x == [s EXCEPT !.cached = KeyFor(t),
                     !.view = IF OpensEmpty(t) THEN "empty" ELSE Entries(s.got)]
  <2>1. x \in Tab /\ x.cached = key /\ x.view = (IF OpensEmpty(t) THEN "empty" ELSE Entries(s.got))
    BY <1>1, <1>3 DEF Tab, Entries
  <2>2. Become(t, Done(x)) /\ (OpensEmpty(t) \/ OpensWithKey(t)) /\ ~OpensWithLegacy(t)
    BY <1>6 DEF ShowEntries, Decrypted
  <2> HIDE DEF x, key
  <2>3. s.got.key \in {NoKey, key} /\ (s.got.key = NoKey <=> OpensEmpty(t))
    BY <2>2 DEF OpensEmpty, OpensWithKey, key
  <2>4. row # "v1"
    BY <1>3, <1>4, <2>3
  <2>5. ASSUME row = "v2", NEW k \in Keys \union {NoKey}, OneKey(k)
        PROVE  x.cached \in {NoKey, k} /\ (x.view = "full" => blob["v2"].full)
               /\ (x.view = "empty" => ~blob["v2"].full)
    <3>1. s.got.full = blob["v2"].full
      BY <1>3, <1>5, <2>3, <2>5
    <3>2. s.got.key = NoKey => ~s.got.full
      BY <1>1 DEF TabFits, Placed
    <3> QED BY <1>3, <2>1, <2>3, <2>5, <3>1, <3>2 DEF Entries
  <2>6. Keeps(t, x)
    BY <1>2, <2>4, <2>5 DEF Keeps
  <2> QED BY <1>1, <2>1, <2>2, <2>6, DoneFits, TabKeeps DEF MidRequest
<1>7. CASE StartRescue(t)
  <2>1. PICK f \in Keys : Become(t, [s EXCEPT !.pc = "put_select", !.goal = "rescue",
                                      !.cached = KeyFor(t), !.fresh = f])
    BY <1>7 DEF StartRescue
  <2> DEFINE r == [s EXCEPT !.pc = "put_select", !.goal = "rescue",
                     !.cached = KeyFor(t), !.fresh = f]
  <2>2. /\ r.pc = "put_select" /\ r.goal = "rescue" /\ r.list = s.list /\ r.to = s.to
        /\ r.got = s.got /\ r.view = s.view
    BY <1>1 DEF Tab
  <2>3. Become(t, r) /\ UserOf[t] = LegacyOwner /\ s.got.key = Legacy
    BY <1>7, <2>1 DEF StartRescue, OpensWithLegacy, HasLegacyKey
  <2> HIDE DEF r
  <2>4. row # "v2"
    BY <1>5, <2>3 DEF RescueInv, NewLive
  <2>5. TabFits(t, r)
    BY <1>1, <1>2, <1>4, <2>2, <2>3, <2>4 DEF TabFits, Placed, InFlow, Keeps, Staged
  <2> QED BY <1>1, <2>2, <2>3, <2>5, TabKeeps DEF MidRequest
<1>8. CASE StartRotate(t)
  BY <1>2, <1>8 DEF StartRotate
<1>9. CASE StartGrant(t)
  <2>1. CASE key = NoKey
    <3>1. Become(t, Done(s))
      BY <1>9, <2>1 DEF StartGrant
    <3> QED BY <1>1, <1>2, <3>1, DoneFits, TabKeeps DEF MidRequest
  <2>2. CASE key # NoKey
    <3> DEFINE r == [s EXCEPT !.pc = "share_check", !.cached = KeyFor(t),
                       !.fresh = KeyFor(t), !.got = NoBlob]
    <3>1. /\ r.pc = "share_check" /\ r.goal = s.goal /\ r.list = s.list /\ r.to = s.to
          /\ r.cached = key /\ r.fresh = key /\ r.view = s.view
      BY <1>1 DEF Tab
    <3>2. /\ Become(t, r) /\ s.goal = "grant"
          /\ s.got.key = NoKey \/ s.got.key = key \/ UserOf[t] = LegacyOwner
      BY <1>9, <2>2 DEF StartGrant, Decrypted, OpensEmpty, OpensWithKey, OpensWithLegacy,
         HasLegacyKey
    <3> HIDE DEF r, key
    <3>3. row = "v1" => UserOf[t] = LegacyOwner
      BY <1>3, <1>4, <3>2
    <3>4. TabFits(t, r)
      BY <1>2, <1>3, <2>2, <3>1, <3>2, <3>3
         DEF TabFits, Placed, InFlow, Keeps, Staged, Agrees, Writes, Wraps
    <3> QED BY <1>1, <3>1, <3>2, <3>4, TabKeeps DEF MidRequest
  <2> QED BY <2>1, <2>2
<1>10. CASE CannotDecrypt(t)
  <2> DEFINE x == IF KeyFor(t) = NoKey THEN s ELSE [s EXCEPT !.cached = NoKey, !.view = "none"]
  <2>1. x \in Tab /\ (x = s \/ (x.cached = NoKey /\ x.view = "none"))
    BY <1>1 DEF Tab
  <2>2. Become(t, Done(x))
    BY <1>10 DEF CannotDecrypt
  <2> HIDE DEF x
  <2>3. Keeps(t, x)
    BY <1>2, <2>1 DEF Keeps
  <2> QED BY <1>1, <2>1, <2>2, <2>3, DoneFits, TabKeeps DEF MidRequest
<1> QED BY <1>6, <1>7, <1>8, <1>9, <1>10

\* The members to wrap for are listed.
LEMMA ListRescueInv ==
  ASSUME Orderly, Inv, RescueInv, NEW t \in Tabs, ListMembers(t)
  PROVE  RescueInv'
<1> DEFINE s == tab[t]
<1>1. /\ s \in Tab /\ TabFits(t, s) /\ s.pc = "members" /\ UserOf[t] \in members
      /\ UNCHANGED <<row, blob, share, members, upgraded>>
  BY TabsFit DEF Inv, TypeOK, ListMembers
<1>2. /\ s.goal \in {"rescue", "create"} /\ s.to \subseteq members
      /\ row \notin {"absent", "bare"}
  BY <1>1 DEF TabFits, Placed, InFlow, Tab, Goals, Before
<1>3. Keyed \subseteq members /\ LegacyOwner \in Keyed
  BY DEF Keyed, RescueInv, Membership
<1>4. CASE s.goal = "create"
  <2>1. PICK f \in Keys : Become(t, [s EXCEPT !.pc = "share_check", !.fresh = f,
                                      !.list = Keyed \union {UserOf[t]}])
    BY <1>4 DEF ListMembers
  <2> DEFINE r == [s EXCEPT !.pc = "share_check", !.fresh = f,
                     !.list = Keyed \union {UserOf[t]}]
  <2>2. /\ r.pc = "share_check" /\ r.goal = "create" /\ r.list = Keyed \union {UserOf[t]}
        /\ r.to = s.to /\ r.got = s.got /\ r.cached = s.cached /\ r.view = s.view
    BY <1>1, <1>4 DEF Tab
  <2>3. Become(t, r)
    BY <2>1
  <2> HIDE DEF r
  <2>4. TabFits(t, r)
    BY <1>1, <1>2, <1>3, <1>4, <2>2
       DEF TabFits, Placed, InFlow, Staged, Agrees, Writes, Wraps
  <2> QED BY <1>1, <1>4, <2>2, <2>3, <2>4, TabKeeps DEF MidRequest
<1>5. CASE s.goal = "rescue"
  <2> DEFINE r == [s EXCEPT !.pc = "share_check", !.list = Keyed]
  <2>1. /\ r.pc = "share_check" /\ r.goal = "rescue" /\ r.list = Keyed /\ r.to = s.to
        /\ r.got = s.got /\ r.cached = s.cached /\ r.view = s.view /\ r.fresh = s.fresh
    BY <1>1, <1>5 DEF Tab
  <2>2. Become(t, r)
    BY <1>5 DEF ListMembers
  <2> HIDE DEF r
  <2>3. row # "v2"
    BY <1>1, <1>5 DEF TabFits, Agrees, RescueInv, NewLive
  <2>4. TabFits(t, r)
    BY <1>1, <1>2, <1>3, <1>5, <2>1, <2>3 DEF TabFits, Placed, InFlow, Staged
  <2> QED BY <1>1, <2>1, <2>2, <2>4, TabKeeps DEF MidRequest
<1> QED BY <1>2, <1>4, <1>5

\* The first half of the requests that write.
LEMMA CheckRescueInv ==
  ASSUME Orderly, Inv, RescueInv, NEW t \in Tabs,
         UploadSelect(t) \/ ShareCheck(t) \/ CommitCheck(t)
  PROVE  RescueInv'
<1> DEFINE s == tab[t]
<1>1. /\ s \in Tab /\ TabFits(t, s) /\ row \in Versions /\ Turn(t)
      /\ UNCHANGED server
  BY TabsFit DEF Inv, TypeOK, UploadSelect, ShareCheck, CommitCheck, Entitled
<1>2. s.list \subseteq members /\ s.to \subseteq members
  BY <1>1 DEF TabFits, Placed
<1>3. CASE UploadSelect(t)
  <2> DEFINE r == [s EXCEPT !.pc = "put", !.ver = TargetVersion(t)]
  <2>1. /\ r.pc = "put" /\ r.ver = TargetVersion(t) /\ r.goal = s.goal /\ r.list = s.list
        /\ r.to = s.to /\ r.got = s.got /\ r.cached = s.cached /\ r.view = s.view
        /\ r.fresh = s.fresh
    BY <1>1 DEF Tab
  <2>2. Become(t, r) /\ s.pc = "put_select"
    BY <1>3 DEF UploadSelect
  <2>3. s.goal \in {"rescue", "save", "create"}
    BY <1>1, <2>2 DEF TabFits, Placed, InFlow, Tab, Goals
  <2> HIDE DEF r
  <2>4. Placed(r, UserOf[t], row, members)
    BY <1>1, <1>2, <2>1, <2>2, <2>3 DEF TabFits, Placed, InFlow, TargetVersion
  <2>5. TabFits(t, r)
    BY <1>1, <2>1, <2>2, <2>4 DEF TabFits, Staged, Agrees, Writes, Wraps, Versions
  <2> QED BY <1>1, <2>1, <2>2, <2>5, TabKeeps DEF server
<1>4. CASE ShareCheck(t)
  <2>1. PICK to : /\ Become(t, [s EXCEPT !.pc = "share_batch", !.to = to, !.list = s.list \ to])
                  /\ to \subseteq members /\ (s.goal # "grant" => to = s.list)
    BY <1>4 DEF ShareCheck
  <2> DEFINE r == [s EXCEPT !.pc = "share_batch", !.to = to, !.list = s.list \ to]
  <2>2. /\ r.pc = "share_batch" /\ r.goal = s.goal /\ r.list = s.list \ to
        /\ r.to = to /\ r.got = s.got /\ r.cached = s.cached /\ r.view = s.view
        /\ r.fresh = s.fresh
    BY <1>1 DEF Tab
  <2>3. Become(t, r) /\ s.pc = "share_check"
    BY <1>4, <2>1 DEF ShareCheck
  <2> HIDE DEF r
  <2>4. s.goal \in {"rescue", "grant", "create"}
    BY <1>1, <2>3 DEF TabFits, Placed, InFlow, Tab, Goals
  <2>5. Placed(r, UserOf[t], row, members)
    BY <1>1, <1>2, <2>1, <2>2, <2>3, <2>4 DEF TabFits, Placed, InFlow
  <2>6. TabFits(t, r)
    BY <1>1, <2>2, <2>3, <2>4, <2>5 DEF TabFits, Staged, Agrees, Writes, Wraps, Versions
  <2> QED BY <1>1, <2>2, <2>3, <2>6, TabKeeps DEF server
<1>5. CASE CommitCheck(t)
  <2> DEFINE r == [s EXCEPT !.pc = "flip", !.ver = row]
  <2>1. /\ r.pc = "flip" /\ r.goal = s.goal /\ r.list = s.list /\ r.to = s.to
        /\ r.got = s.got /\ r.cached = s.cached /\ r.view = s.view /\ r.fresh = s.fresh
    BY <1>1 DEF Tab
  <2>2. Become(t, r) /\ s.pc = "commit"
    BY <1>5 DEF CommitCheck
  <2>3. s.goal = "rescue"
    BY <1>1, <2>2 DEF TabFits, Placed, InFlow, Tab, Goals
  <2> HIDE DEF r
  <2>4. row # "v2"
    BY <1>1, <2>2, <2>3 DEF TabFits, Agrees, RescueInv, NewLive
  <2>5. TabFits(t, r)
    BY <1>1, <1>2, <2>1, <2>2, <2>3, <2>4 DEF TabFits, Placed, InFlow, Staged, Versions
  <2> QED BY <1>1, <2>1, <2>2, <2>5, TabKeeps DEF server
<1> QED BY <1>3, <1>4, <1>5

\* What goes wrong.
LEMMA FailureRescueInv ==
  ASSUME Orderly, Inv, RescueInv, NEW t \in Tabs,
         Refused(t) \/ SkipMember(t) \/ Fail(t) \/ Crash(t) \/ Reload(t)
  PROVE  RescueInv'
<1> DEFINE s == tab[t]
<1>1. s \in Tab /\ TabFits(t, s) /\ UNCHANGED server
  BY TabsFit DEF Inv, TypeOK, Refused, SkipMember, Fail, Crash, Reload
<1>2. CASE Refused(t)
  <2>1. ASSUME s.goal = "rescue" PROVE row = "deleted"
    <3>1. UserOf[t] = LegacyOwner /\ LegacyOwner \in members
      BY <1>1, <2>1 DEF TabFits, Placed, RescueInv, Membership
    <3>2. s.pc = "share_check" => s.list # {} /\ s.list \subseteq members
      BY <1>1, <2>1 DEF TabFits, Placed
    <3>3. row \notin Versions
      BY <1>2, <2>1, <3>1, <3>2 DEF Refused, Entitled, ShareAllowed, ForeignKey
    <3>4. row \notin {"absent", "bare"}
      BY <1>1, <2>1 DEF TabFits, Placed, InFlow, Before
    <3> QED BY <3>3, <3>4 DEF Inv, TypeOK
  <2>2. Become(t, Aborted(s))
    BY <1>2 DEF Refused
  <2> QED BY <1>1, <2>1, <2>2, AbortedFits, TabKeeps DEF server
<1>3. CASE SkipMember(t)
  <2>1. PICK m \in s.list : Become(t, Aborted([s EXCEPT !.list = s.list \ {m}]))
    BY <1>3 DEF SkipMember
  <2> DEFINE x == [s EXCEPT !.list = s.list \ {m}]
  <2>2. /\ x \in Tab /\ x.pc = s.pc /\ x.goal = s.goal /\ x.list = s.list \ {m}
        /\ x.to = s.to /\ x.got = s.got /\ x.cached = s.cached /\ x.view = s.view
        /\ x.fresh = s.fresh
    BY <1>1 DEF Tab
  <2>3. s.pc = "share_check" /\ s.goal = "grant"
    BY <1>3 DEF SkipMember
  <2>4. Become(t, Aborted(x))
    BY <2>1
  <2> HIDE DEF x
  <2>5. TabFits(t, x)
    BY <1>1, <2>2, <2>3 DEF TabFits, Placed, InFlow, Before, Staged, Agrees, Writes, Wraps
  <2> QED BY <1>1, <2>2, <2>3, <2>4, <2>5, AbortedFits, TabKeeps DEF server
<1>4. CASE Fail(t)
  BY <1>4 DEF Fail, Orderly
<1>5. CASE Crash(t) \/ Reload(t)
  <2> DEFINE r == NewTab
  <2>1. /\ r.pc = "idle" /\ r.goal = "none" /\ r.list = {} /\ r.to = {}
        /\ r.got = NoBlob /\ r.cached = NoKey /\ r.view = "none"
    BY DEF NewTab
  <2>2. Become(t, r)
    BY <1>5 DEF Crash, Reload
  <2> HIDE DEF r
  <2>3. TabFits(t, r)
    BY <2>1 DEF TabFits, Placed, InFlow, Before, Staged, Agrees, Writes, Wraps
  <2> QED BY <1>1, <2>1, <2>2, <2>3, TabKeeps DEF MidRequest, server
<1> QED BY <1>2, <1>3, <1>4, <1>5

-----------------------------------------------------------------------------
(* The steps that change the tables or the objects.                        *)

\* The tab that takes the step becomes r; the others stay as they are.
LEMMA Becoming ==
  ASSUME TypeOK, NEW t \in Tabs, NEW r, Become(t, r)
  PROVE  tab'[t] = r /\ \A o \in Tabs \ {t} : tab'[o] = tab[o]
BY DEF TypeOK, Become

\* The row of a new vault: nothing is stored, and nobody else is creating it.
LEMMA CreateRescueInv ==
  ASSUME Orderly, Inv, RescueInv, NEW t \in Tabs, CreateVault(t)
  PROVE  RescueInv'
<1> DEFINE s == tab[t]
<1>1. /\ s \in Tab /\ TabFits(t, s) /\ s.pc = "idle" /\ Turn(t) /\ row = "absent"
      /\ row' = "bare" /\ UNCHANGED <<blob, share, members, upgraded>>
  BY TabsFit DEF Inv, TypeOK, CreateVault
<1> DEFINE r == [s EXCEPT !.pc = "acl", !.goal = "create"]
<1>2. /\ r.pc = "acl" /\ r.goal = "create" /\ r.list = s.list /\ r.to = s.to
      /\ r.got = s.got /\ r.cached = s.cached /\ r.view = s.view
  BY <1>1 DEF Tab
<1>3. Become(t, r)
  BY DEF CreateVault
<1> HIDE DEF r
<1>4. tab'[t] = r /\ \A o \in Tabs \ {t} : tab'[o] = tab[o]
  BY <1>3, Becoming DEF Inv
<1>5. s.goal = "none" /\ s.got = NoBlob
  BY <1>1 DEF TabFits, Placed, InFlow, Tab, Goals
<1>6. \A o \in Tabs : Before(tab[o]) /\ tab[o].pc # "acl" /\ tab[o].goal # "create"
  BY <1>1 DEF RescueInv, NothingYet, Inv, TabsOK, TabOK, Fits, AllPlaced, Placed, InFlow, Before
<1>7. OneRequest' /\ OneCreator'
  BY <1>1, <1>3, <1>6, Requests, Creators DEF Inv, RescueInv
<1>8. Membership' /\ Objects'
  BY <1>1 DEF RescueInv, Membership, Objects
<1>9. NothingYet'
  BY <1>1, <1>2, <1>4, <1>6 DEF RescueInv, NothingYet, Before
<1>10. AllPlaced'
  <2>1. Placed(r, UserOf[t], row', members')
    BY <1>1, <1>2, <1>5 DEF TabFits, Placed, InFlow
  <2>2. ASSUME NEW o \in Tabs \ {t} PROVE Placed(tab[o], UserOf[o], row', members')
    BY <1>1, <1>6 DEF RescueInv, AllPlaced, Placed, Before
  <2> QED BY <1>4, <2>1, <2>2 DEF AllPlaced
<1> QED BY <1>1, <1>7, <1>8, <1>9, <1>10 DEF RescueInv, OldLive, NewLive

\* The access list of the new vault: it has no key yet.
LEMMA AclRescueInv ==
  ASSUME Orderly, Inv, RescueInv, NEW t \in Tabs, CreateAcl(t)
  PROVE  RescueInv'
<1> DEFINE s == tab[t]
<1>1. /\ s \in Tab /\ TabFits(t, s) /\ s.pc = "acl" /\ row = "bare" /\ s.goal = "create"
      /\ row' = "v2" /\ UNCHANGED <<blob, share, members, upgraded>>
  BY TabsFit DEF Inv, TypeOK, CreateAcl, Orderly, TabsOK, TabOK, Fits
<1> DEFINE r == [s EXCEPT !.pc = "members"]
<1>2. /\ r.pc = "members" /\ r.goal = "create" /\ r.list = s.list /\ r.to = s.to
      /\ r.got = s.got /\ r.cached = s.cached /\ r.view = s.view
  BY <1>1 DEF Tab
<1>3. Become(t, r)
  BY DEF CreateAcl, Orderly
<1> HIDE DEF r
<1>4. tab'[t] = r /\ \A o \in Tabs \ {t} : tab'[o] = tab[o]
  BY <1>3, Becoming DEF Inv
<1>5. \A o \in Tabs \ {t} : Before(tab[o]) /\ tab[o].pc # "acl"
                           /\ tab[o].goal \notin {"create", "rescue"}
  BY <1>1 DEF RescueInv, NothingYet, Inv, SoleCreator, AllPlaced, Placed, InFlow, Before
<1>6. OneRequest' /\ OneCreator'
  BY <1>1, <1>2, <1>3, Requests, Creators DEF Inv, RescueInv, MidRequest
<1>7. Membership' /\ Objects'
  BY <1>1 DEF RescueInv, Membership, Objects
<1>8. AllPlaced'
  <2>1. Placed(r, UserOf[t], row', members')
    BY <1>1, <1>2 DEF TabFits, Placed, InFlow
  <2>2. ASSUME NEW o \in Tabs \ {t} PROVE Placed(tab[o], UserOf[o], row', members')
    BY <1>1, <1>5 DEF RescueInv, AllPlaced, Placed, Before
  <2> QED BY <1>4, <2>1, <2>2 DEF AllPlaced
<1>9. OneKey(NoKey)'
  <2>1. \A u \in Users : share'[u] = NoKey
    BY <1>1 DEF Inv, SharesDieWithVault, Versions
  <2>2. blob'["v2"] = NoBlob
    BY <1>1 DEF RescueInv, NothingYet, Versions
  <2>3. Agrees(r, UserOf[t], blob', NoKey)
    BY <1>1, <1>2 DEF TabFits, Before, Agrees, Writes, Wraps
  <2>4. ASSUME NEW o \in Tabs \ {t} PROVE Agrees(tab[o], UserOf[o], blob', NoKey)
    BY <1>5 DEF Before, Agrees, Writes, Wraps
  <2> QED BY <1>4, <2>1, <2>2, <2>3, <2>4 DEF OneKey, NoBlob
<1> QED BY <1>1, <1>6, <1>7, <1>8, <1>9 DEF RescueInv, NothingYet, OldLive, NewLive, Versions

\* A new member has no share, and takes none away.
LEMMA JoinRescueInv ==
  ASSUME Orderly, Inv, RescueInv, NEW t \in Tabs, NEW u \in Users, AddMember(t, u)
  PROVE  RescueInv'
<1> DEFINE s == tab[t]
<1>1. /\ s \in Tab /\ TabFits(t, s) /\ s.pc = "idle" /\ members' = members \union {u}
      /\ UNCHANGED <<row, blob, share, upgraded>>
  BY TabsFit DEF Inv, TypeOK, AddMember
<1> DEFINE r == [s EXCEPT !.pc = "lookup", !.goal = "grant", !.list = {u}]
<1>2. /\ r.pc = "lookup" /\ r.goal = "grant" /\ r.list = {u} /\ r.to = s.to
      /\ r.cached = s.cached /\ r.view = s.view
  BY <1>1 DEF Tab
<1>3. Become(t, r)
  BY DEF AddMember
<1> HIDE DEF r
<1>4. tab'[t] = r /\ \A o \in Tabs \ {t} : tab'[o] = tab[o]
  BY <1>3, Becoming DEF Inv
<1>5. s.goal = "none" /\ s.to \subseteq members /\ Keeps(t, s)
  BY <1>1, FitsKeeps DEF TabFits, Placed, InFlow, Tab, Goals
<1>6. OneRequest' /\ OneCreator'
  BY <1>2, <1>3, Requests, Creators DEF Inv, RescueInv, MidRequest
<1>7. Membership' /\ Objects'
  BY <1>1 DEF RescueInv, Membership, Objects
<1>8. AllPlaced'
  <2>1. Placed(r, UserOf[t], row', members')
    BY <1>1, <1>2, <1>5 DEF Placed, InFlow
  <2>2. ASSUME NEW o \in Tabs \ {t} PROVE Placed(tab[o], UserOf[o], row', members')
    <3>1. Placed(tab[o], UserOf[o], row, members)
      BY DEF RescueInv, AllPlaced
    <3>2. tab[o].list \subseteq members' /\ tab[o].to \subseteq members'
      BY <1>1, <3>1 DEF Placed
    <3> QED BY <1>1, <3>1, <3>2 DEF Placed
  <2> QED BY <1>4, <2>1, <2>2 DEF AllPlaced
<1>9. NothingYet' /\ OldLive'
  BY <1>1, <1>2, <1>4, <1>5 DEF RescueInv, NothingYet, OldLive, Keeps, Before, Staged
<1>10. NewLive'
  <2> SUFFICES ASSUME row = "v2" PROVE \E k \in Keys \union {NoKey} : OneKey(k)'
    BY <1>1 DEF NewLive
  <2>1. PICK k \in Keys \union {NoKey} : OneKey(k)
    BY DEF RescueInv, NewLive
  <2>2. Agrees(r, UserOf[t], blob, k)
    BY <1>2, <1>5, <2>1 DEF Keeps, Agrees, Writes, Wraps
  <2>3. OneKey(k)'
    BY <1>1, <1>4, <2>1, <2>2 DEF OneKey
  <2> QED BY <2>3
<1> QED BY <1>6, <1>7, <1>8, <1>9, <1>10 DEF RescueInv

\* The object: the staged one beside the old contents, or the live one under the
\* same key and as full as it was.
LEMMA PutRescueInv ==
  ASSUME Orderly, Inv, RescueInv, NEW t \in Tabs, UploadPut(t)
  PROVE  /\ RescueInv' /\ row \in Versions
         /\ row = "v1" => blob'["v1"] = blob["v1"]
         /\ row = "v2" => /\ blob'["v2"].full = blob["v2"].full
                          /\ blob["v2"].key # NoKey => blob'["v2"] = blob["v2"]
<1> DEFINE s == tab[t]
<1> USE VaultKeysAssumption
<1>1. /\ s \in Tab /\ TabFits(t, s) /\ s.pc = "put" /\ row \in Versions
      /\ UNCHANGED <<row, share, members, upgraded>>
  BY TabsFit DEF Inv, TypeOK, UploadPut, TabFits, Placed
<1>2. s.goal \in {"rescue", "save", "create"} /\ s.fresh \in Keys /\ s.got.full \in BOOLEAN
  BY <1>1 DEF TabFits, Placed, InFlow, Tab, Goals, Blob, Inv, TabsOK, TabOK, Fits
<1>3. s.ver = "v2"
  BY <1>1, <1>2 DEF TabFits, Placed, Staged, Versions
<1>4. /\ blob' \in [Versions -> Blob] /\ blob'["v1"] = blob["v1"]
      /\ blob'["v2"] = [key |-> s.fresh, full |-> s.got.full]
  BY <1>2, <1>3 DEF UploadPut, Inv, TypeOK, Versions, Blob
<1>5. Membership'
  BY <1>1 DEF RescueInv, Membership
<1>6. Objects'
  BY <1>2, <1>4 DEF RescueInv, Objects, Versions
<1>7. CASE row = "v1"
  <2>1. s.goal = "rescue" /\ s.got.full /\ UserOf[t] = LegacyOwner
    BY <1>1, <1>2, <1>7 DEF TabFits, Staged, Placed
  <2> DEFINE r == [s EXCEPT !.pc = "members"]
  <2>2. /\ r.pc = "members" /\ r.goal = "rescue" /\ r.list = s.list /\ r.to = s.to
        /\ r.got = s.got /\ r.cached = s.cached /\ r.view = s.view /\ r.fresh = s.fresh
    BY <1>1, <2>1 DEF Tab
  <2>3. Become(t, r)
    BY <2>1 DEF UploadPut
  <2> HIDE DEF r
  <2>4. tab'[t] = r /\ \A o \in Tabs \ {t} : tab'[o] = tab[o]
    BY <2>3, Becoming DEF Inv
  <2>5. OneRequest' /\ OneCreator'
    BY <2>2, <2>3, Requests, Creators DEF Inv, RescueInv, MidRequest
  <2>6. AllPlaced'
    <3>1. Placed(r, UserOf[t], row, members)
      BY <1>1, <2>1, <2>2 DEF TabFits, Placed, InFlow
    <3> QED BY <1>1, <2>4, <3>1 DEF RescueInv, AllPlaced
  <2>7. OldLive'
    <3>1. Staged(r, UserOf[t], blob', share)
      BY <1>1, <1>4, <1>7, <2>1, <2>2 DEF TabFits, Staged
    <3>2. ASSUME NEW o \in Tabs \ {t} PROVE Staged(tab[o], UserOf[o], blob', share)
      BY <1>7, <2>1 DEF RescueInv, OldLive, AllPlaced, Placed, Staged, Orderly
    <3> QED BY <1>1, <1>4, <1>7, <2>4, <3>1, <3>2 DEF RescueInv, OldLive
  <2> QED BY <1>1, <1>4, <1>5, <1>6, <1>7, <2>5, <2>6, <2>7
          DEF RescueInv, NothingYet, NewLive
<1>8. CASE row = "v2"
  <2>1. PICK k \in Keys \union {NoKey} : OneKey(k)
    BY <1>8 DEF RescueInv, NewLive
  <2>2. s.fresh = k /\ s.got.full = blob["v2"].full /\ s.goal \in {"save", "create"}
    BY <1>1, <1>2, <1>8, <2>1 DEF TabFits, Agrees, Writes
  <2> DEFINE r == Done(s)
  <2>3. TabFits(t, r) /\ r.pc = "idle" /\ r.goal = "none"
    BY <1>1, <2>2, FitsKeeps, DoneFits
  <2>4. Become(t, r)
    BY <2>2 DEF UploadPut
  <2> HIDE DEF r
  <2>5. tab'[t] = r /\ \A o \in Tabs \ {t} : tab'[o] = tab[o]
    BY <2>4, Becoming DEF Inv
  <2>6. OneRequest' /\ OneCreator'
    BY <2>3, <2>4, Requests, Creators DEF Inv, RescueInv, MidRequest
  <2>7. AllPlaced'
    BY <1>1, <2>3, <2>5 DEF RescueInv, AllPlaced, TabFits
  <2>8. OneKey(k)'
    <3>1. blob'["v2"].key = k /\ blob'["v2"].full = blob["v2"].full
      BY <1>4, <2>2
    <3>2. \A o \in Tabs : Agrees(tab'[o], UserOf[o], blob, k)
      BY <1>8, <2>1, <2>3, <2>5 DEF OneKey, TabFits
    <3>3. \A o \in Tabs : Agrees(tab'[o], UserOf[o], blob', k)
      BY <3>1, <3>2 DEF Agrees
    <3> QED BY <1>1, <2>1, <3>1, <3>3 DEF OneKey
  <2>9. /\ blob'["v2"].full = blob["v2"].full
        /\ blob["v2"].key # NoKey => blob'["v2"] = blob["v2"]
    <3>1. blob["v2"] \in Blob /\ blob["v2"].key \in {NoKey, k}
      BY <2>1 DEF Inv, TypeOK, Versions, OneKey
    <3>2. blob["v2"] = [key |-> blob["v2"].key, full |-> blob["v2"].full]
      BY <3>1 DEF Blob
    <3> QED BY <1>4, <2>2, <3>1, <3>2
  <2> QED BY <1>1, <1>5, <1>6, <1>8, <2>6, <2>7, <2>8, <2>9
          DEF RescueInv, NothingYet, OldLive, NewLive
<1> QED BY <1>1, <1>7, <1>8 DEF Versions

\* The shares: a rescue puts the key of its staged object in place of all others,
\* a grant adds the live key, a new vault gets its first one.
LEMMA ShareRescueInv ==
  ASSUME Orderly, Inv, RescueInv, NEW t \in Tabs, ShareBatch(t)
  PROVE  /\ RescueInv' /\ row \in Versions
         /\ row = "v2" /\ blob["v2"].key # NoKey =>
              \A u \in Users : share[u] = blob["v2"].key => share'[u] = share[u]
<1> DEFINE s == tab[t]
<1> USE VaultKeysAssumption
<1>1. /\ s \in Tab /\ TabFits(t, s) /\ s.pc = "share_batch" /\ row \in Versions
      /\ UNCHANGED <<row, blob, members, upgraded>>
  BY TabsFit DEF Inv, TypeOK, ShareBatch, ForeignKey
<1>2. /\ s.goal \in {"rescue", "grant", "create"} /\ s.fresh \in Keys
      /\ s.list \subseteq members /\ s.to \subseteq members
      /\ s.goal # "grant" => UserOf[t] \in s.to
  BY <1>1 DEF TabFits, Placed, InFlow, Tab, Goals, Inv, TabsOK, TabOK, Fits
<1>3. share' = [u \in Users |-> IF u \in s.to THEN s.fresh
                               ELSE IF s.goal # "grant" THEN NoKey ELSE share[u]]
  BY DEF ShareBatch, WrappedKey, Replaces
<1>4. Membership'
  BY <1>1, <1>2, <1>3 DEF RescueInv, Membership
<1>5. Objects'
  BY <1>1 DEF RescueInv, Objects
<1>6. ASSUME NEW r, Become(t, r), r.pc \notin MidRequest, r.goal \in {"none", s.goal},
             Placed(r, UserOf[t], row, members)
      PROVE  OneRequest' /\ OneCreator' /\ AllPlaced'
  <2>1. tab'[t] = r /\ \A o \in Tabs \ {t} : tab'[o] = tab[o]
    BY <1>6, Becoming DEF Inv
  <2>2. OneRequest' /\ OneCreator'
    BY <1>6, Requests, Creators DEF Inv, RescueInv
  <2> QED BY <1>1, <1>6, <2>1, <2>2 DEF RescueInv, AllPlaced
<1>7. CASE s.goal = "grant"
  <2>1. PICK r : /\ Become(t, r) /\ TabFits(t, r) /\ r.pc \in {"idle", "share_check"}
                 /\ r.goal \in {"none", "grant"}
    <3>1. CASE s.list = {}
      <4>1. Become(t, Done(s))
        BY <1>7, <3>1 DEF ShareBatch
      <4> QED BY <1>1, <1>7, <4>1, FitsKeeps, DoneFits
    <3>2. CASE s.list # {}
      <4> DEFINE r == [s EXCEPT !.pc = "share_check", !.to = {}]
      <4>1. /\ r.pc = "share_check" /\ r.goal = "grant" /\ r.list = s.list /\ r.to = {}
            /\ r.cached = s.cached /\ r.view = s.view /\ r.fresh = s.fresh
        BY <1>1, <1>7 DEF Tab
      <4>2. Become(t, r)
        BY <1>7, <3>2 DEF ShareBatch
      <4> HIDE DEF r
      <4>3. TabFits(t, r)
        BY <1>1, <1>2, <1>7, <4>1
           DEF TabFits, Placed, InFlow, Staged, Agrees, Writes, Wraps, Versions
      <4> QED BY <4>1, <4>2, <4>3
    <3> QED BY <3>1, <3>2
  <2>2. tab'[t] = r /\ \A o \in Tabs \ {t} : tab'[o] = tab[o]
    BY <2>1, Becoming DEF Inv
  <2>3. OneRequest' /\ OneCreator' /\ AllPlaced'
    BY <1>6, <1>7, <2>1 DEF TabFits, MidRequest
  <2>4. OldLive'
    <3> SUFFICES ASSUME row = "v1"
                 PROVE  \A o \in Tabs : Staged(tab'[o], UserOf[o], blob, share')
      BY <1>1 DEF OldLive, RescueInv
    <3>1. UserOf[t] = LegacyOwner /\ Staged(r, UserOf[t], blob, share)
      BY <1>1, <2>1 DEF TabFits, Staged
    <3>2. Staged(r, UserOf[t], blob, share')
      BY <2>1, <3>1 DEF Staged
    <3>3. ASSUME NEW o \in Tabs \ {t} PROVE Staged(tab[o], UserOf[o], blob, share')
      BY <3>1 DEF RescueInv, OldLive, AllPlaced, Placed, Staged, Orderly
    <3> QED BY <2>2, <3>2, <3>3
  <2>5. NewLive'
    <3> SUFFICES ASSUME row = "v2" PROVE \E k \in Keys \union {NoKey} : OneKey(k)'
      BY <1>1 DEF NewLive
    <3>1. PICK k \in Keys \union {NoKey} : OneKey(k)
      BY DEF RescueInv, NewLive
    <3>2. s.fresh = k
      BY <1>1, <1>7, <3>1 DEF TabFits, Agrees, Wraps
    <3>3. /\ \A u \in Users : share'[u] \in {NoKey, k}
          /\ \A u \in Users : share[u] = k => share'[u] = k
      BY <1>3, <3>1, <3>2, <1>7 DEF OneKey
    <3>4. \A o \in Tabs : Agrees(tab'[o], UserOf[o], blob, k)
      BY <2>1, <2>2, <3>1 DEF OneKey, TabFits
    <3>5. OneKey(k)'
      <4>1. members \subseteq Users
        BY DEF Inv, TypeOK
      <4> QED BY <1>1, <3>1, <3>3, <3>4, <4>1 DEF OneKey
    <3> QED BY <3>5
  <2>6. ASSUME row = "v2", blob["v2"].key # NoKey, NEW u \in Users, share[u] = blob["v2"].key
        PROVE  share'[u] = share[u]
    <3>1. PICK k \in Keys \union {NoKey} : OneKey(k)
      BY <2>6 DEF RescueInv, NewLive
    <3>2. s.fresh = k /\ blob["v2"].key = k
      BY <1>1, <1>7, <2>6, <3>1 DEF TabFits, Agrees, Wraps, OneKey
    <3> QED BY <1>3, <1>7, <2>6, <3>2
  <2> QED BY <1>1, <1>4, <1>5, <2>3, <2>4, <2>5, <2>6 DEF RescueInv, NothingYet, Versions
<1>8. CASE s.goal = "rescue"
  <2> DEFINE r == [s EXCEPT !.pc = "commit", !.to = {}]
  <2>1. /\ r.pc = "commit" /\ r.goal = "rescue" /\ r.list = s.list /\ r.to = {}
        /\ r.got = s.got /\ r.cached = s.cached /\ r.view = s.view /\ r.fresh = s.fresh
    BY <1>1, <1>8 DEF Tab
  <2>2. Become(t, r)
    BY <1>8 DEF ShareBatch
  <2> HIDE DEF r
  <2>3. row = "v1" /\ UserOf[t] = LegacyOwner
    BY <1>1, <1>8 DEF TabFits, Agrees, RescueInv, NewLive, Placed, Versions
  <2>4. tab'[t] = r /\ \A o \in Tabs \ {t} : tab'[o] = tab[o]
    BY <2>2, Becoming DEF Inv
  <2>5. Placed(r, UserOf[t], row, members)
    BY <1>1, <1>2, <1>8, <2>1 DEF TabFits, Placed, InFlow
  <2>6. OneRequest' /\ OneCreator' /\ AllPlaced'
    BY <1>6, <1>8, <2>1, <2>2, <2>5 DEF MidRequest
  <2>7. OldLive'
    <3>1. /\ share'[LegacyOwner] = s.fresh
          /\ \A x \in Users : share'[x] \in {NoKey, s.fresh}
      BY <1>2, <1>3, <1>8, <2>3
    <3>2. Staged(r, UserOf[t], blob, share')
      BY <1>1, <1>8, <2>1, <2>3, <3>1 DEF TabFits, Staged
    <3>3. ASSUME NEW o \in Tabs \ {t} PROVE Staged(tab[o], UserOf[o], blob, share')
      BY <2>3 DEF RescueInv, OldLive, AllPlaced, Placed, Staged, Orderly
    <3> QED BY <1>1, <2>3, <2>4, <3>2, <3>3 DEF OldLive, RescueInv
  <2> QED BY <1>1, <1>4, <1>5, <2>3, <2>6, <2>7 DEF RescueInv, NothingYet, NewLive
<1>9. CASE s.goal = "create"
  <2> DEFINE r == [s EXCEPT !.pc = "put_select", !.cached = s.fresh, !.to = {}]
  <2>1. /\ r.pc = "put_select" /\ r.goal = "create" /\ r.list = s.list /\ r.to = {}
        /\ r.got = s.got /\ r.cached = s.fresh /\ r.view = s.view /\ r.fresh = s.fresh
    BY <1>1, <1>9 DEF Tab
  <2>2. Become(t, r)
    BY <1>9 DEF ShareBatch
  <2> HIDE DEF r
  <2>3. row = "v2" /\ s.got = NoBlob
    BY <1>1, <1>9 DEF TabFits, Staged, Placed, Versions
  <2>4. tab'[t] = r /\ \A o \in Tabs \ {t} : tab'[o] = tab[o]
    BY <2>2, Becoming DEF Inv
  <2>5. Placed(r, UserOf[t], row, members)
    BY <1>1, <1>2, <1>9, <2>1 DEF TabFits, Placed, InFlow
  <2>6. OneRequest' /\ OneCreator' /\ AllPlaced'
    BY <1>6, <1>9, <2>1, <2>2, <2>5 DEF MidRequest
  <2>7. PICK k \in Keys \union {NoKey} : OneKey(k)
    BY <2>3 DEF RescueInv, NewLive
  <2>8. k = NoKey /\ OneKey(NoKey)
    BY <1>1, <1>9, <2>3, <2>7 DEF TabFits, Agrees, Writes
  <2>9. blob["v2"].key = NoKey /\ blob["v2"].full = FALSE
    <3>1. blob["v2"] \in Blob
      BY DEF Inv, TypeOK, Versions
    <3>2. blob["v2"].full \in BOOLEAN
      BY <3>1 DEF Blob
    <3> QED BY <2>8, <3>2 DEF OneKey, RescueInv, Objects, Versions
  <2>10. PICK f \in Keys : f = s.fresh
    BY <1>2
  <2>11. OneKey(f)'
    <3>1. \A u \in Users : share'[u] \in {NoKey, f}
      BY <1>3, <1>9, <2>10
    <3>2. UserOf[t] \in members /\ share'[UserOf[t]] = f
      BY <1>2, <1>3, <1>9, <2>10
    <3>3. Agrees(r, UserOf[t], blob, f)
      <4>1. Agrees(s, UserOf[t], blob, NoKey) /\ s.got.full = FALSE
        BY <2>3, <2>8 DEF OneKey, NoBlob
      <4> QED BY <1>9, <2>1, <2>9, <2>10, <4>1 DEF Agrees, Writes, Wraps
    <3>4. ASSUME NEW o \in Tabs \ {t} PROVE Agrees(tab[o], UserOf[o], blob, f)
      <4>1. Agrees(tab[o], UserOf[o], blob, NoKey) /\ tab[o].goal # "create"
        BY <1>9, <2>8 DEF OneKey, RescueInv, OneCreator
      <4>2. ~Writes(tab[o]) /\ ~Wraps(tab[o])
        BY <4>1 DEF Agrees, Writes, Wraps, Inv, TabsOK, TabOK, Fits, Owes
      <4> QED BY <4>1, <4>2 DEF Agrees
    <3> QED BY <1>1, <2>4, <2>9, <3>1, <3>2, <3>3, <3>4 DEF OneKey
  <2> QED BY <1>1, <1>2, <1>4, <1>5, <2>3, <2>6, <2>9, <2>11 DEF RescueInv, NothingYet, OldLive, NewLive
<1> QED BY <1>2, <1>7, <1>8, <1>9

\* The commit: the staged object goes live, and all shares are of its key.
LEMMA FlipRescueInv ==
  ASSUME Orderly, Inv, RescueInv, NEW t \in Tabs, CommitFlip(t)
  PROVE  /\ RescueInv' /\ row = "v1" /\ row' = "v2"
         /\ UNCHANGED <<blob, share, members>>
         /\ blob["v2"].full = TRUE /\ share[LegacyOwner] = blob["v2"].key
<1> DEFINE s == tab[t]
<1> USE VaultKeysAssumption
<1>1. /\ s \in Tab /\ TabFits(t, s) /\ s.pc = "flip" /\ UNCHANGED <<blob, share, members, upgraded>>
  BY TabsFit DEF Inv, TypeOK, CommitFlip
<1>2. s.goal = "rescue" /\ s.fresh \in Keys /\ UserOf[t] = LegacyOwner /\ row \in Versions
  BY <1>1 DEF TabFits, Placed, InFlow, Tab, Goals, Inv, TabsOK, TabOK, Fits, Owes
<1>3. row = "v1" /\ row' = "v2"
  BY <1>1, <1>2 DEF TabFits, Agrees, RescueInv, NewLive, Versions, CommitFlip
<1>4. /\ blob["v2"] = [key |-> s.fresh, full |-> TRUE] /\ share[LegacyOwner] = s.fresh
      /\ \A x \in Users : share[x] \in {NoKey, s.fresh}
      /\ s.view = "none" /\ s.got.full
  BY <1>1, <1>2, <1>3 DEF TabFits, Staged
<1> DEFINE r == [s EXCEPT !.pc = "sweep"]
<1>5. /\ r.pc = "sweep" /\ r.goal = "rescue" /\ r.list = s.list /\ r.to = s.to
      /\ r.got = s.got /\ r.cached = s.cached /\ r.view = s.view /\ r.fresh = s.fresh
  BY <1>1, <1>2 DEF Tab
<1>6. Become(t, r)
  BY DEF CommitFlip
<1> HIDE DEF r
<1>7. tab'[t] = r /\ \A o \in Tabs \ {t} : tab'[o] = tab[o]
  BY <1>6, Becoming DEF Inv
<1>8. OneRequest' /\ OneCreator'
  BY <1>1, <1>5, <1>6, Requests, Creators DEF Inv, RescueInv, MidRequest
<1>9. Membership' /\ Objects'
  BY <1>1 DEF RescueInv, Membership, Objects
<1>10. AllPlaced'
  <2>1. Placed(r, UserOf[t], row', members')
    BY <1>1, <1>2, <1>5 DEF TabFits, Placed, InFlow
  <2>2. ASSUME NEW o \in Tabs \ {t} PROVE Placed(tab[o], UserOf[o], row', members')
    <3>1. tab[o].pc \notin MidRequest
      BY <1>1 DEF RescueInv, OneRequest, MidRequest
    <3> QED BY <1>1, <3>1 DEF RescueInv, AllPlaced, Placed, MidRequest
  <2> QED BY <1>7, <2>1, <2>2 DEF AllPlaced
<1>11. PICK k \in Keys : k = s.fresh
  BY <1>2
<1>12. OneKey(k)'
  <2>1. Agrees(r, UserOf[t], blob, k)
    <3>1. r.got.full = TRUE /\ blob["v2"].full = TRUE
      <4>1. s.got.full \in BOOLEAN
        BY <1>1 DEF Tab, Blob
      <4> QED BY <1>4, <1>5, <4>1
    <3> QED BY <1>4, <1>5, <1>11, <3>1 DEF Agrees, Writes, Wraps
  <2>2. ASSUME NEW o \in Tabs \ {t} PROVE Agrees(tab[o], UserOf[o], blob, k)
    <3>1. UserOf[o] # LegacyOwner
      BY <1>2 DEF Orderly
    <3>2. Staged(tab[o], UserOf[o], blob, share)
      BY <1>3 DEF RescueInv, OldLive
    <3>3. tab[o].goal # "rescue" /\ InFlow(tab[o]) /\ tab[o] \in Tab
      BY <3>1 DEF RescueInv, AllPlaced, Placed, Inv, TypeOK
    <3>4. ~Writes(tab[o]) /\ ~Wraps(tab[o])
      BY <3>1, <3>2, <3>3 DEF Staged, InFlow, Writes, Wraps, Tab, Goals
    <3> QED BY <3>1, <3>2, <3>3, <3>4 DEF Staged, Agrees, Old
  <2>3. LegacyOwner \in members
    BY DEF RescueInv, Membership
  <2> QED BY <1>1, <1>4, <1>7, <1>11, <2>1, <2>2, <2>3 DEF OneKey
<1> QED BY <1>1, <1>2, <1>3, <1>4, <1>8, <1>9, <1>10, <1>12 DEF RescueInv, NothingYet, OldLive, NewLive

\* The sweep takes away the old object.
LEMMA SweepRescueInv ==
  ASSUME Orderly, Inv, RescueInv, NEW t \in Tabs, CommitSweep(t)
  PROVE  RescueInv'
<1> DEFINE s == tab[t]
<1>1. /\ s \in Tab /\ TabFits(t, s) /\ s.pc = "sweep" /\ UNCHANGED <<row, share, members, upgraded>>
      /\ row = "v2" /\ blob'["v2"] = blob["v2"]
  BY TabsFit, CommitSweepInv DEF Inv, TypeOK, CommitSweep
<1>2. s.goal = "rescue"
  BY <1>1 DEF TabFits, Placed, InFlow, Tab, Goals
<1>3. PICK k \in Keys \union {NoKey} : OneKey(k)
  BY <1>1 DEF RescueInv, NewLive
<1> DEFINE x == [s EXCEPT !.cached = s.fresh,
                   !.view = IF s.goal = "rescue" THEN Entries(s.got) ELSE s.view]
<1>4. x \in Tab /\ x.cached = s.fresh /\ x.view = Entries(s.got)
  BY <1>1, <1>2 DEF Tab, Entries
<1>5. Become(t, Done(x))
  BY DEF CommitSweep
<1> HIDE DEF x
<1>6. Keeps(t, x)
  BY <1>1, <1>4 DEF TabFits, Agrees, Writes, Keeps, Entries
<1> DEFINE r == Done(x)
<1>7. TabFits(t, r) /\ r.pc = "idle" /\ r.goal = "none" /\ Become(t, r)
  BY <1>4, <1>5, <1>6, DoneFits
<1> HIDE DEF r
<1>8. tab'[t] = r /\ \A o \in Tabs \ {t} : tab'[o] = tab[o]
  BY <1>7, Becoming DEF Inv
<1>9. OneRequest' /\ OneCreator'
  BY <1>7, Requests, Creators DEF Inv, RescueInv, MidRequest
<1>10. Membership'
  BY <1>1 DEF RescueInv, Membership
<1>11. Objects'
  <2>1. blob'["v1"] \in {NoBlob, blob["v1"]}
    BY DEF CommitSweep, Inv, TypeOK, Versions
  <2> QED BY <1>1, <2>1 DEF RescueInv, Objects, Versions, NoBlob
<1>12. AllPlaced'
  BY <1>1, <1>7, <1>8 DEF RescueInv, AllPlaced, TabFits
<1>13. OneKey(k)'
  <2>1. \A o \in Tabs : Agrees(tab'[o], UserOf[o], blob, k)
    BY <1>1, <1>3, <1>7, <1>8 DEF OneKey, TabFits
  <2>2. \A o \in Tabs : Agrees(tab'[o], UserOf[o], blob', k)
    BY <1>1, <2>1 DEF Agrees
  <2> QED BY <1>1, <1>3, <2>2 DEF OneKey
<1> QED BY <1>1, <1>9, <1>10, <1>11, <1>12, <1>13
        DEF RescueInv, NothingYet, OldLive, NewLive

\* A deletion finds no request under way.
LEMMA DeleteRescueInv ==
  ASSUME Orderly, Inv, RescueInv, NEW t \in Tabs, DeleteBatch(t) \/ DeletePurge(t)
  PROVE  RescueInv'
<1> DEFINE s == tab[t]
<1>1. /\ s \in Tab /\ TabFits(t, s) /\ row' = "deleted" /\ UNCHANGED <<members, upgraded>>
  BY TabsFit, DeleteInv DEF Inv, TypeOK, DeleteBatch, DeletePurge
<1>2. CASE DeleteBatch(t)
  <2> DEFINE r == [s EXCEPT !.pc = "purge"]
  <2>1. Become(t, r) /\ Turn(t) /\ s.pc = "delete"
    BY <1>2 DEF DeleteBatch
  <2>2. /\ r.pc = "purge" /\ r.goal = s.goal /\ r.list = s.list /\ r.to = s.to
        /\ r.got = s.got
    BY <1>1 DEF Tab
  <2> HIDE DEF r
  <2>3. s.goal = "delete"
    BY <1>1, <2>1 DEF TabFits, Placed, InFlow, Tab, Goals
  <2>4. tab'[t] = r /\ \A o \in Tabs \ {t} : tab'[o] = tab[o]
    BY <2>1, Becoming DEF Inv
  <2>5. OneRequest' /\ OneCreator'
    BY <2>1, <2>2, Requests, Creators DEF Inv, RescueInv
  <2>6. Membership' /\ Objects'
    BY <1>1, <1>2 DEF DeleteBatch, RescueInv, Membership, Objects
  <2>7. AllPlaced'
    <3>1. Placed(r, UserOf[t], row', members')
      BY <1>1, <2>2, <2>3 DEF TabFits, Placed, InFlow
    <3>2. ASSUME NEW o \in Tabs \ {t} PROVE Placed(tab[o], UserOf[o], row', members')
      <4>1. tab[o].pc \notin MidRequest
        BY <2>1 DEF Turn, Orderly
      <4> QED BY <1>1, <4>1 DEF RescueInv, AllPlaced, Placed, MidRequest
    <3> QED BY <2>4, <3>1, <3>2 DEF AllPlaced
  <2> QED BY <1>1, <2>5, <2>6, <2>7 DEF RescueInv, NothingYet, OldLive, NewLive
<1>3. CASE DeletePurge(t)
  <2> DEFINE r == Done(s)
  <2>1. row = "deleted" /\ Become(t, r) /\ UNCHANGED share
    BY <1>3 DEF DeletePurge, Inv, TabsOK, TabOK, Fits
  <2>2. TabFits(t, r) /\ r.pc = "idle" /\ r.goal = "none"
    BY <1>1, <2>1, DoneFits DEF Keeps
  <2> HIDE DEF r
  <2>3. tab'[t] = r /\ \A o \in Tabs \ {t} : tab'[o] = tab[o]
    BY <2>1, Becoming DEF Inv
  <2>4. OneRequest' /\ OneCreator'
    BY <2>1, <2>2, Requests, Creators DEF Inv, RescueInv, MidRequest
  <2>5. Membership' /\ Objects'
    BY <1>1, <1>3, <2>1 DEF DeletePurge, RescueInv, Membership, Objects, NoBlob
  <2>6. AllPlaced'
    BY <1>1, <2>1, <2>2, <2>3 DEF RescueInv, AllPlaced, TabFits
  <2> QED BY <1>1, <2>4, <2>5, <2>6 DEF RescueInv, NothingYet, OldLive, NewLive
<1> QED BY <1>2, <1>3

\* A new keypair, or a step of nobody.
LEMMA QuietRescueInv ==
  ASSUME RescueInv, UNCHANGED <<row, blob, share, members, tab>>,
         upgraded \subseteq upgraded'
  PROVE  RescueInv'
BY DEF RescueInv, Membership, Objects, OneRequest, OneCreator, AllPlaced, NothingYet,
   OldLive, NewLive, OneKey

\* Every step keeps the invariant.
THEOREM RescueStep ==
  ASSUME Orderly
  PROVE  Inv /\ RescueInv /\ [Next]_vars => RescueInv'
<1> SUFFICES ASSUME Inv, RescueInv, [Next]_vars PROVE RescueInv'
  OBVIOUS
<1>1. CASE UNCHANGED vars
  BY <1>1, QuietRescueInv DEF vars
<1>2. ASSUME NEW t \in Tabs, Continue(t) PROVE RescueInv'
  <2>1. CASE CreateAcl(t)
    BY <2>1, AclRescueInv
  <2>2. CASE LookupMember(t) \/ DownloadSelect(t) \/ DownloadGet(t)
    BY <2>2, DownloadRescueInv
  <2>3. CASE ListMembers(t)
    BY <2>3, ListRescueInv
  <2>4. CASE \/ ShowEntries(t) \/ StartRescue(t) \/ StartRotate(t) \/ StartGrant(t)
             \/ CannotDecrypt(t)
    BY <2>4, OpenedRescueInv
  <2>5. CASE UploadSelect(t) \/ ShareCheck(t) \/ CommitCheck(t)
    BY <2>5, CheckRescueInv
  <2>6. CASE UploadPut(t)
    BY <2>6, PutRescueInv
  <2>7. CASE ShareBatch(t)
    BY <2>7, ShareRescueInv
  <2>8. CASE CommitFlip(t)
    BY <2>8, FlipRescueInv
  <2>9. CASE CommitSweep(t)
    BY <2>9, SweepRescueInv
  <2>10. CASE DeleteBatch(t) \/ DeletePurge(t)
    BY <2>10, DeleteRescueInv
  <2>11. CASE Refused(t) \/ SkipMember(t)
    BY <2>11, FailureRescueInv
  <2> QED BY <1>2, <2>1, <2>2, <2>3, <2>4, <2>5, <2>6, <2>7, <2>8, <2>9, <2>10, <2>11
          DEF Continue
<1>3. ASSUME NEW t \in Tabs,
             OpenVault(t) \/ SaveVault(t) \/ DeleteVault(t) \/ Reconcile(t)
      PROVE  RescueInv'
  BY <1>3, StartRescueInv
<1>4. ASSUME NEW t \in Tabs, CreateVault(t) PROVE RescueInv'
  BY <1>4, CreateRescueInv
<1>5. ASSUME NEW t \in Tabs, NEW u \in Users, AddMember(t, u) \/ RemoveMember(t, u)
      PROVE  RescueInv'
  <2>1. CASE AddMember(t, u)
    BY <2>1, JoinRescueInv
  <2>2. CASE RemoveMember(t, u)
    BY <2>2 DEF RemoveMember, Orderly
  <2> QED BY <1>5, <2>1, <2>2
<1>6. ASSUME NEW t \in Tabs, Fail(t) \/ Crash(t) \/ Reload(t) PROVE RescueInv'
  BY <1>6, FailureRescueInv
<1>7. ASSUME NEW u \in Users, Upgrade(u) PROVE RescueInv'
  BY <1>7, QuietRescueInv DEF Upgrade
<1> QED BY <1>1, <1>2, <1>3, <1>4, <1>5, <1>6, <1>7 DEF Next

\* The invariant holds in every state that Spec reaches.
THEOREM RescueInvariance ==
  ASSUME Orderly
  PROVE  Spec => []RescueInv
<1>1. Init => RescueInv
  BY InitRescue
<1>2. Inv /\ RescueInv /\ [Next]_vars => RescueInv'
  BY RescueStep
<1> QED BY <1>1, <1>2, Invariance, PTL DEF Spec

-----------------------------------------------------------------------------
(* What the invariant says of the promise.                                 *)

\* While the old contents are live their creator alone can read them.
LEMMA OldFacts ==
  Inv /\ RescueInv /\ row = "v1" =>
    Live = Old /\ Status = "stored" /\ Readers = {LegacyOwner}
<1> SUFFICES ASSUME Inv, RescueInv, row = "v1"
             PROVE  Live = Old /\ Status = "stored" /\ Readers = {LegacyOwner}
  OBVIOUS
<1>1. Live = Old /\ Live # NoBlob /\ Live.key = Legacy
  BY DEF RescueInv, OldLive, Live, Old, NoBlob, Versions
<1>2. \A u \in members : CanOpen(u) <=> u = LegacyOwner
  BY <1>1, VaultKeysAssumption DEF CanOpen, Inv, TypeOK
<1>3. LegacyOwner \in members
  BY DEF RescueInv, Membership
<1> QED BY <1>1, <1>2, <1>3 DEF Status, Readers

\* Under the key hierarchy the readers are those who hold the live key, and there
\* are some as soon as anything is stored.
LEMMA NewFacts ==
  Inv /\ RescueInv /\ row = "v2" =>
    /\ Live = blob["v2"] /\ (Live = NoBlob <=> Live.key = NoKey)
    /\ Status = (IF Live = NoBlob THEN "empty" ELSE "stored")
    /\ Live = NoBlob => Readers = {}
    /\ Live # NoBlob => Readers = {u \in members : share[u] = Live.key} /\ Readers # {}
    /\ Live # NoBlob => \A u \in Users : share[u] \in {NoKey, Live.key}
<1> SUFFICES ASSUME Inv, RescueInv, row = "v2"
             PROVE  /\ Live = blob["v2"] /\ (Live = NoBlob <=> Live.key = NoKey)
                    /\ Status = (IF Live = NoBlob THEN "empty" ELSE "stored")
                    /\ Live = NoBlob => Readers = {}
                    /\ Live # NoBlob => /\ Readers = {u \in members : share[u] = Live.key}
                                        /\ Readers # {}
                    /\ Live # NoBlob => \A u \in Users : share[u] \in {NoKey, Live.key}
  OBVIOUS
<1>1. PICK k \in Keys \union {NoKey} : OneKey(k)
  BY DEF RescueInv, NewLive
<1>2. Live = blob["v2"] /\ Live \in Blob /\ Live.key \in {NoKey, k} /\ Live.key # Legacy
  BY <1>1, VaultKeysAssumption DEF Live, Versions, OneKey, Inv, TypeOK
<1>3. Live.key = NoKey => Live.full = FALSE
  BY <1>2 DEF RescueInv, Objects, Versions, Blob
<1>4. Live = [key |-> Live.key, full |-> Live.full]
  BY <1>2 DEF Blob
<1>5. Live = NoBlob <=> Live.key = NoKey
  BY <1>3, <1>4 DEF NoBlob
<1>6. \A u \in members : CanOpen(u) <=> share[u] = Live.key
  BY <1>2 DEF CanOpen
<1>7. Live # NoBlob => Live.key = k /\ \E u \in members : share[u] = k
  BY <1>1, <1>2, <1>5 DEF OneKey
<1>8. Live # NoBlob => \A u \in Users : share[u] \in {NoKey, Live.key}
  BY <1>1, <1>7 DEF OneKey
<1> QED BY <1>2, <1>5, <1>6, <1>7, <1>8 DEF Status, Readers, Versions

\* Without a vault there is nothing to read.
LEMMA OffFacts ==
  row \notin Versions =>
    /\ Live = NoBlob /\ Readers = {}
    /\ row = "deleted" => Status = "deleted"
    /\ row \in {"absent", "bare"} => Status = "none"
BY DEF Live, Readers, Status

\* The same of the state after a step.
LEMMA FactsAfter ==
  /\ Inv' /\ RescueInv' /\ row' = "v1" =>
       Live' = Old /\ Status' = "stored" /\ Readers' = {LegacyOwner}
  /\ Inv' /\ RescueInv' /\ row' = "v2" =>
       /\ Live' = blob'["v2"] /\ (Live' = NoBlob <=> Live'.key = NoKey)
       /\ Status' = (IF Live' = NoBlob THEN "empty" ELSE "stored")
       /\ Live' = NoBlob => Readers' = {}
       /\ Live' # NoBlob => Readers' = {u \in members' : share'[u] = Live'.key} /\ Readers' # {}
  /\ row' \notin Versions =>
       /\ Live' = NoBlob /\ Readers' = {}
       /\ row' = "deleted" => Status' = "deleted"
       /\ row' \in {"absent", "bare"} => Status' = "none"
<1>1. (Inv /\ RescueInv /\ row = "v1" =>
        Live = Old /\ Status = "stored" /\ Readers = {LegacyOwner})'
  BY OldFacts, PTL
<1>2. (Inv /\ RescueInv /\ row = "v2" =>
        /\ Live = blob["v2"] /\ (Live = NoBlob <=> Live.key = NoKey)
        /\ Status = (IF Live = NoBlob THEN "empty" ELSE "stored")
        /\ Live = NoBlob => Readers = {}
        /\ Live # NoBlob => Readers = {u \in members : share[u] = Live.key} /\ Readers # {}
        /\ Live # NoBlob => \A u \in Users : share[u] \in {NoKey, Live.key})'
  BY NewFacts, PTL
<1>3. (row \notin Versions =>
        /\ Live = NoBlob /\ Readers = {}
        /\ row = "deleted" => Status = "deleted"
        /\ row \in {"absent", "bare"} => Status = "none")'
  BY OffFacts, PTL
<1> QED BY <1>1, <1>2, <1>3 DEF Old, NoBlob, Versions

-----------------------------------------------------------------------------
(* The theorems.                                                           *)

\* Every share that exists of a vault under the key hierarchy opens it: no member
\* is left with the key of an abandoned rescue, which the gap query would not
\* report.
THEOREM SharesOpen ==
  ASSUME Orderly
  PROVE  Spec => []SharesOpenLive
<1>1. Inv /\ RescueInv => SharesOpenLive
  BY NewFacts DEF SharesOpenLive
<1> QED BY <1>1, Invariance, RescueInvariance, PTL

\* What changes shares: a share request, a deletion, a removal.
LEMMA ShareWriters ==
  ASSUME [Next]_vars
  PROVE  \/ UNCHANGED share
         \/ \E o \in Tabs : \/ ShareBatch(o) \/ DeleteBatch(o)
                           \/ \E m \in Users : RemoveMember(o, m)
<1>1. ASSUME NEW o \in Tabs,
             \/ CreateAcl(o) \/ LookupMember(o) \/ ListMembers(o)
             \/ DownloadSelect(o) \/ DownloadGet(o) \/ ShowEntries(o) \/ StartRescue(o)
             \/ StartRotate(o) \/ StartGrant(o) \/ CannotDecrypt(o) \/ UploadSelect(o)
             \/ UploadPut(o) \/ ShareCheck(o) \/ CommitCheck(o) \/ CommitFlip(o)
             \/ CommitSweep(o) \/ DeletePurge(o) \/ Refused(o) \/ SkipMember(o)
             \/ OpenVault(o) \/ SaveVault(o) \/ CreateVault(o) \/ DeleteVault(o)
             \/ Reconcile(o) \/ Fail(o) \/ Crash(o) \/ Reload(o)
      PROVE  UNCHANGED share
  BY <1>1 DEF CreateAcl, LookupMember, ListMembers, DownloadSelect, DownloadGet,
     ShowEntries, StartRescue, StartRotate, StartGrant, CannotDecrypt, UploadSelect,
     UploadPut, ShareCheck, CommitCheck, CommitFlip, CommitSweep, DeletePurge, Refused,
     SkipMember, OpenVault, SaveVault, CreateVault, DeleteVault, Reconcile, Fail, Crash,
     Reload, server
<1>2. ASSUME NEW o \in Tabs, NEW m \in Users, AddMember(o, m) PROVE UNCHANGED share
  BY <1>2 DEF AddMember
<1>3. ASSUME NEW m \in Users, Upgrade(m) PROVE UNCHANGED share
  BY <1>3 DEF Upgrade
<1>4. UNCHANGED vars => UNCHANGED share
  BY DEF vars
<1> QED BY <1>1, <1>2, <1>3, <1>4 DEF Next, Continue

\* The initial states are initial states of the promise.
LEMMA PromiseInit == Init => Promised!Init
<1> SUFFICES ASSUME Init PROVE Promised!Init
  OBVIOUS
<1>1. Inv /\ RescueInv
  BY InitInv, InitRescue
<1>2. members \subseteq Users
  BY <1>1 DEF Inv, TypeOK
<1>3. CASE row = "absent"
  BY <1>2, <1>3, OffFacts DEF Promised!Init, NoBlob, Versions
<1>4. CASE row = "v1"
  <2>1. Status = "stored" /\ Live.full = TRUE /\ Readers = {LegacyOwner}
    BY <1>1, <1>4, OldFacts DEF Old
  <2>2. LegacyOwner \in members
    BY <1>1 DEF RescueInv, Membership
  <2> QED BY <1>2, <2>1, <2>2 DEF Promised!Init
<1> QED BY <1>3, <1>4 DEF Init

\* A step that leaves the tables and the live object alone is invisible.
LEMMA Invisible ==
  ASSUME UNCHANGED <<row, share, members>>, row \in Versions => blob'[row] = blob[row]
  PROVE  UNCHANGED Promised!vars
<1>1. Live' = Live
  BY DEF Live
<1>2. Status' = Status
  BY <1>1 DEF Status
<1>3. Readers' = Readers
  BY <1>1 DEF Readers, CanOpen
<1> QED BY <1>1, <1>2, <1>3 DEF Promised!vars

\* Every step is one of the promise, or invisible.
LEMMA PromiseStep ==
  ASSUME Orderly, Inv, RescueInv, Inv', RescueInv', [Next]_vars
  PROVE  [Promised!Next]_(Promised!vars)
<1>1. CASE UNCHANGED <<row, blob, share, members>>
  BY <1>1, Invisible
<1>2. ASSUME NEW t \in Tabs, CreateVault(t) PROVE UNCHANGED Promised!vars
  <2>1. row = "absent" /\ row' = "bare" /\ members' = members
    BY <1>2 DEF CreateVault
  <2> QED BY <2>1, OffFacts, FactsAfter DEF Promised!vars, Versions
<1>3. ASSUME NEW t \in Tabs, CreateAcl(t) PROVE Promised!Create
  <2>1. row = "bare" /\ row' = "v2" /\ UNCHANGED <<blob, members>>
    BY <1>3 DEF CreateAcl, Orderly, Inv, TabsOK, TabOK, Fits
  <2>2. Live' = NoBlob
    BY <2>1, FactsAfter DEF RescueInv, NothingYet, Versions
  <2> QED BY <2>1, <2>2, OffFacts, FactsAfter DEF Promised!Create, Versions
<1>4. ASSUME NEW t \in Tabs, NEW u \in Users, AddMember(t, u) PROVE Promised!Join(u)
  <2>1. /\ u \notin members /\ members' = members \union {u}
        /\ UNCHANGED <<row, blob, share>>
    BY <1>4 DEF AddMember
  <2>2. Live' = Live /\ Status' = Status
    BY <2>1 DEF Live, Status
  <2>3. Readers' = Readers
    <3>1. CASE Live = NoBlob
      BY <2>2, <3>1 DEF Readers
    <3>2. CASE Live # NoBlob
      <4>1. u # LegacyOwner /\ share[u] = NoKey
        BY <2>1 DEF RescueInv, Membership
      <4>2. Live.key # NoKey
        BY <3>2, OldFacts, NewFacts, OffFacts, VaultKeysAssumption DEF Old, Versions
      <4>3. ~CanOpen(u)
        BY <4>1, <4>2 DEF CanOpen
      <4>4. \A m \in Users : CanOpen(m)' <=> CanOpen(m)
        BY <2>1, <2>2 DEF CanOpen
      <4>5. members \subseteq Users
        BY DEF Inv, TypeOK
      <4> QED BY <2>1, <2>2, <3>2, <4>3, <4>4, <4>5 DEF Readers
    <3> QED BY <3>1, <3>2
  <2> QED BY <2>1, <2>2, <2>3 DEF Promised!Join
<1>5. ASSUME NEW t \in Tabs, UploadPut(t)
      PROVE  Promised!Store \/ UNCHANGED Promised!vars
  <2>1. /\ row \in Versions /\ (row = "v1" => blob'["v1"] = blob["v1"])
        /\ row = "v2" => /\ blob'["v2"].full = blob["v2"].full
                         /\ blob["v2"].key # NoKey => blob'["v2"] = blob["v2"]
    BY <1>5, PutRescueInv
  <2>2. UNCHANGED <<row, share, members>>
    BY <1>5 DEF UploadPut
  <2>3. CASE blob'[row] = blob[row]
    BY <2>2, <2>3, Invisible
  <2>4. CASE blob'[row] # blob[row]
    <3>1. row = "v2" /\ Live = NoBlob
      BY <2>1, <2>4, NewFacts DEF Versions
    <3>2. Status = "empty" /\ Readers = {} /\ Live.full = blob["v2"].full
      BY <3>1, NewFacts
    <3>3. Live' # NoBlob /\ Live'.full = Live.full
      BY <2>1, <2>2, <2>4, <3>1, <3>2, NewFacts, FactsAfter
    <3>4. Status' = "stored" /\ Readers' # {} /\ Readers' \subseteq members
      BY <2>2, <3>1, <3>3, FactsAfter
    <3> QED BY <2>2, <3>2, <3>3, <3>4 DEF Promised!Store
  <2> QED BY <2>3, <2>4
<1>6. ASSUME NEW t \in Tabs, ShareBatch(t)
      PROVE  Promised!Admit \/ UNCHANGED Promised!vars
  <2>1. /\ row \in Versions
        /\ row = "v2" /\ blob["v2"].key # NoKey =>
             \A u \in Users : share[u] = blob["v2"].key => share'[u] = share[u]
    BY <1>6, ShareRescueInv
  <2>2. UNCHANGED <<row, blob, members>> /\ Live' = Live /\ Status' = Status
    BY <1>6 DEF ShareBatch, Live, Status
  <2>3. CASE row = "v1"
    BY <2>2, <2>3, OldFacts, FactsAfter DEF Promised!vars
  <2>4. CASE row = "v2" /\ Live = NoBlob
    BY <2>2, <2>4, NewFacts, FactsAfter DEF Promised!vars
  <2>5. CASE row = "v2" /\ Live # NoBlob
    <3>1. Status = "stored" /\ Readers = {u \in members : share[u] = Live.key}
      BY <2>5, NewFacts
    <3>2. Readers' = {u \in members : share'[u] = Live.key}
      BY <2>2, <2>5, FactsAfter
    <3>3. \A u \in Users : share[u] = Live.key => share'[u] = Live.key
      BY <2>1, <2>5, NewFacts
    <3>4. members \subseteq Users
      BY DEF Inv, TypeOK
    <3> QED BY <2>2, <3>1, <3>2, <3>3, <3>4 DEF Promised!Admit
  <2> QED BY <2>1, <2>3, <2>4, <2>5 DEF Versions
<1>7. ASSUME NEW t \in Tabs, CommitFlip(t) PROVE Promised!Admit
  <2>1. /\ row = "v1" /\ row' = "v2" /\ UNCHANGED <<blob, share, members>>
        /\ blob["v2"].full = TRUE /\ share[LegacyOwner] = blob["v2"].key
    BY <1>7, FlipRescueInv
  <2>2. Status = "stored" /\ Live.full = TRUE /\ Readers = {LegacyOwner}
    BY <2>1, OldFacts DEF Old
  <2>3. Live' = blob["v2"] /\ Live' # NoBlob
    BY <2>1, FactsAfter DEF NoBlob
  <2>4. Status' = "stored" /\ Readers' = {u \in members : share[u] = blob["v2"].key}
    BY <2>1, <2>3, FactsAfter
  <2>5. LegacyOwner \in members
    BY DEF RescueInv, Membership
  <2> QED BY <2>1, <2>2, <2>3, <2>4, <2>5 DEF Promised!Admit
<1>8. ASSUME NEW t \in Tabs, CommitSweep(t) PROVE UNCHANGED Promised!vars
  BY <1>8, CommitSweepInv, Invisible DEF CommitSweep
<1>9. ASSUME NEW t \in Tabs, DeleteBatch(t) \/ DeletePurge(t) PROVE Promised!Delete
  <2>1. row' = "deleted" /\ members' = members
    BY <1>9, DeleteInv DEF DeleteBatch, DeletePurge
  <2> QED BY <2>1, FactsAfter DEF Promised!Delete, NoBlob, Versions
<1>10. ASSUME NEW t \in Tabs, NEW u \in Users, RemoveMember(t, u) PROVE FALSE
  BY <1>10 DEF RemoveMember, Orderly
<1>11. ASSUME NEW t \in Tabs,
              \/ LookupMember(t) \/ ListMembers(t) \/ DownloadSelect(t) \/ DownloadGet(t)
              \/ ShowEntries(t) \/ StartRescue(t) \/ StartRotate(t) \/ StartGrant(t)
              \/ CannotDecrypt(t) \/ UploadSelect(t) \/ ShareCheck(t) \/ CommitCheck(t)
              \/ Refused(t) \/ SkipMember(t) \/ OpenVault(t) \/ SaveVault(t)
              \/ DeleteVault(t) \/ Reconcile(t) \/ Fail(t) \/ Crash(t) \/ Reload(t)
       PROVE  UNCHANGED <<row, blob, share, members>>
  BY <1>11 DEF LookupMember, ListMembers, DownloadSelect, DownloadGet, ShowEntries,
     StartRescue, StartRotate, StartGrant, CannotDecrypt, UploadSelect, ShareCheck,
     CommitCheck, Refused, SkipMember, OpenVault, SaveVault, DeleteVault, Reconcile, Fail,
     Crash, Reload, server
<1>12. ASSUME NEW u \in Users, Upgrade(u) PROVE UNCHANGED <<row, blob, share, members>>
  BY <1>12 DEF Upgrade
<1>13. UNCHANGED vars => UNCHANGED <<row, blob, share, members>>
  BY DEF vars
<1>14. CASE Next
  BY <1>1, <1>2, <1>3, <1>4, <1>5, <1>6, <1>7, <1>8, <1>9, <1>10, <1>11, <1>12, <1>14
     DEF Next, Continue, Promised!Next
<1> QED BY <1>1, <1>13, <1>14

\* VaultKeys implements VaultPromise: rescues, grants and saves, in any number of
\* tabs that may crash between any two requests and inside one, never lose the
\* entries of a vault or take it from somebody who could read it.
THEOREM PromiseKept ==
  ASSUME Orderly
  PROVE  Spec => KeepsPromise
<1>1. Inv /\ RescueInv /\ Inv' /\ RescueInv' /\ [Next]_vars =>
        [Promised!Next]_(Promised!vars)
  BY PromiseStep
<1> QED BY <1>1, PromiseInit, Invariance, RescueInvariance, PTL
        DEF Spec, KeepsPromise, Promised!Spec

-----------------------------------------------------------------------------
(* One tab, and removals: what becomes of the keys of removed members.     *)

\* The hypotheses: one tab, that works through each of its flows.
Alone == Faults = {} /\ \E t : Tabs = {t}

\* Where a rotation stands before it has its new key.
BeforeNewKey == {"members", "select", "get", "share"}

\* The awaits of each flow, and when the flow has generated a key.
Awaits(r) ==
  /\ r.goal = "none" <=> r.pc = "idle"
  /\ r.goal = "none" => r.fresh = NoKey /\ r.list = {} /\ r.to = {}
  /\ r.goal = "open" => r.pc \in {"select", "get", "share"}
  /\ r.goal = "grant" =>
       r.pc \in {"lookup", "select", "get", "share", "share_check", "share_batch"}
  /\ r.goal = "save" => r.pc \in {"put_select", "put"}
  /\ r.goal = "delete" => r.pc = "delete"
  /\ r.goal = "create" =>
       /\ r.pc \in {"acl", "members", "share_check", "share_batch", "put_select", "put"}
       /\ r.fresh = NoKey <=> r.pc \in {"acl", "members"}
  /\ r.goal = "rescue" =>
       /\ r.pc \in {"put_select", "put", "members", "share_check", "share_batch",
                    "commit", "flip", "sweep"}
       /\ r.fresh # NoKey
  /\ r.goal = "rotate" =>
       /\ r.pc \in BeforeNewKey \union
            {"put_select", "put", "share_check", "share_batch", "commit", "flip", "sweep"}
       /\ r.fresh = NoKey <=> r.pc \in BeforeNewKey

Generated(r) == r.goal \in {"create", "rescue", "rotate"} /\ r.fresh # NoKey

\* A key that only members were given a share of.
MembersOnly(k) == \A w \in Users \ members : k \notin held[w]

\* What the tab of user u knows is so: its recipients are members, itself among
\* those of a new key, and it has read the row and the object that are there.
Carries(r, u) ==
  /\ r.list \subseteq members /\ r.to \subseteq members
  /\ r.goal \notin {"none", "open"} => u \in members
  /\ r.goal # "none" => u \in upgraded
  /\ r.goal \in {"create", "rescue", "rotate"} =>
       /\ r.pc = "share_check" => u \in r.list
       /\ r.pc = "share_batch" => u \in r.to
  /\ r.goal = "rotate" /\ r.pc \in {"select", "get", "share", "put_select", "put"} =>
       u \in r.list
  /\ r.pc = "get" => r.ver = row
  /\ r.pc = "share" => r.got = Live
  /\ r.pc = "put" => r.ver = "v2"
  /\ Generated(r) => MembersOnly(r.fresh)

\* No vault yet, or one without an access list.
NotYet(r) ==
  row \in {"absent", "bare"} =>
    /\ blob["v2"] = NoBlob /\ r.cached = NoKey
    /\ row = "absent" => r.pc \in {"idle", "lookup", "select"}
    /\ row = "bare" => r.pc = "acl"

\* The pre-upgrade contents are live: there is no key to save with or to grant, and
\* a flow past its write has staged the object of its key.
OldKey(r, u) ==
  row = "v1" =>
    /\ blob["v1"].key = Legacy
    /\ r.cached = NoKey
    /\ r.goal \notin {"save", "create"}
    /\ r.pc \notin {"sweep", "acl"}
    /\ r.goal = "grant" => r.pc \in {"lookup", "select", "get", "share"}
    /\ share[u] = (IF r.pc \in {"commit", "flip"} THEN r.fresh ELSE NoKey)
    /\ Generated(r) /\ r.pc \notin {"put_select", "put"} => blob["v2"].key = r.fresh

Rekeyed(r) == r.goal \in {"rescue", "rotate"} /\ r.pc \in {"commit", "flip", "sweep"}
Replacing(r) == r.goal = "rotate" /\ r.pc \in {"share_check", "share_batch"}

\* The vault is under the key hierarchy: the user of the tab holds the live key,
\* a rotation writes the object anew before its shares, and a removed member was
\* given the live key only if a rotation is on its way.
NewKey(r, u) ==
  row = "v2" =>
    /\ u \in members /\ u \in upgraded
    /\ r.goal = "create" =>
         /\ r.pc # "acl" /\ blob["v2"].key = NoKey
         /\ r.pc \in {"put_select", "put"} => share[u] = r.fresh /\ r.cached = r.fresh
    /\ r.goal # "create" =>
         /\ blob["v2"].key \in Keys
         /\ r.goal = "rescue" => r.pc = "sweep"
         /\ Rekeyed(r) \/ Replacing(r) => blob["v2"].key = r.fresh
         /\ ~Replacing(r) => share[u] = blob["v2"].key
         /\ ~Rekeyed(r) /\ ~Replacing(r) => r.cached \in {NoKey, blob["v2"].key}
         /\ r.goal = "save" \/ (r.goal = "grant" /\ r.pc \in {"share_check", "share_batch"})
              => r.fresh = blob["v2"].key
         /\ r.goal # "rotate" => MembersOnly(blob["v2"].key)

\* All of it, as long as the vault is not deleted, which it then stays.
Sound(r, u) ==
  IF row = "deleted" THEN r.pc # "acl"
  ELSE Awaits(r) /\ Carries(r, u) /\ NotYet(r) /\ OldKey(r, u) /\ NewKey(r, u)

\* The inductive invariant, besides Inv.
AloneInv == \A t \in Tabs : Sound(tab[t], UserOf[t])

\* Idle tabs, and no key but the legacy one.
LEMMA InitAlone == Init => AloneInv
<1> SUFFICES ASSUME Init, NEW t \in Tabs PROVE Sound(tab[t], UserOf[t])
  BY DEF AloneInv
<1>1. tab[t] = NewTab /\ row \in {"absent", "v1"}
  BY DEF Init
<1> PICK r : r = tab[t]
  OBVIOUS
<1>2. /\ r.pc = "idle" /\ r.goal = "none" /\ r.fresh = NoKey /\ r.list = {} /\ r.to = {}
      /\ r.cached = NoKey
  BY <1>1 DEF NewTab
<1>3. /\ row # "v2" => blob["v2"] = NoBlob
      /\ row = "v1" => blob["v1"].key = Legacy
      /\ UserOf[t] \in Users /\ share[UserOf[t]] = NoKey
  BY VaultKeysAssumption DEF Init, Versions
<1>4. Awaits(r)
  BY <1>2 DEF Awaits
<1>5. Carries(r, UserOf[t])
  BY <1>2 DEF Carries, Generated
<1>6. NotYet(r) /\ OldKey(r, UserOf[t]) /\ NewKey(r, UserOf[t])
  BY <1>1, <1>2, <1>3 DEF NotYet, OldKey, NewKey, Generated
<1> QED BY <1>1, <1>4, <1>5, <1>6 DEF Sound

\* The tab there is, and what is so of it.
LEMMA TheTab ==
  ASSUME Alone, Inv, AloneInv, NEW t \in Tabs
  PROVE  /\ tab[t] \in Tab /\ UserOf[t] \in Users /\ Sound(tab[t], UserOf[t])
         /\ TabOK(tab[t])
         /\ \A s : Become(t, s) /\ Sound(s, UserOf[t])' => AloneInv'
BY VaultKeysAssumption DEF Alone, AloneInv, Inv, TypeOK, TabsOK, Become

\* A step of the tab alone.
LEMMA TabAlone ==
  ASSUME Alone, Inv, AloneInv, NEW t \in Tabs, UNCHANGED server,
         NEW s, Become(t, s), Sound(s, UserOf[t])
  PROVE  AloneInv'
<1>1. Sound(s, UserOf[t])'
  BY DEF server, Sound, Awaits, Carries, NotYet, OldKey, NewKey, Generated, MembersOnly, Rekeyed,
     Replacing, BeforeNewKey, Live, Versions
<1> QED BY <1>1, TheTab

\* A tab at rest, whatever it has cached.
LEMMA RestSound ==
  ASSUME NEW u, NEW r, r.pc = "idle", r.goal = "none", r.fresh = NoKey, r.list = {}, r.to = {},
         row # "deleted" => NotYet(r) /\ OldKey(r, u) /\ NewKey(r, u)
  PROVE  Sound(r, u)
BY DEF Sound, Awaits, Carries, Generated

\* The states of the row, and that the keys are told apart.
LEMMA TypedRow ==
  Inv => /\ row \in {"absent", "bare", "v1", "v2", "deleted"}
         /\ NoKey \notin Keys /\ Legacy \notin Keys /\ Legacy # NoKey
BY VaultKeysAssumption DEF Inv, TypeOK, Versions

\* What a tab at rest may have cached, and what must be so of the vault.
Resting(c, u) ==
  /\ row \in {"absent", "bare"} => row = "absent" /\ blob["v2"] = NoBlob /\ c = NoKey
  /\ row = "v1" => blob["v1"].key = Legacy /\ share[u] = NoKey /\ c = NoKey
  /\ row = "v2" =>
       /\ u \in members /\ u \in upgraded
       /\ blob["v2"].key \in Keys /\ MembersOnly(blob["v2"].key)
       /\ share[u] = blob["v2"].key /\ c \in {NoKey, blob["v2"].key}

\* A flow that is done leaves a tab at rest with what it has cached.
LEMMA DoneSound ==
  ASSUME NEW u, NEW r \in Tab, row # "deleted" => Resting(r.cached, u)
  PROVE  Sound(Done(r), u)
<1> PICK x : x = Done(r)
  OBVIOUS
<1>1. /\ x.pc = "idle" /\ x.goal = "none" /\ x.fresh = NoKey /\ x.list = {} /\ x.to = {}
      /\ x.cached = r.cached
  BY DEF Done, Tab
<1>2. row # "deleted" => NotYet(x) /\ OldKey(x, u) /\ NewKey(x, u)
  BY <1>1 DEF NotYet, OldKey, NewKey, Resting, Generated, Rekeyed, Replacing
<1> QED BY <1>1, <1>2, RestSound

\* What a user starts without a request that changes anything.
LEMMA StartAlone ==
  ASSUME Alone, Inv, AloneInv, NEW t \in Tabs,
         OpenVault(t) \/ SaveVault(t) \/ DeleteVault(t) \/ Reconcile(t)
  PROVE  AloneInv'
<1> PICK r : r = tab[t]
  OBVIOUS
<1> PICK u : u = UserOf[t]
  OBVIOUS
<1>1. r \in Tab /\ u \in Users /\ Sound(r, u) /\ r.pc = "idle" /\ UNCHANGED server
  BY TheTab DEF OpenVault, SaveVault, DeleteVault, Reconcile
<1>2. u \in upgraded
  BY DEF OpenVault, SaveVault, DeleteVault, Reconcile, SignedIn
<1>3. CASE OpenVault(t)
  <2> PICK s : s = [r EXCEPT !.pc = "select", !.goal = "open"]
    OBVIOUS
  <2>1. Become(t, s)
    BY <1>3 DEF OpenVault
  <2>2. Sound(s, u)
    BY <1>1, <1>2 DEF Tab, Sound, Awaits, Carries, NotYet, OldKey, NewKey, Generated,
       Rekeyed, Replacing, BeforeNewKey, Live, Versions
  <2> QED BY <1>1, <2>1, <2>2, TabAlone
<1>4. CASE SaveVault(t)
  <2> PICK s : s = [r EXCEPT !.pc = "put_select", !.goal = "save", !.fresh = r.cached,
                     !.got = [key |-> r.cached, full |-> r.view = "full"]]
    OBVIOUS
  <2>1. Become(t, s) /\ r.cached # NoKey
    BY <1>4 DEF SaveVault
  <2>2. /\ s.pc = "put_select" /\ s.goal = "save" /\ s.fresh = r.cached
        /\ s.list = r.list /\ s.to = r.to /\ s.cached = r.cached
    BY <1>1 DEF Tab
  <2>3. Sound(s, u)
    BY <1>1, <1>2, <2>1, <2>2, TypedRow DEF Sound, Awaits, Carries, NotYet, OldKey,
       NewKey, Generated, Rekeyed, Replacing, BeforeNewKey, Live, Versions
  <2> QED BY <1>1, <2>1, <2>3, TabAlone
<1>5. CASE DeleteVault(t)
  <2> PICK s : s = [r EXCEPT !.pc = "delete", !.goal = "delete"]
    OBVIOUS
  <2>1. Become(t, s) /\ Entitled(u)
    BY <1>5 DEF DeleteVault
  <2>2. Sound(s, u)
    BY <1>1, <1>2, <2>1 DEF Tab, Entitled, Sound, Awaits, Carries, NotYet, OldKey,
       NewKey, Generated, Rekeyed, Replacing, BeforeNewKey, Live, Versions
  <2> QED BY <1>1, <2>1, <2>2, TabAlone
<1>6. CASE Reconcile(t)
  <2> PICK s : s = [r EXCEPT !.pc = "select", !.goal = "grant", !.list = Missing]
    OBVIOUS
  <2>1. Become(t, s) /\ Entitled(u) /\ Missing \subseteq members
    BY <1>6 DEF Reconcile, Missing, Keyed
  <2>2. Sound(s, u)
    BY <1>1, <1>2, <2>1 DEF Tab, Entitled, Sound, Awaits, Carries, NotYet, OldKey,
       NewKey, Generated, Rekeyed, Replacing, BeforeNewKey, Live, Versions
  <2> QED BY <1>1, <2>1, <2>2, TabAlone
<1> QED BY <1>3, <1>4, <1>5, <1>6

\* Reading what a flow is about.
LEMMA ReadAlone ==
  ASSUME Alone, Inv, AloneInv, NEW t \in Tabs,
         LookupMember(t) \/ DownloadSelect(t) \/ DownloadGet(t)
         \/ UploadSelect(t) \/ CommitCheck(t) \/ ShareCheck(t)
  PROVE  AloneInv'
<1> PICK r : r = tab[t]
  OBVIOUS
<1> PICK u : u = UserOf[t]
  OBVIOUS
<1>1. r \in Tab /\ u \in Users /\ Sound(r, u) /\ TabOK(r) /\ UNCHANGED server
  BY TheTab DEF LookupMember, DownloadSelect, DownloadGet, UploadSelect, CommitCheck, ShareCheck
<1>2. CASE LookupMember(t)
  <2>1. CASE r.list \subseteq upgraded
    <3> PICK s : s = [r EXCEPT !.pc = "select"]
      OBVIOUS
    <3>1. Become(t, s) /\ r.pc = "lookup"
      BY <1>2, <2>1 DEF LookupMember
    <3>2. Sound(s, u)
      BY <1>1, <3>1 DEF Tab, Sound, Awaits, Carries, NotYet, OldKey, NewKey, Generated,
         Rekeyed, Replacing, BeforeNewKey, Live, Versions
    <3> QED BY <1>1, <3>1, <3>2, TabAlone
  <2>2. CASE ~(r.list \subseteq upgraded)
    <3>1. Become(t, Done(r)) /\ r.pc = "lookup"
      BY <1>2, <2>2 DEF LookupMember
    <3>2. row # "deleted" => Resting(r.cached, u)
      BY <1>1, <3>1, TypedRow DEF Resting, Sound, Awaits, Carries, NotYet, OldKey,
         NewKey, Generated, Rekeyed, Replacing, BeforeNewKey, Live, Versions
    <3>3. Sound(Done(r), u)
      BY <1>1, <3>2, DoneSound
    <3> QED BY <1>1, <3>1, <3>3, TabAlone
  <2> QED BY <2>1, <2>2
<1>3. CASE DownloadSelect(t)
  <2> PICK s : s = [r EXCEPT !.pc = "get", !.ver = row]
    OBVIOUS
  <2>1. Become(t, s) /\ r.pc = "select" /\ Entitled(u)
    BY <1>3 DEF DownloadSelect, ServedVersion
  <2>2. Sound(s, u)
    BY <1>1, <2>1 DEF Tab, Entitled, Sound, Awaits, Carries, NotYet, OldKey, NewKey,
       Generated, Rekeyed, Replacing, BeforeNewKey, Live, Versions
  <2> QED BY <1>1, <2>1, <2>2, TabAlone
<1>4. CASE DownloadGet(t)
  <2> PICK s : s = [r EXCEPT !.pc = "share", !.got = blob[r.ver]]
    OBVIOUS
  <2>1. Become(t, s) /\ r.pc = "get" /\ r.ver \in Versions
    BY <1>1, <1>4 DEF DownloadGet, TabOK, Fits
  <2>2. Sound(s, u)
    BY <1>1, <2>1 DEF Tab, Sound, Awaits, Carries, NotYet, OldKey, NewKey, Generated,
       Rekeyed, Replacing, BeforeNewKey, Live, Versions
  <2> QED BY <1>1, <2>1, <2>2, TabAlone
<1>5. CASE UploadSelect(t)
  <2> PICK s : s = [r EXCEPT !.pc = "put", !.ver = TargetVersion(t)]
    OBVIOUS
  <2>1. Become(t, s) /\ r.pc = "put_select" /\ Entitled(u)
    BY <1>5 DEF UploadSelect
  <2>2. s.ver = IF r.goal = "save" THEN row ELSE "v2"
    BY <1>1 DEF Tab, TargetVersion
  <2>3. Sound(s, u)
    BY <1>1, <2>1, <2>2 DEF Tab, Entitled, Sound, Awaits, Carries, NotYet, OldKey,
       NewKey, Generated, Rekeyed, Replacing, BeforeNewKey, Live, Versions
  <2> QED BY <1>1, <2>1, <2>3, TabAlone
<1>6. CASE CommitCheck(t)
  <2> PICK s : s = [r EXCEPT !.pc = "flip", !.ver = row]
    OBVIOUS
  <2>1. Become(t, s) /\ r.pc = "commit" /\ Entitled(u)
    BY <1>6 DEF CommitCheck
  <2>2. Sound(s, u)
    BY <1>1, <2>1 DEF Tab, Entitled, Sound, Awaits, Carries, NotYet, OldKey, NewKey,
       Generated, Rekeyed, Replacing, BeforeNewKey, Live, Versions
  <2> QED BY <1>1, <2>1, <2>2, TabAlone
<1>7. CASE ShareCheck(t)
  <2>1. PICK to : /\ to \subseteq members /\ (r.goal = "grant" \/ to = r.list)
                  /\ Become(t, [r EXCEPT !.pc = "share_batch", !.to = to, !.list = r.list \ to])
    BY <1>7 DEF ShareCheck
  <2> PICK s : s = [r EXCEPT !.pc = "share_batch", !.to = to, !.list = r.list \ to]
    OBVIOUS
  <2>2. Become(t, s) /\ r.pc = "share_check" /\ Entitled(u)
    BY <1>7, <2>1 DEF ShareCheck
  <2>3. Sound(s, u)
    BY <1>1, <2>1, <2>2 DEF Tab, Entitled, Sound, Awaits, Carries, NotYet, OldKey,
       NewKey, Generated, Rekeyed, Replacing, BeforeNewKey, Live, Versions
  <2> QED BY <1>1, <2>2, <2>3, TabAlone
<1> QED BY <1>2, <1>3, <1>4, <1>5, <1>6, <1>7

\* The key a tab finds when it has read the live object: the live key, or none
\* before the upgrade.
LEMMA KeyAlone ==
  ASSUME Alone, Inv, AloneInv, NEW t \in Tabs, tab[t].pc = "share", row # "deleted"
  PROVE  /\ row \in {"v1", "v2"} /\ tab[t].got = Live
         /\ row = "v1" => KeyFor(t) = NoKey /\ tab[t].got.key = Legacy
         /\ row = "v2" => KeyFor(t) = blob["v2"].key /\ tab[t].got.key = KeyFor(t)
                          /\ KeyFor(t) \in Keys
BY TheTab, TypedRow DEF KeyFor, Sound, Awaits, Carries, NotYet, OldKey, NewKey,
   Generated, Rekeyed, Replacing, BeforeNewKey, Live, Versions

\* The tab with what its page shows.
LEMMA ShownType ==
  ASSUME NEW r \in Tab, NEW k \in Keys \union {NoKey}, NEW v \in {"none", "empty", "full"},
         NEW x, x = [r EXCEPT !.cached = k, !.view = v]
  PROVE  x \in Tab
BY Zenon DEF Tab

\* The contents of the vault come to nothing more than what is shown, or a grant.
LEMMA OpenedAlone ==
  ASSUME Alone, Inv, AloneInv, NEW t \in Tabs,
         ShowEntries(t) \/ StartGrant(t) \/ CannotDecrypt(t)
  PROVE  AloneInv'
<1> PICK r : r = tab[t]
  OBVIOUS
<1> PICK u : u = UserOf[t]
  OBVIOUS
<1> PICK k : k = KeyFor(t)
  OBVIOUS
<1>1. /\ r \in Tab /\ u \in Users /\ Sound(r, u) /\ r.pc = "share" /\ UNCHANGED server
      /\ k \in Keys \union {NoKey}
  BY TheTab, KeyForType DEF ShowEntries, StartGrant, CannotDecrypt, Decrypted, Inv
<1>2. row # "deleted" =>
        /\ row \in {"v1", "v2"}
        /\ row = "v1" => k = NoKey
        /\ row = "v2" => k = blob["v2"].key /\ r.got.key = k /\ k \in Keys
  BY <1>1, KeyAlone
<1>3. CASE ShowEntries(t)
  <2>1. r.goal = "open"
    BY <1>3 DEF ShowEntries
  <2> PICK v : v = IF OpensEmpty(t) THEN "empty" ELSE Entries(r.got)
    OBVIOUS
  <2> PICK x : x = [r EXCEPT !.cached = k, !.view = v]
    OBVIOUS
  <2>2. x \in Tab /\ x.cached = k
    <3>1. v \in {"none", "empty", "full"}
      BY DEF Entries
    <3>2. x.cached = k
      BY <1>1 DEF Tab
    <3>3. x \in Tab
      BY <1>1, <3>1, ShownType
    <3> QED BY <3>2, <3>3
  <2>3. Become(t, Done(x))
    BY <1>3 DEF ShowEntries
  <2>4. row # "deleted" => Resting(k, u)
    BY <1>1, <1>2, <2>1, TypedRow DEF Resting, Sound, Awaits, Carries, NotYet, OldKey,
       NewKey, Generated, Rekeyed, Replacing, BeforeNewKey, Live, Versions
  <2>5. Sound(Done(x), u)
    BY <2>2, <2>4, DoneSound
  <2> QED BY <1>1, <2>3, <2>5, TabAlone
<1>4. CASE StartGrant(t)
  <2>1. r.goal = "grant"
    BY <1>4 DEF StartGrant
  <2>2. CASE k = NoKey
    <3>1. Become(t, Done(r))
      BY <1>4, <2>2 DEF StartGrant
    <3>2. row # "deleted" => Resting(r.cached, u)
      BY <1>1, <1>2, <2>1, <2>2, TypedRow DEF Resting, Sound, Awaits, Carries, NotYet,
         OldKey, NewKey, Generated, Rekeyed, Replacing, BeforeNewKey, Live, Versions
    <3>3. Sound(Done(r), u)
      BY <1>1, <3>2, DoneSound
    <3> QED BY <1>1, <3>1, <3>3, TabAlone
  <2>3. CASE k # NoKey
    <3> PICK s : s = [r EXCEPT !.pc = "share_check", !.cached = k, !.fresh = k, !.got = NoBlob]
      OBVIOUS
    <3>1. Become(t, s)
      BY <1>4, <2>3 DEF StartGrant
    <3>2. /\ s.pc = "share_check" /\ s.goal = "grant" /\ s.cached = k /\ s.fresh = k
          /\ s.list = r.list /\ s.to = r.to
      BY <1>1, <2>1 DEF Tab
    <3>3. Sound(s, u)
      BY <1>1, <1>2, <2>1, <2>3, <3>2, TypedRow DEF Sound, Awaits, Carries, NotYet,
         OldKey, NewKey, Generated, Rekeyed, Replacing, BeforeNewKey, Live, Versions
    <3> QED BY <1>1, <3>1, <3>3, TabAlone
  <2> QED BY <2>2, <2>3
<1>5. CASE CannotDecrypt(t)
  <2> PICK x : x = IF k = NoKey THEN r ELSE [r EXCEPT !.cached = NoKey, !.view = "none"]
    OBVIOUS
  <2>1. Become(t, Done(x))
    BY <1>5 DEF CannotDecrypt
  <2>2. x \in Tab /\ x.cached \in {r.cached, NoKey}
    BY <1>1 DEF Tab
  <2>3. row # "deleted" => row = "v1"
    BY <1>1, <1>2, <1>5, TypedRow DEF CannotDecrypt, OpensWithKey
  <2>4. row # "deleted" => Resting(x.cached, u)
    BY <1>1, <2>2, <2>3, TypedRow DEF Resting, Sound, Awaits, Carries, NotYet, OldKey,
       NewKey, Generated, Rekeyed, Replacing, BeforeNewKey, Live, Versions
  <2>5. Sound(Done(x), u)
    BY <2>2, <2>4, DoneSound
  <2> QED BY <1>1, <2>1, <2>5, TabAlone
<1> QED BY <1>3, <1>4, <1>5

\* No request of the one tab is refused in a flow that has a key to lose.
LEMMA FailureAlone ==
  ASSUME Alone, Inv, AloneInv, NEW t \in Tabs,
         Refused(t) \/ SkipMember(t) \/ Fail(t) \/ Crash(t) \/ Reload(t)
  PROVE  AloneInv'
<1> PICK r : r = tab[t]
  OBVIOUS
<1> PICK u : u = UserOf[t]
  OBVIOUS
<1>1. r \in Tab /\ u \in Users /\ Sound(r, u) /\ UNCHANGED server
  BY TheTab DEF Refused, SkipMember, Fail, Crash, Reload
<1>2. CASE Refused(t)
  <2>1. Become(t, Aborted(r))
    BY <1>2 DEF Refused
  <2>2. CASE row = "deleted"
    <3>1. Aborted(r).pc # "acl"
      BY <1>1, AbortedType
    <3>2. Sound(Aborted(r), u)
      BY <2>2, <3>1 DEF Sound
    <3> QED BY <1>1, <2>1, <3>2, TabAlone
  <2>3. CASE row # "deleted"
    <3>1. /\ row # "v2" /\ r.pc \in {"select", "share"}
          /\ r.goal \in {"open", "grant", "rotate"}
      <4>1. Awaits(r) /\ Carries(r, u) /\ NotYet(r) /\ OldKey(r, u) /\ NewKey(r, u)
        BY <1>1, <2>3 DEF Sound
      <4>2. r.goal \in Goals
        BY <1>1 DEF Tab
      <4>3. CASE row \in {"absent", "bare"}
        BY <1>2, <4>1, <4>2, <4>3 DEF Refused, NotYet, Awaits, Goals
      <4>4. CASE row \in Versions /\ u \in members
        BY <1>2, <4>1, <4>2, <4>4 DEF Refused, Entitled, ShareAllowed, ForeignKey, Awaits,
           Carries, Goals
      <4>5. CASE row \in Versions /\ u \notin members
        <5>1. r.goal \in {"none", "open"}
          BY <4>1, <4>5 DEF Carries
        <5>2. row # "v2"
          BY <4>1, <4>5 DEF NewKey
        <5> QED BY <1>2, <4>1, <5>1, <5>2 DEF Refused, Awaits
      <4> QED BY <2>3, <4>3, <4>4, <4>5, TypedRow DEF Versions
    <3>2. Aborted(r) = Done(r)
      BY <3>1 DEF Aborted
    <3>3. Resting(r.cached, u)
      BY <1>1, <2>3, <3>1, TypedRow DEF Resting, Sound, Awaits, Carries, NotYet, OldKey,
         NewKey, Generated, Rekeyed, Replacing, BeforeNewKey, Live, Versions
    <3>4. Sound(Done(r), u)
      BY <1>1, <3>3, DoneSound
    <3> QED BY <1>1, <2>1, <3>2, <3>4, TabAlone
  <2> QED BY <2>2, <2>3
<1>3. CASE SkipMember(t)
  <2>1. row # "deleted" /\ r.list \ members # {}
    BY <1>3 DEF SkipMember, Entitled, Versions
  <2> QED BY <1>1, <2>1 DEF Sound, Carries
<1>4. CASE Fail(t) \/ Crash(t)
  BY <1>4 DEF Alone, Fail, Crash
<1>5. CASE Reload(t)
  <2> PICK s : s = NewTab
    OBVIOUS
  <2>1. Become(t, s) /\ r.pc = "idle"
    BY <1>5 DEF Reload
  <2>2. /\ s.pc = "idle" /\ s.goal = "none" /\ s.fresh = NoKey /\ s.list = {} /\ s.to = {}
        /\ s.cached = NoKey
    BY DEF NewTab
  <2>3. row # "deleted" => NotYet(s) /\ OldKey(s, u) /\ NewKey(s, u)
    BY <1>1, <2>1, <2>2, TypedRow DEF Sound, Awaits, Carries, NotYet, OldKey, NewKey,
       Generated, Rekeyed, Replacing, BeforeNewKey, Live, Versions
  <2>4. Sound(s, u)
    BY <2>2, <2>3, RestSound
  <2> QED BY <1>1, <2>1, <2>4, TabAlone
<1> QED BY <1>2, <1>3, <1>4, <1>5

\* Members come and go between two flows: what a tab at rest must know is so before
\* and after, but for the key that the removed member was given.
LEMMA MembershipAlone ==
  ASSUME Alone, Inv, AloneInv, NEW t \in Tabs, NEW w \in Users,
         AddMember(t, w) \/ RemoveMember(t, w)
  PROVE  AloneInv'
<1> PICK r : r = tab[t]
  OBVIOUS
<1> PICK u : u = UserOf[t]
  OBVIOUS
<1>1. /\ r \in Tab /\ u \in Users /\ Sound(r, u) /\ r.pc = "idle"
      /\ u \in members /\ u \in upgraded /\ UNCHANGED <<row, blob, upgraded, held>>
  BY TheTab DEF AddMember, RemoveMember, SignedIn
<1>2. CASE AddMember(t, w)
  <2> PICK s : s = [r EXCEPT !.pc = "lookup", !.goal = "grant", !.list = {w}]
    OBVIOUS
  <2>1. Become(t, s) /\ members' = members \union {w} /\ share' = share
    BY <1>2 DEF AddMember
  <2>2. /\ s.pc = "lookup" /\ s.goal = "grant" /\ s.list = {w} /\ s.to = r.to
        /\ s.fresh = r.fresh /\ s.cached = r.cached
    BY <1>1 DEF Tab
  <2>3. Sound(s, u)'
    BY <1>1, <2>1, <2>2, TypedRow DEF MembersOnly, Sound, Awaits, Carries, NotYet,
       OldKey, NewKey, Generated, Rekeyed, Replacing, BeforeNewKey, Live, Versions
  <2> QED BY <2>1, <2>3, TheTab
<1>3. CASE RemoveMember(t, w)
  <2>1. members' = members \ {w} /\ w # u
    BY <1>3 DEF RemoveMember
  <2>2. CASE row \in Versions
    <3> PICK s : s = [r EXCEPT !.pc = "members", !.goal = "rotate"]
      OBVIOUS
    <3>1. Become(t, s) /\ share' = [share EXCEPT ![w] = NoKey] /\ share'[u] = share[u]
      BY <1>1, <1>3, <2>1, <2>2 DEF RemoveMember, Inv, TypeOK
    <3>2. /\ s.pc = "members" /\ s.goal = "rotate" /\ s.list = r.list /\ s.to = r.to
          /\ s.fresh = r.fresh /\ s.cached = r.cached
      BY <1>1 DEF Tab
    <3>3. Sound(s, u)'
      BY <1>1, <2>1, <2>2, <3>1, <3>2, TypedRow DEF Sound, Awaits, Carries, NotYet,
         OldKey, NewKey, Generated, Rekeyed, Replacing, BeforeNewKey, Live, Versions
    <3> QED BY <3>1, <3>3, TheTab
  <2>3. CASE row \notin Versions
    <3>1. Become(t, r)
      BY <1>3, <2>3 DEF RemoveMember, Become, Inv, TypeOK
    <3>2. share' = share
      BY <1>3, <2>3 DEF RemoveMember
    <3>3. Sound(r, u)'
      BY <1>1, <2>1, <2>3, <3>2, TypedRow DEF Sound, Awaits, Carries, NotYet, OldKey,
         NewKey, Generated, Rekeyed, Replacing, BeforeNewKey, Live, Versions
    <3> QED BY <3>1, <3>3, TheTab
  <2> QED BY <2>2, <2>3
<1> QED BY <1>2, <1>3

\* A key that has just been generated has not been given to anybody.
LEMMA GeneratedAlone ==
  ASSUME Inv, NEW k \in Keys, Generate(k), members' = members
  PROVE  /\ k # NoKey /\ MembersOnly(k)'
         /\ \A q : MembersOnly(q) => MembersOnly(q)'
BY TypedRow DEF Generate, MembersOnly, Inv, TypeOK

\* The members a new key is for, and the key.
LEMMA ListAlone ==
  ASSUME Alone, Inv, AloneInv, NEW t \in Tabs, ListMembers(t)
  PROVE  AloneInv'
<1> PICK r : r = tab[t]
  OBVIOUS
<1> PICK u : u = UserOf[t]
  OBVIOUS
<1>1. /\ r \in Tab /\ u \in Users /\ Sound(r, u) /\ r.pc = "members" /\ u \in members
      /\ UNCHANGED <<row, blob, share, members, upgraded>>
  BY TheTab DEF ListMembers
<1>2. Keyed \subseteq members /\ (u \in upgraded => u \in Keyed)
  BY <1>1 DEF Keyed
<1>3. CASE r.goal = "create"
  <2>1. PICK k \in Keys : /\ Generate(k)
                          /\ Become(t, [r EXCEPT !.pc = "share_check", !.fresh = k,
                                           !.list = Keyed \union {u}])
    BY <1>3 DEF ListMembers
  <2> PICK s : s = [r EXCEPT !.pc = "share_check", !.fresh = k, !.list = Keyed \union {u}]
    OBVIOUS
  <2>2. /\ s.pc = "share_check" /\ s.goal = "create" /\ s.list = Keyed \union {u}
        /\ s.to = r.to /\ s.fresh = k /\ s.cached = r.cached
    BY <1>1, <1>3 DEF Tab
  <2>3. k # NoKey /\ MembersOnly(k)'
    BY <1>1, <2>1, GeneratedAlone
  <2>4. Sound(s, u)'
    BY <1>1, <1>2, <1>3, <2>2, <2>3 DEF Sound, Awaits, Carries, NotYet, OldKey, NewKey,
       Generated, Rekeyed, Replacing, BeforeNewKey, Live, Versions
  <2> QED BY <2>1, <2>4, TheTab
<1>4. CASE r.goal = "rescue"
  <2> PICK s : s = [r EXCEPT !.pc = "share_check", !.list = Keyed]
    OBVIOUS
  <2>1. Become(t, s) /\ UNCHANGED server
    BY <1>4 DEF ListMembers, server
  <2>2. Sound(s, u)
    BY <1>1, <1>2, <1>4 DEF Tab, Sound, Awaits, Carries, NotYet, OldKey, NewKey,
       Generated, Rekeyed, Replacing, BeforeNewKey, Live, Versions
  <2> QED BY <2>1, <2>2, TabAlone
<1>5. CASE r.goal = "rotate"
  <2> PICK s : s = [r EXCEPT !.pc = "select", !.list = Keyed]
    OBVIOUS
  <2>1. Become(t, s) /\ UNCHANGED server
    BY <1>5 DEF ListMembers, server
  <2>2. Sound(s, u)
    BY <1>1, <1>2, <1>5 DEF Tab, Sound, Awaits, Carries, NotYet, OldKey, NewKey,
       Generated, Rekeyed, Replacing, BeforeNewKey, Live, Versions
  <2> QED BY <2>1, <2>2, TabAlone
<1> QED BY <1>3, <1>4, <1>5 DEF ListMembers

\* The contents are about to be written under a new key.
LEMMA RekeyAlone ==
  ASSUME Alone, Inv, AloneInv, NEW t \in Tabs, StartRescue(t) \/ StartRotate(t)
  PROVE  AloneInv'
<1> PICK r : r = tab[t]
  OBVIOUS
<1> PICK u : u = UserOf[t]
  OBVIOUS
<1>1. /\ r \in Tab /\ u \in Users /\ Sound(r, u) /\ r.pc = "share"
      /\ UNCHANGED <<row, blob, share, members, upgraded>>
  BY TheTab DEF StartRescue, StartRotate, Decrypted
<1>2. row # "deleted" =>
        /\ row \in {"v1", "v2"}
        /\ row = "v1" => KeyFor(t) = NoKey
        /\ row = "v2" => KeyFor(t) = blob["v2"].key /\ r.got.key = KeyFor(t)
  BY <1>1, KeyAlone
<1>3. CASE StartRescue(t)
  <2>1. PICK k \in Keys : /\ Generate(k)
                          /\ Become(t, [r EXCEPT !.pc = "put_select", !.goal = "rescue",
                                           !.cached = KeyFor(t), !.fresh = k])
    BY <1>3 DEF StartRescue
  <2> PICK s : s = [r EXCEPT !.pc = "put_select", !.goal = "rescue",
                     !.cached = KeyFor(t), !.fresh = k]
    OBVIOUS
  <2>2. /\ s.pc = "put_select" /\ s.goal = "rescue" /\ s.list = r.list
        /\ s.to = r.to /\ s.fresh = k /\ s.cached = KeyFor(t)
    BY <1>1 DEF Tab
  <2>3. k # NoKey /\ MembersOnly(k)'
    BY <1>1, <2>1, GeneratedAlone
  <2>4. r.got.key = Legacy /\ ShareAllowed(t) /\ r.goal = "open"
    BY <1>3 DEF StartRescue, OpensWithLegacy, Decrypted
  <2>5. row # "deleted" => row = "v1"
    BY <1>1, <1>2, <2>4, KeyAlone, TypedRow
  <2>6. row # "deleted" => u \in members
    BY <1>1, <2>4, <2>5 DEF ShareAllowed, Entitled, Sound, OldKey
  <2>7. Sound(s, u)'
    BY <1>1, <1>2, <2>2, <2>3, <2>4, <2>5, <2>6 DEF Sound, Awaits, Carries, NotYet,
       OldKey, NewKey, Generated, Rekeyed, Replacing, BeforeNewKey, Live, Versions
  <2> QED BY <2>1, <2>7, TheTab
<1>4. CASE StartRotate(t)
  <2>1. PICK k \in Keys : /\ Generate(k)
                          /\ Become(t, [r EXCEPT !.pc = "put_select",
                                           !.cached = KeyFor(t), !.fresh = k])
    BY <1>4 DEF StartRotate
  <2> PICK s : s = [r EXCEPT !.pc = "put_select", !.cached = KeyFor(t), !.fresh = k]
    OBVIOUS
  <2>2. /\ r.goal = "rotate" /\ s.pc = "put_select" /\ s.goal = "rotate" /\ s.list = r.list
        /\ s.to = r.to /\ s.fresh = k /\ s.cached = KeyFor(t)
    BY <1>1, <1>4 DEF Tab, StartRotate
  <2>3. k # NoKey /\ MembersOnly(k)'
    BY <1>1, <2>1, GeneratedAlone
  <2>4. Sound(s, u)'
    BY <1>1, <1>2, <2>2, <2>3 DEF Sound, Awaits, Carries, NotYet, OldKey, NewKey,
       Generated, Rekeyed, Replacing, BeforeNewKey, Live, Versions
  <2> QED BY <2>1, <2>4, TheTab
<1> QED BY <1>3, <1>4

\* The row of a new vault, and its access list.
LEMMA CreateAlone ==
  ASSUME Alone, Inv, AloneInv, NEW t \in Tabs, CreateVault(t) \/ CreateAcl(t)
  PROVE  AloneInv'
<1> PICK r : r = tab[t]
  OBVIOUS
<1> PICK u : u = UserOf[t]
  OBVIOUS
<1>1. r \in Tab /\ u \in Users /\ Sound(r, u) /\ UNCHANGED <<blob, share, members, upgraded, held>>
  BY TheTab DEF CreateVault, CreateAcl
<1>2. CASE CreateVault(t)
  <2> PICK s : s = [r EXCEPT !.pc = "acl", !.goal = "create"]
    OBVIOUS
  <2>1. /\ Become(t, s) /\ row = "absent" /\ row' = "bare" /\ r.pc = "idle"
        /\ u \in members /\ u \in upgraded
    BY <1>2 DEF CreateVault, SignedIn
  <2>2. Sound(s, u)'
    BY <1>1, <2>1 DEF Tab, Sound, Awaits, Carries, NotYet, OldKey, NewKey, Generated,
       Rekeyed, Replacing, BeforeNewKey, Live, Versions
  <2> QED BY <2>1, <2>2, TheTab
<1>3. CASE CreateAcl(t)
  <2> PICK s : s = [r EXCEPT !.pc = "members"]
    OBVIOUS
  <2>1. Become(t, s) /\ row = "bare" /\ row' = "v2" /\ r.pc = "acl" /\ r.goal = "create"
    BY <1>1, <1>3, TheTab DEF CreateAcl, Alone, TabOK, Fits
  <2>2. Sound(s, u)'
    BY <1>1, <2>1 DEF Tab, NoBlob, Sound, Awaits, Carries, NotYet, OldKey, NewKey,
       Generated, Rekeyed, Replacing, BeforeNewKey, Live, Versions
  <2> QED BY <2>1, <2>2, TheTab
<1> QED BY <1>2, <1>3

\* The object is written under the key the flow carries.
LEMMA PutAlone ==
  ASSUME Alone, Inv, AloneInv, NEW t \in Tabs, UploadPut(t)
  PROVE  AloneInv'
<1> PICK r : r = tab[t]
  OBVIOUS
<1> PICK u : u = UserOf[t]
  OBVIOUS
<1>1. /\ r \in Tab /\ u \in Users /\ Sound(r, u) /\ r.pc = "put" /\ TabOK(r)
      /\ UNCHANGED <<row, share, members, upgraded, held>>
  BY TheTab DEF UploadPut
<1>2. row # "deleted" =>
        /\ blob'["v2"].key = r.fresh /\ blob'["v1"] = blob["v1"] /\ r.fresh \in Keys
        /\ row \in Versions /\ r.goal \in {"save", "create", "rescue", "rotate"}
  <2>1. r.fresh \in Keys /\ r.goal \in Goals
    BY <1>1, TypedRow DEF Tab, TabOK, Fits
  <2>2. row # "deleted" => r.ver = "v2"
    BY <1>1 DEF Sound, Carries
  <2>3. blob' = [blob EXCEPT ![r.ver] = [key |-> r.fresh, full |-> r.got.full]]
    BY DEF UploadPut
  <2>4. row \in Versions \union {"deleted"}
    BY <1>1, TypedRow DEF TabOK, Fits, Versions
  <2>5. row # "deleted" => r.goal \in {"save", "create", "rescue", "rotate"}
    BY <1>1, <2>1 DEF Sound, Awaits, Goals
  <2> QED BY <2>1, <2>2, <2>3, <2>4, <2>5 DEF Inv, TypeOK, Versions
<1>3. CASE r.goal \in {"rescue", "rotate"}
  <2> PICK s : s = [r EXCEPT !.pc = IF r.goal = "rescue" THEN "members" ELSE "share_check"]
    OBVIOUS
  <2>1. Become(t, s)
    BY <1>3 DEF UploadPut
  <2>2. /\ s.pc = (IF r.goal = "rescue" THEN "members" ELSE "share_check") /\ s.goal = r.goal
        /\ s.list = r.list /\ s.to = r.to /\ s.fresh = r.fresh /\ s.cached = r.cached
    BY <1>1 DEF Tab
  <2>3. Sound(s, u)'
    BY <1>1, <1>2, <1>3, <2>2, TypedRow DEF MembersOnly, Sound, Awaits, Carries, NotYet,
       OldKey, NewKey, Generated, Rekeyed, Replacing, BeforeNewKey, Live, Versions
  <2> QED BY <2>1, <2>3, TheTab
<1>4. CASE r.goal \notin {"rescue", "rotate"}
  <2> PICK s : s = Done(r)
    OBVIOUS
  <2>1. Become(t, s)
    BY <1>4 DEF UploadPut
  <2>2. /\ s.pc = "idle" /\ s.goal = "none" /\ s.fresh = NoKey /\ s.list = {} /\ s.to = {}
        /\ s.cached = r.cached
    BY <1>1 DEF Done, Tab
  <2>3. row # "deleted" => row = "v2"
    BY <1>1, <1>2, <1>4 DEF Sound, OldKey, Versions
  <2>4. row # "deleted" => /\ u \in members /\ u \in upgraded /\ MembersOnly(r.fresh)
                           /\ share[u] = r.fresh /\ r.cached \in {NoKey, r.fresh}
    BY <1>1, <1>2, <1>4, <2>3, TypedRow DEF Sound, NewKey, Carries, Generated, Rekeyed, Replacing
  <2>5. Sound(s, u)'
    BY <1>1, <1>2, <2>2, <2>3, <2>4 DEF MembersOnly, Sound, Awaits, Carries, NotYet,
       OldKey, NewKey, Generated, Rekeyed, Replacing, BeforeNewKey, Live, Versions
  <2> QED BY <2>1, <2>5, TheTab
<1> QED BY <1>3, <1>4

\* The key is wrapped for members only, and for the user of the tab if it is new.
LEMMA ShareAlone ==
  ASSUME Alone, Inv, AloneInv, NEW t \in Tabs, ShareBatch(t)
  PROVE  AloneInv'
<1> PICK r : r = tab[t]
  OBVIOUS
<1> PICK u : u = UserOf[t]
  OBVIOUS
<1>1. /\ r \in Tab /\ u \in Users /\ Sound(r, u) /\ TabOK(r) /\ r.pc = "share_batch"
      /\ row \in Versions /\ r.goal \in {"grant", "create", "rescue", "rotate"}
      /\ UNCHANGED <<row, blob, members, upgraded>>
  <2>1. r.pc = "share_batch" /\ row \in Versions /\ UNCHANGED <<row, blob, members, upgraded>>
    BY DEF ShareBatch, ForeignKey
  <2>2. r \in Tab /\ u \in Users /\ Sound(r, u) /\ TabOK(r) /\ r.goal \in Goals
    BY TheTab DEF Tab
  <2> QED BY <2>1, <2>2 DEF Sound, Awaits, Goals, Versions
<1>2. /\ Awaits(r) /\ Carries(r, u) /\ OldKey(r, u) /\ NewKey(r, u) /\ r.to \subseteq members
      /\ r.fresh \in Keys
  BY <1>1, TypedRow DEF Sound, Carries, Versions, TabOK, Fits, Tab
<1>3. /\ share'[u] = IF u \in r.to THEN r.fresh ELSE IF r.goal # "grant" THEN NoKey ELSE share[u]
      /\ \A w \in Users : held'[w] = IF w \in r.to THEN held[w] \union {r.fresh} ELSE held[w]
  BY <1>1 DEF ShareBatch, WrappedKey, Replaces
<1>4. \A k : MembersOnly(k) => MembersOnly(k)'
  BY <1>1, <1>2, <1>3 DEF MembersOnly
<1>5. CASE r.goal = "grant"
  <2>1. row = "v2" /\ r.fresh = blob["v2"].key /\ share'[u] = blob["v2"].key
    BY <1>1, <1>2, <1>3, <1>5 DEF OldKey, NewKey, Versions, Replacing
  <2>2. CASE r.list = {}
    <3> PICK s : s = Done(r)
      OBVIOUS
    <3>1. Become(t, s)
      BY <1>5, <2>2 DEF ShareBatch
    <3>2. /\ s.pc = "idle" /\ s.goal = "none" /\ s.fresh = NoKey /\ s.list = {} /\ s.to = {}
          /\ s.cached = r.cached
      BY <1>1 DEF Done, Tab
    <3>3. Sound(s, u)'
      BY <1>1, <1>2, <1>4, <1>5, <2>1, <3>2 DEF Sound, Awaits, Carries, NotYet, OldKey,
         NewKey, Generated, Rekeyed, Replacing, BeforeNewKey, Live, Versions
    <3> QED BY <3>1, <3>3, TheTab
  <2>3. CASE r.list # {}
    <3> PICK s : s = [r EXCEPT !.pc = "share_check", !.to = {}]
      OBVIOUS
    <3>1. Become(t, s)
      BY <1>5, <2>3 DEF ShareBatch
    <3>2. /\ s.pc = "share_check" /\ s.goal = "grant" /\ s.fresh = r.fresh
          /\ s.list = r.list /\ s.to = {} /\ s.cached = r.cached
      BY <1>1, <1>5 DEF Tab
    <3>3. Sound(s, u)'
      BY <1>1, <1>2, <1>4, <1>5, <2>1, <3>2 DEF Sound, Awaits, Carries, NotYet, OldKey,
         NewKey, Generated, Rekeyed, Replacing, BeforeNewKey, Live, Versions
    <3> QED BY <3>1, <3>3, TheTab
  <2> QED BY <2>2, <2>3
<1>6. CASE r.goal = "create"
  <2> PICK s : s = [r EXCEPT !.pc = "put_select", !.cached = r.fresh, !.to = {}]
    OBVIOUS
  <2>1. Become(t, s)
    BY <1>6 DEF ShareBatch
  <2>2. /\ s.pc = "put_select" /\ s.goal = "create" /\ s.fresh = r.fresh
        /\ s.list = r.list /\ s.to = {} /\ s.cached = r.fresh
    BY <1>1, <1>6 DEF Tab
  <2>3. share'[u] = r.fresh
    BY <1>1, <1>2, <1>3, <1>6 DEF Carries
  <2>4. Sound(s, u)'
    BY <1>1, <1>2, <1>4, <1>6, <2>2, <2>3 DEF Sound, Awaits, Carries, NotYet, OldKey,
       NewKey, Generated, Rekeyed, Replacing, BeforeNewKey, Live, Versions
  <2> QED BY <2>1, <2>4, TheTab
<1>7. CASE r.goal \in {"rescue", "rotate"}
  <2> PICK s : s = [r EXCEPT !.pc = "commit", !.to = {}]
    OBVIOUS
  <2>1. Become(t, s)
    BY <1>7 DEF ShareBatch
  <2>2. /\ s.pc = "commit" /\ s.goal = r.goal /\ s.fresh = r.fresh
        /\ s.list = r.list /\ s.to = {} /\ s.cached = r.cached
    BY <1>1 DEF Tab
  <2>3. share'[u] = r.fresh
    BY <1>1, <1>2, <1>3, <1>7 DEF Carries
  <2>4. Sound(s, u)'
    BY <1>1, <1>2, <1>4, <1>7, <2>2, <2>3 DEF Sound, Awaits, Carries, NotYet, OldKey,
       NewKey, Generated, Rekeyed, Replacing, BeforeNewKey, Live, Versions
  <2> QED BY <2>1, <2>4, TheTab
<1> QED BY <1>1, <1>5, <1>6, <1>7

\* The row comes to the object that has been staged, and stays with it.
LEMMA CommitAlone ==
  ASSUME Alone, Inv, AloneInv, NEW t \in Tabs, CommitFlip(t) \/ CommitSweep(t)
  PROVE  AloneInv'
<1> PICK r : r = tab[t]
  OBVIOUS
<1> PICK u : u = UserOf[t]
  OBVIOUS
<1>1. /\ r \in Tab /\ u \in Users /\ Sound(r, u) /\ r.pc \in {"flip", "sweep"} /\ TabOK(r)
      /\ UNCHANGED <<share, members, upgraded, held>>
  BY TheTab DEF CommitFlip, CommitSweep
<1>2. r.fresh \in Keys
  BY <1>1, TypedRow DEF TabOK, Fits, Owes, Tab
<1>3. row # "deleted" => r.goal \in {"rescue", "rotate"}
  <2>1. r.goal \in Goals
    BY <1>1 DEF Tab
  <2> QED BY <1>1, <2>1 DEF Sound, Awaits, Goals
<1>4. CASE CommitFlip(t)
  <2> PICK s : s = [r EXCEPT !.pc = "sweep"]
    OBVIOUS
  <2>1. /\ Become(t, s) /\ r.pc = "flip" /\ blob' = blob
        /\ row' = IF row \in Versions THEN "v2" ELSE row
    BY <1>4 DEF CommitFlip
  <2>2. /\ s.pc = "sweep" /\ s.goal = r.goal /\ s.fresh = r.fresh
        /\ s.list = r.list /\ s.to = r.to /\ s.cached = r.cached
    BY <1>1 DEF Tab
  <2>3. Sound(s, u)'
    BY <1>1, <1>2, <1>3, <2>1, <2>2, TypedRow DEF MembersOnly, Sound, Awaits, Carries,
       NotYet, OldKey, NewKey, Generated, Rekeyed, Replacing, BeforeNewKey, Live,
       Versions
  <2> QED BY <2>1, <2>3, TheTab
<1>5. CASE CommitSweep(t)
  <2>1. row = "v2" /\ row' = "v2" /\ blob'["v2"] = blob["v2"]
    BY <1>5, CommitSweepInv
  <2> PICK v : v = IF r.goal = "rescue" THEN Entries(r.got) ELSE r.view
    OBVIOUS
  <2> PICK x : x = [r EXCEPT !.cached = r.fresh, !.view = v]
    OBVIOUS
  <2> PICK s : s = Done(x)
    OBVIOUS
  <2>2. Become(t, s) /\ r.pc = "sweep"
    BY <1>5 DEF CommitSweep
  <2>3. /\ s.pc = "idle" /\ s.goal = "none" /\ s.fresh = NoKey /\ s.list = {} /\ s.to = {}
        /\ s.cached = r.fresh
    BY <1>1 DEF Done, Tab
  <2>4. /\ u \in members /\ u \in upgraded /\ MembersOnly(r.fresh)
        /\ blob["v2"].key = r.fresh /\ share[u] = r.fresh
    BY <1>1, <1>2, <1>3, <2>1, <2>2, TypedRow DEF Sound, NewKey, Carries, Generated, Rekeyed,
       Replacing
  <2>5. Awaits(s) /\ Carries(s, u)'
    BY <2>3 DEF Awaits, Carries, Generated
  <2>6. NotYet(s)' /\ OldKey(s, u)'
    BY <2>1 DEF NotYet, OldKey
  <2>7. NewKey(s, u)'
    BY <1>1, <1>2, <2>1, <2>3, <2>4 DEF NewKey, MembersOnly, Rekeyed, Replacing
  <2>8. Sound(s, u)'
    BY <2>5, <2>6, <2>7, <2>1 DEF Sound, Awaits
  <2> QED BY <2>2, <2>8, TheTab
<1> QED BY <1>4, <1>5

\* A vault that is deleted stays so.
LEMMA DeleteAlone ==
  ASSUME Alone, Inv, AloneInv, NEW t \in Tabs, DeleteBatch(t) \/ DeletePurge(t)
  PROVE  AloneInv'
<1>1. row' = "deleted"
  BY DeleteInv
<1>2. PICK s : Become(t, s) /\ s.pc # "acl"
  <2>1. tab[t] \in Tab
    BY TheTab
  <2>2. CASE DeleteBatch(t)
    <3>1. Become(t, [tab[t] EXCEPT !.pc = "purge"])
      BY <2>2 DEF DeleteBatch
    <3>2. [tab[t] EXCEPT !.pc = "purge"].pc = "purge"
      BY <2>1 DEF Tab
    <3> QED BY <3>1, <3>2
  <2>3. CASE DeletePurge(t)
    <3>1. Become(t, Done(tab[t])) /\ Done(tab[t]).pc = "idle"
      BY <2>1, <2>3, DoneType DEF DeletePurge
    <3> QED BY <3>1
  <2> QED BY <2>2, <2>3
<1>3. Sound(s, UserOf[t])'
  BY <1>1, <1>2 DEF Sound
<1> QED BY <1>2, <1>3, TheTab

\* More public keys make nothing false.
LEMMA UpgradeAlone ==
  ASSUME AloneInv, NEW w \in Users, Upgrade(w)
  PROVE  AloneInv'
<1> SUFFICES ASSUME NEW t \in Tabs PROVE Sound(tab[t], UserOf[t])'
  BY DEF AloneInv
<1> PICK r : r = tab[t]
  OBVIOUS
<1>1. Sound(r, UserOf[t])
  BY DEF AloneInv
<1>2. /\ UNCHANGED <<row, blob, share, members, tab, held>> /\ upgraded \subseteq upgraded'
  BY DEF Upgrade
<1>3. Sound(r, UserOf[t])'
  BY <1>1, <1>2 DEF MembersOnly, Sound, Awaits, Carries, NotYet, OldKey, NewKey,
     Generated, Rekeyed, Replacing, BeforeNewKey, Live, Versions
<1> QED BY <1>2, <1>3

\* Nor does a step that changes nothing.
LEMMA StutterAlone == AloneInv /\ UNCHANGED vars => AloneInv'
BY DEF vars, AloneInv, MembersOnly, Sound, Awaits, Carries, NotYet, OldKey, NewKey,
   Generated, Rekeyed, Replacing, BeforeNewKey, Live, Versions

\* One tab, step by step.
THEOREM AloneInvariance == ASSUME Alone PROVE Spec => []AloneInv
<1>1. Inv /\ AloneInv /\ [Next]_vars => AloneInv'
  <2> SUFFICES ASSUME Inv, AloneInv, [Next]_vars PROVE AloneInv'
    OBVIOUS
  <2>1. ASSUME NEW t \in Tabs, Continue(t) PROVE AloneInv'
    <3>1. CASE CreateAcl(t)
      BY <3>1, CreateAlone
    <3>2. CASE LookupMember(t) \/ DownloadSelect(t) \/ DownloadGet(t)
               \/ UploadSelect(t) \/ CommitCheck(t) \/ ShareCheck(t)
      BY <3>2, ReadAlone
    <3>3. CASE ShowEntries(t) \/ StartGrant(t) \/ CannotDecrypt(t)
      BY <3>3, OpenedAlone
    <3>4. CASE StartRescue(t) \/ StartRotate(t)
      BY <3>4, RekeyAlone
    <3>5. CASE ListMembers(t)
      BY <3>5, ListAlone
    <3>6. CASE UploadPut(t)
      BY <3>6, PutAlone
    <3>7. CASE ShareBatch(t)
      BY <3>7, ShareAlone
    <3>8. CASE CommitFlip(t) \/ CommitSweep(t)
      BY <3>8, CommitAlone
    <3>9. CASE DeleteBatch(t) \/ DeletePurge(t)
      BY <3>9, DeleteAlone
    <3>10. CASE Refused(t) \/ SkipMember(t)
      BY <3>10, FailureAlone
    <3> QED BY <2>1, <3>1, <3>2, <3>3, <3>4, <3>5, <3>6, <3>7, <3>8, <3>9, <3>10 DEF Continue
  <2>2. ASSUME NEW t \in Tabs, OpenVault(t) \/ SaveVault(t) \/ DeleteVault(t) \/ Reconcile(t)
        PROVE  AloneInv'
    BY <2>2, StartAlone
  <2>3. ASSUME NEW t \in Tabs, CreateVault(t) PROVE AloneInv'
    BY <2>3, CreateAlone
  <2>4. ASSUME NEW t \in Tabs, NEW w \in Users, AddMember(t, w) \/ RemoveMember(t, w)
        PROVE  AloneInv'
    BY <2>4, MembershipAlone
  <2>5. ASSUME NEW t \in Tabs, Fail(t) \/ Crash(t) \/ Reload(t) PROVE AloneInv'
    BY <2>5, FailureAlone
  <2>6. ASSUME NEW w \in Users, Upgrade(w) PROVE AloneInv'
    BY <2>6, UpgradeAlone
  <2> QED BY <2>1, <2>2, <2>3, <2>4, <2>5, <2>6, StutterAlone DEF Next
<1> QED BY <1>1, InitAlone, Invariance, PTL DEF Spec

\* With one tab that works through its flows, the members who are removed were
\* never given the key that is live once the rotation is over.
THEOREM RemovedAreRevoked == ASSUME Alone PROVE Spec => []Revoked
<1>1. AloneInv /\ Inv => Revoked
  <2> SUFFICES ASSUME AloneInv, Inv, row = "v2", \A t \in Tabs : tab[t].goal # "rotate",
                      NEW w \in Users \ members
               PROVE  Live.key \notin held[w]
    BY DEF Revoked
  <2>1. PICK t : Tabs = {t}
    BY DEF Alone
  <2>2. tab[t].goal # "rotate" /\ NewKey(tab[t], UserOf[t]) /\ Live = blob["v2"]
    BY <2>1 DEF AloneInv, Sound, Live, Versions
  <2>3. CASE tab[t].goal = "create"
    <3>1. Live.key = NoKey /\ held[w] \in SUBSET Keys
      BY <2>2, <2>3 DEF NewKey, Inv, TypeOK
    <3> QED BY <3>1, TypedRow
  <2>4. CASE tab[t].goal # "create"
    BY <2>2, <2>4 DEF NewKey, MembersOnly
  <2> QED BY <2>3, <2>4
<1> QED BY <1>1, AloneInvariance, Invariance, PTL

\* With one tab, a grant takes the live key from nobody, also where members are
\* removed and keys rotated between grants.
THEOREM GrantsOnlyAddAlone == ASSUME Alone PROVE Spec => GrantRevokesNobody
<1>1. Inv /\ AloneInv /\ [Next]_vars =>
        [\A t \in Tabs, u \in Users :
           /\ tab[t].pc = "share_batch" /\ tab[t].goal = "grant" /\ tab'[t] # tab[t]
           /\ Live # NoBlob /\ share[u] = Live.key
           => share'[u] = share[u]]_vars
  <2> SUFFICES ASSUME Inv, AloneInv, Next, NEW t \in Tabs, NEW u \in Users,
                      tab[t].pc = "share_batch", tab[t].goal = "grant", tab'[t] # tab[t],
                      Live # NoBlob, share[u] = Live.key
               PROVE  share'[u] = share[u]
    OBVIOUS
  <2>1. row = "v2" /\ tab[t].fresh = Live.key
    BY TheTab, TypedRow DEF Sound, Awaits, Carries, NotYet, OldKey, NewKey, Generated,
       Rekeyed, Replacing, BeforeNewKey, Live, Versions, Inv, TypeOK
  <2>2. ASSUME NEW o \in Tabs, ShareBatch(o) PROVE share'[u] = share[u]
    <3>1. o = t
      BY DEF Alone
    <3> QED BY <2>1, <2>2, <3>1 DEF ShareBatch, WrappedKey, Replaces
  <2>3. ASSUME NEW o \in Tabs, DeleteBatch(o) \/ \E m \in Users : RemoveMember(o, m) PROVE FALSE
    BY <2>3 DEF Alone, DeleteBatch, RemoveMember
  <2> QED BY <2>2, <2>3, ShareWriters
<1> QED BY <1>1, AloneInvariance, Invariance, PTL DEF Spec, GrantRevokesNobody
=============================================================================
