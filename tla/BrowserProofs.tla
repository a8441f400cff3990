---------------------------- MODULE BrowserProofs ----------------------------
(***************************************************************************)
(* Theorems about Browser, for any users, tabs, vaults, salts and timeout: *)
(* what tabs do to the session they share mixes up no keys.                *)
(***************************************************************************)
EXTENDS Browser, TLAPS

-----------------------------------------------------------------------------
(* The invariant.                                                          *)

\* The vault that a tab is creating is no other tab's, and has no share yet.
Reserved ==
  \A t \in Tabs : \A v \in tab[t].on :
    /\ share[v] = NoShare
    /\ \A s \in Tabs \ {t} : v \notin tab[s].on

\* A salt on file is one account's.
Distinct == \A u, w \in Users : cred[u] = cred[w] => u = w

\* Keys in memory whose sealed copy is under a salt on file are that account's; so
\* the keys a tab seals again are those of the account it does it for, though it
\* learns the account from the session and only opens its own copy.
Holds(r) ==
  r.pc = "app" => /\ \A u \in Users : cred[u] = r.under => r.who = u
                  /\ r.op = "rekey" => r.who = r.for

Held == \A t \in Tabs : Holds(tab[t])

Inv == TypeOK /\ KeysOwn /\ VaultsOpen /\ Reserved /\ Distinct /\ Held

-----------------------------------------------------------------------------
(* Types.                                                                  *)

\* What a tab's record is, field by field.
TabOK(r) ==
  /\ r \in Tab
  /\ r.pc = "app" <=> r.who # Nobody
  /\ r.pc = "app" <=> r.timer # Off

LEMMA OffTimer == Off \notin 0..Limit
BY DEF Off

LEMMA LoadedOK ==
  ASSUME NEW pc \in {"booting", "auth", "signing", "alert"}
  PROVE  /\ TabOK([Blank EXCEPT !.pc = pc])
         /\ [Blank EXCEPT !.pc = pc].on = {}
         /\ Holds([Blank EXCEPT !.pc = pc])
BY DEF Blank, Tab, TabOK, Holds

LEMMA TabTyped ==
  ASSUME TypeOK, NEW t \in Tabs
  PROVE  TabOK(tab[t])
BY DEF TypeOK, TabOK

LEMMA FreshTyped ==
  ASSUME FreshSalts # {}
  PROVE  /\ Fresh \in Salts
         /\ \A u \in Users : cred[u] # Fresh
         /\ \A t \in Tabs : tab[t].under # Fresh
<1>1. Fresh \in FreshSalts
  BY DEF Fresh
<1> QED
  BY <1>1 DEF FreshSalts

\* One tab changes and the others do not.
LEMMA TabStep ==
  ASSUME TypeOK, NEW t \in Tabs, NEW r, TabOK(r), Become(t, r)
  PROVE  /\ tab' \in [Tabs -> Tab]
         /\ \A s \in Tabs : TabOK(tab'[s])
         /\ tab'[t] = r
         /\ \A s \in Tabs \ {t} : tab'[s] = tab[s]
BY TabTyped DEF TypeOK, Become, TabOK

\* The types after a step, but for what the step does to the stores.
LEMMA TypeFromParts ==
  ASSUME accounts' \subseteq Users, cred' \in [Users -> Salts],
         sealed' \in [Users -> Sealed],
         owner' \in [Vaults -> Users \union {Nobody}],
         share' \in [Vaults -> Share], session' \in Session,
         tab' \in [Tabs -> Tab], \A s \in Tabs : TabOK(tab'[s])
  PROVE  TypeOK'
BY DEF TypeOK, TabOK

LEMMA ServerTyped ==
  ASSUME TypeOK
  PROVE  /\ accounts \subseteq Users /\ cred \in [Users -> Salts]
         /\ sealed \in [Users -> Sealed]
         /\ owner \in [Vaults -> Users \union {Nobody}]
         /\ share \in [Vaults -> Share] /\ session \in Session
         /\ NoSession \in Session
BY DEF TypeOK, NoSession, Session

-----------------------------------------------------------------------------
(* Steps that leave the server alone.                                      *)

\* They keep the invariant when they keep the types and take no vault.
LEMMA ServerAlone ==
  ASSUME Inv, TypeOK', UNCHANGED server,
         \A t \in Tabs : tab'[t].on \subseteq tab[t].on /\ Holds(tab'[t])
  PROVE  Inv'
<1>1. KeysOwn' /\ VaultsOpen'
  BY DEF Inv, KeysOwn, VaultsOpen, server
<1>2. Reserved'
  BY DEF Inv, Reserved, server
<1>3. Distinct' /\ Held'
  BY DEF Inv, Distinct, Held, Holds, server
<1> QED
  BY <1>1, <1>2, <1>3 DEF Inv

LEMMA OneTab ==
  ASSUME Inv, UNCHANGED server, session' \in Session, NEW t \in Tabs,
         NEW r, TabOK(r), Holds(r), Become(t, r), r.on \subseteq tab[t].on
  PROVE  Inv'
<1>1. TypeOK
  BY DEF Inv
<1>2. TypeOK'
  BY <1>1, TabStep, TypeFromParts, ServerTyped DEF server
<1>3. \A s \in Tabs : tab'[s].on \subseteq tab[s].on /\ Holds(tab'[s])
  BY <1>1, TabStep DEF Inv, Held
<1> QED
  BY <1>2, <1>3, ServerAlone

LEMMA Unload ==
  ASSUME Inv, UNCHANGED server, session' \in Session, NEW t \in Tabs,
         NEW pc \in {"booting", "auth", "signing", "alert"}, Load(t, pc)
  PROVE  Inv'
<1> DEFINE r == [Blank EXCEPT !.pc = pc]
<1>1. TabOK(r) /\ r.on = {} /\ Holds(r)
  BY LoadedOK
<1>2. Become(t, r)
  BY DEF Load
<1> HIDE DEF r
<1> QED
  BY <1>1, <1>2, OneTab

LEMMA SessionSteps ==
  ASSUME Inv, NEW t \in Tabs,
         \/ Reload(t) \/ Boot(t) \/ SignInRefused(t) \/ Logout(t) \/ Unauthorized(t)
         \/ TimeOut(t) \/ Deleted(t) \/ PasswordRefused(t)
  PROVE  Inv'
<1>1. session \in Session /\ NoSession \in Session
  BY ServerTyped DEF Inv
<1>2. UNCHANGED server
  BY DEF Reload, Boot, SignInRefused, Logout, Unauthorized, TimeOut, Deleted,
         PasswordRefused
<1>3. session' \in Session
  BY <1>1 DEF Reload, Boot, SignInRefused, Logout, Unauthorized, TimeOut, Deleted,
              PasswordRefused, SignedOut
<1>4. Load(t, "booting") \/ Load(t, "auth") \/ Load(t, "alert")
  BY DEF Reload, Boot, SignInRefused, Logout, Unauthorized, TimeOut, Deleted,
         PasswordRefused, SignedOut
<1> QED
  BY <1>2, <1>3, <1>4, Unload

LEMMA TabSteps ==
  ASSUME Inv, NEW t \in Tabs,
         \/ \E u \in Users : SignIn(t, u)
         \/ SignedIn(t) \/ Use(t) \/ StartRekey(t) \/ StartDelete(t)
  PROVE  Inv'
<1>1. TypeOK /\ TabOK(tab[t]) /\ Holds(tab[t])
  BY TabTyped DEF Inv, Held
<1>2. session \in Session /\ cred \in [Users -> Salts] /\ sealed \in [Users -> Sealed]
  BY <1>1 DEF TypeOK
<1>2a. \A w \in accounts : sealed[w] = [of |-> w, under |-> cred[w]]
  BY DEF Inv, KeysOwn
<1>3. ASSUME NEW u \in Users, SignIn(t, u)
      PROVE  Inv'
  <2> DEFINE r == [tab[t] EXCEPT !.pc = "signing", !.for = u, !.salt = cred[u]]
  <2>1. TabOK(r) /\ Holds(r) /\ r.on = tab[t].on
    BY <1>1, <1>2, <1>3 DEF SignIn, TabOK, Tab, Holds
  <2>2. Become(t, r) /\ UNCHANGED server /\ session' \in Session
    BY <1>2, <1>3 DEF SignIn
  <2> HIDE DEF r
  <2> QED
    BY <2>1, <2>2, OneTab
<1>4. CASE SignedIn(t)
  <2> DEFINE u == tab[t].for
             r == [Blank EXCEPT !.pc = "app", !.who = sealed[u].of,
                                !.under = sealed[u].under, !.timer = TimerStarted]
  <2>1. u \in accounts /\ u \in Users
    BY <1>1, <1>4 DEF SignedIn, TypeOK
  <2>2. sealed[u] \in Sealed
    BY <1>2, <2>1
  <2>3. 0 \in 0..Limit /\ 0 # Off
    BY BrowserAssumption DEF Off
  <2>4. sealed[u].of \in Users /\ sealed[u].under \in Salts /\ sealed[u].of # Nobody
    BY <2>2, BrowserAssumption DEF Sealed
  <2>5. /\ r.pc = "app" /\ r.who = sealed[u].of /\ r.timer = 0 /\ r.on = {}
        /\ r \in Tab
    BY <2>3, <2>4 DEF Tab, Blank, TimerStarted
  <2>6. TabOK(r) /\ r.on = {}
    BY <2>3, <2>4, <2>5 DEF TabOK
  <2>6a. Holds(r)
    <3>0. sealed[u] = [of |-> u, under |-> cred[u]]
      BY <2>1, <1>2a
    <3>1. sealed[u].of = u /\ sealed[u].under = cred[u]
      BY <3>0
    <3>2. r.who = u /\ r.under = cred[u] /\ r.op = "none"
      BY <3>1, <2>4, <2>5 DEF Blank
    <3> QED
      BY <2>1, <3>2 DEF Holds, Inv, Distinct
  <2>7. Become(t, r) /\ UNCHANGED server
    BY <1>4 DEF SignedIn
  <2>8. session' \in Session
    BY <1>4, <2>1 DEF SignedIn, Session
  <2> HIDE DEF r
  <2> QED
    BY <2>6, <2>6a, <2>7, <2>8, OneTab
<1>5. CASE Use(t)
  <2> DEFINE r == [tab[t] EXCEPT !.timer = 0]
  <2>1. TabOK(r) /\ Holds(r) /\ r.on = tab[t].on
    BY <1>1, <1>5, OffTimer, BrowserAssumption DEF Use, TabOK, Tab, Holds
  <2>2. Become(t, r) /\ UNCHANGED server /\ session' \in Session
    BY <1>2, <1>5 DEF Use
  <2> HIDE DEF r
  <2> QED
    BY <2>1, <2>2, OneTab
<1>6. ASSUME NEW op \in {"rekey", "delete"}, session.who # Nobody, tab[t].pc = "app",
             op = "rekey" => Opens(t),
             Become(t, [tab[t] EXCEPT !.op = op, !.for = session.who,
                                      !.salt = cred[session.who]]),
             UNCHANGED <<server, session>>
      PROVE  Inv'
  <2> DEFINE r == [tab[t] EXCEPT !.op = op, !.for = session.who,
                                 !.salt = cred[session.who]]
  <2>1. session.who \in Users /\ cred[session.who] \in Salts
    BY <1>2, <1>6 DEF Session
  <2>2. TabOK(r) /\ r.on = tab[t].on
    BY <1>1, <2>1 DEF TabOK, Tab
  <2>3. op = "rekey" => tab[t].who = session.who
    BY <1>1, <1>6, <2>1 DEF Opens, Holds
  <2>4. /\ r.pc = "app" /\ r.who = tab[t].who /\ r.under = tab[t].under
        /\ r.op = op /\ r.for = session.who
    BY <1>1, <1>6 DEF TabOK, Tab
  <2>5. Holds(r)
    BY <1>1, <1>6, <2>3, <2>4 DEF Holds
  <2> HIDE DEF r
  <2> QED
    BY <1>2, <1>6, <2>2, <2>5, OneTab DEF r
<1> QED
  BY <1>3, <1>4, <1>5, <1>6 DEF StartRekey, StartDelete, Ready

LEMMA Clocks ==
  ASSUME Inv, Expire \/ Tick
  PROVE  Inv'
<1>1. TypeOK /\ \A t \in Tabs : TabOK(tab[t]) /\ Holds(tab[t])
  BY TabTyped DEF Inv, Held
<1>2. CASE Expire
  <2>1. UNCHANGED server /\ tab' = tab /\ session' \in Session
    BY <1>1, <1>2, ServerTyped DEF Expire, Session
  <2>2. TypeOK'
    BY <1>1, <2>1 DEF TypeOK, server
  <2> QED
    BY <1>1, <2>1, <2>2, ServerAlone DEF Inv, Held
<1>3. CASE Tick
  <2>1. UNCHANGED server /\ session' \in Session
    BY <1>1, <1>3, ServerTyped DEF Tick
  <2>2. ASSUME NEW t \in Tabs
        PROVE  TabOK(tab'[t]) /\ Holds(tab'[t]) /\ tab'[t].on = tab[t].on
    <3>1. TabOK(tab[t]) /\ Holds(tab[t]) /\ tab[t].timer # Limit
      BY <1>1, <1>3 DEF Tick
    <3>2. CASE tab[t].timer = Off
      BY <1>3, <3>1, <3>2 DEF Tick
    <3>3. CASE tab[t].timer # Off
      <4>1. tab'[t] = [tab[t] EXCEPT !.timer = tab[t].timer + 1]
        BY <1>3, <3>3 DEF Tick
      <4>2. tab[t].timer \in 0..Limit
        BY <3>1, <3>3 DEF TabOK, Tab
      <4>3. tab[t].timer + 1 \in 0..Limit /\ tab[t].timer + 1 # Off
        BY <3>1, <4>2, BrowserAssumption DEF Off
      <4> QED
        BY <3>1, <3>3, <4>1, <4>3 DEF TabOK, Tab, Holds
    <3> QED
      BY <3>2, <3>3
  <2>3. tab' \in [Tabs -> Tab]
    BY <1>3, <2>2 DEF Tick, TabOK
  <2>4. TypeOK'
    BY <1>1, <2>1, <2>2, <2>3, TypeFromParts, ServerTyped DEF server
  <2> QED
    BY <2>1, <2>2, <2>4, ServerAlone
<1> QED
  BY <1>2, <1>3

-----------------------------------------------------------------------------
(* Steps of the flows.                                                     *)

\* The keys that a tab seals again are of the account whose row is written; the
\* new salt is no other account's, and no other tab's keys are under it.
LEMMA RekeyStep ==
  ASSUME Inv, NEW t \in Tabs, RekeyBatch(t)
  PROVE  Inv'
<1> DEFINE u == tab[t].for
<1>1. /\ TypeOK /\ TabOK(tab[t]) /\ KeysOwn /\ VaultsOpen /\ Reserved
      /\ Distinct /\ \A s \in Tabs : Holds(tab[s])
  BY TabTyped DEF Inv, Held
<1>2. /\ u \in accounts /\ u \in Users /\ tab[t].who = u
      /\ tab[t].pc = "app" /\ Fresh \in Salts
      /\ \A w \in Users : cred[w] # Fresh
      /\ \A s \in Tabs : tab[s].under # Fresh
  BY <1>1, FreshTyped DEF RekeyBatch, Sends, TypeOK, Holds
<1>3. UNCHANGED <<accounts, owner, share, session>>
  BY DEF RekeyBatch
<1>4. /\ cred' = [cred EXCEPT ![u] = Fresh]
      /\ sealed' = [sealed EXCEPT ![u] = [of |-> u, under |-> Fresh]]
  BY <1>2 DEF RekeyBatch, Resealed
<1>5. cred' \in [Users -> Salts] /\ sealed' \in [Users -> Sealed]
  BY <1>1, <1>2, <1>4 DEF TypeOK, Sealed
<1>6. PICK under \in {Fresh, tab[t].under} :
        Become(t, [tab[t] EXCEPT !.op = "none", !.for = Nobody, !.salt = NoSalt,
                                 !.under = under])
  BY DEF RekeyBatch
<1> DEFINE r == [tab[t] EXCEPT !.op = "none", !.for = Nobody, !.salt = NoSalt,
                               !.under = under]
<1>7. TabOK(r) /\ r.on = tab[t].on
  BY <1>1, <1>2, <1>6 DEF TabOK, Tab
<1>8. Become(t, r)
  BY <1>6
<1> HIDE DEF r
<1>9. /\ tab' \in [Tabs -> Tab] /\ \A s \in Tabs : TabOK(tab'[s])
      /\ \A s \in Tabs : tab'[s].on = tab[s].on
  BY <1>1, <1>7, <1>8, TabStep
<1>10. TypeOK'
  BY <1>1, <1>3, <1>5, <1>9, TypeFromParts, ServerTyped
<1>11. KeysOwn'
  BY <1>1, <1>2, <1>3, <1>4 DEF KeysOwn, TypeOK
<1>12. VaultsOpen'
  BY <1>1, <1>3 DEF VaultsOpen
<1>13. Reserved'
  BY <1>1, <1>3, <1>9 DEF Reserved
<1>14. Distinct'
  BY <1>1, <1>2, <1>4 DEF Distinct, TypeOK
<1>15. \A w \in Users : cred'[w] = IF w = u THEN Fresh ELSE cred[w]
  BY <1>1, <1>4 DEF TypeOK
<1>16. /\ r.pc = "app" /\ r.who = u /\ r.op = "none" /\ r.under = under
  BY <1>1, <1>2, <1>6 DEF TabOK, Tab, r
<1>17. tab'[t] = r /\ \A s \in Tabs \ {t} : tab'[s] = tab[s]
  BY <1>1, <1>7, <1>8, TabStep
<1>18. \A w \in Users : cred'[w] = under => w = u
  <2>1. \A w \in Users : cred[w] = tab[t].under => w = u
    BY <1>1, <1>2 DEF Holds
  <2> QED
    BY <1>2, <1>6, <1>15, <2>1
<1>19. Held'
  <2> SUFFICES ASSUME NEW s \in Tabs
               PROVE  Holds(tab[s])'
    BY DEF Held
  <2>1. CASE s = t
    BY <1>16, <1>17, <1>18, <2>1 DEF Holds
  <2>2. CASE s # t
    <3>1. tab'[s] = tab[s] /\ Holds(tab[s]) /\ tab[s].under # Fresh
      BY <1>1, <1>2, <1>17, <2>2
    <3> QED
      BY <1>15, <3>1 DEF Holds
  <2> QED
    BY <2>1, <2>2
<1> QED
  BY <1>10, <1>11, <1>12, <1>13, <1>14, <1>19 DEF Inv

\* A step that changes no credentials, and of one tab only fields that are not
\* about keys.
LEMMA KeysApart ==
  ASSUME Inv, NEW t \in Tabs, NEW r, Holds(r), TabOK(r), Become(t, r), cred' = cred
  PROVE  Distinct' /\ Held'
BY TabStep DEF Inv, Distinct, Held, Holds

LEMMA DeleteStep ==
  ASSUME Inv, NEW t \in Tabs, DeleteRows(t)
  PROVE  Inv'
<1> DEFINE r == [tab[t] EXCEPT !.op = "deleted"]
<1>1. TypeOK /\ TabOK(tab[t]) /\ KeysOwn /\ VaultsOpen /\ Reserved /\ Holds(tab[t])
  BY TabTyped DEF Inv, Held
<1>2. TabOK(r) /\ Holds(r) /\ r.on = tab[t].on
  BY <1>1 DEF TabOK, Tab, Holds
<1>3. Become(t, r) /\ UNCHANGED <<cred, sealed, session>>
  BY DEF DeleteRows
<1>4. /\ accounts' = accounts \ {tab[t].for}
      /\ share' = [v \in Vaults |-> IF owner[v] = tab[t].for THEN NoShare
                                    ELSE share[v]]
      /\ owner' = [v \in Vaults |-> IF owner[v] = tab[t].for THEN Nobody
                                    ELSE owner[v]]
  BY DEF DeleteRows
<1> HIDE DEF r
<1>5. /\ tab' \in [Tabs -> Tab] /\ \A s \in Tabs : TabOK(tab'[s])
      /\ \A s \in Tabs : tab'[s].on = tab[s].on
  BY <1>1, <1>2, <1>3, TabStep
<1>6. /\ share' \in [Vaults -> Share]
      /\ owner' \in [Vaults -> Users \union {Nobody}]
  BY <1>1, <1>4 DEF TypeOK, Share, NoShare
<1>7. TypeOK'
  BY <1>1, <1>3, <1>4, <1>5, <1>6, TypeFromParts, ServerTyped
<1>8. KeysOwn'
  BY <1>1, <1>3, <1>4 DEF KeysOwn
<1>9. VaultsOpen'
  BY <1>1, <1>4 DEF VaultsOpen
<1>10. \A v \in Vaults : share[v] = NoShare => share'[v] = NoShare
  BY <1>4
<1>11. \A s \in Tabs : tab[s].on \subseteq Vaults
  BY <1>1 DEF TypeOK, Tab
<1>12. Reserved'
  BY <1>1, <1>5, <1>10, <1>11 DEF Reserved
<1> QED
  BY <1>2, <1>3, <1>7, <1>8, <1>9, <1>12, KeysApart DEF Inv

\* A fresh id belongs to nobody, so it has no share.
LEMMA CreateStep ==
  ASSUME Inv, NEW t \in Tabs, NEW v \in Vaults, StartCreate(t, v)
  PROVE  Inv'
<1> DEFINE r == [tab[t] EXCEPT !.op = "vault", !.for = session.who, !.on = {v}]
<1>1. TypeOK /\ TabOK(tab[t]) /\ KeysOwn /\ VaultsOpen /\ Reserved /\ Holds(tab[t])
  BY TabTyped DEF Inv, Held
<1>2. session.who \in Users
  BY <1>1 DEF StartCreate, TypeOK, Session
<1>3. TabOK(r) /\ Holds(r) /\ r.on = {v}
  BY <1>1, <1>2 DEF TabOK, Tab, Holds
<1>4. Become(t, r) /\ UNCHANGED <<server, session>>
  BY DEF StartCreate
<1> HIDE DEF r
<1>5. /\ tab' \in [Tabs -> Tab] /\ \A s \in Tabs : TabOK(tab'[s])
      /\ tab'[t].on = {v} /\ \A s \in Tabs \ {t} : tab'[s] = tab[s]
  BY <1>1, <1>3, <1>4, TabStep
<1>6. TypeOK'
  BY <1>1, <1>4, <1>5, TypeFromParts, ServerTyped DEF server
<1>7. KeysOwn' /\ VaultsOpen'
  BY <1>1, <1>4 DEF KeysOwn, VaultsOpen, server
<1>8. share[v] = NoShare /\ \A s \in Tabs : v \notin tab[s].on
  BY <1>1, BrowserAssumption DEF StartCreate, VaultsOpen, TypeOK
<1>9. share' = share
  BY <1>4 DEF server
<1>10. ASSUME NEW s \in Tabs, NEW w \in tab'[s].on
       PROVE  /\ share'[w] = NoShare
              /\ \A x \in Tabs \ {s} : w \notin tab'[x].on
  <2>1. CASE s = t
    BY <1>5, <1>8, <1>9, <1>10, <2>1
  <2>2. CASE s # t
    <3>1. w \in tab[s].on
      BY <1>5, <1>10, <2>2
    <3>2. w # v
      BY <1>8, <3>1
    <3> QED
      BY <1>1, <1>5, <1>9, <3>1, <3>2 DEF Reserved
  <2> QED
    BY <2>1, <2>2
<1>11. Distinct' /\ Held'
  BY <1>3, <1>4, KeysApart DEF server
<1> QED
  BY <1>6, <1>7, <1>10, <1>11 DEF Inv, Reserved

\* A vault whose share is not stored yet may change hands.
LEMMA OwnerStep ==
  ASSUME Inv, NEW t \in Tabs, NEW u \in Users \union {Nobody},
         OwnerBecomes(t, u) \/ UNCHANGED owner,
         NEW r, TabOK(r), Holds(r), r.on \subseteq tab[t].on, Become(t, r),
         UNCHANGED <<accounts, cred, sealed, share, session>>
  PROVE  Inv'
<1>1. TypeOK /\ KeysOwn /\ VaultsOpen /\ Reserved
  BY DEF Inv
<1>2. /\ tab' \in [Tabs -> Tab] /\ \A s \in Tabs : TabOK(tab'[s])
      /\ tab'[t] = r /\ \A s \in Tabs \ {t} : tab'[s] = tab[s]
  BY <1>1, TabStep
<1>3. owner' \in [Vaults -> Users \union {Nobody}]
  BY <1>1 DEF TypeOK, OwnerBecomes
<1>4. TypeOK'
  BY <1>1, <1>2, <1>3, TypeFromParts, ServerTyped
<1>5. KeysOwn'
  BY <1>1 DEF KeysOwn
<1>6. \A v \in Vaults : share[v] # NoShare => owner'[v] = owner[v]
  BY <1>1 DEF Reserved, OwnerBecomes, TypeOK
<1>7. VaultsOpen'
  BY <1>1, <1>6 DEF VaultsOpen
<1>8. Reserved'
  BY <1>1, <1>2 DEF Reserved
<1> QED
  BY <1>4, <1>5, <1>7, <1>8, KeysApart DEF Inv

LEMMA FlowEnds ==
  ASSUME NEW t \in Tabs, TabOK(tab[t]), Holds(tab[t]), EndFlow(t)
  PROVE  \E r : TabOK(r) /\ Holds(r) /\ r.on = {} /\ Become(t, r)
<1> DEFINE r == [tab[t] EXCEPT !.op = "none", !.for = Nobody, !.salt = NoSalt,
                               !.on = {}]
<1>1. /\ r \in Tab /\ r.on = {}
      /\ r.pc = tab[t].pc /\ r.who = tab[t].who /\ r.timer = tab[t].timer
      /\ r.under = tab[t].under /\ r.op = "none"
  BY DEF TabOK, Tab
<1>2. Become(t, r)
  BY DEF EndFlow
<1> HIDE DEF r
<1>3. TabOK(r) /\ Holds(r)
  BY <1>1 DEF TabOK, Holds
<1> QED
  BY <1>1, <1>2, <1>3

LEMMA InsertOrAbandon ==
  ASSUME Inv, NEW t \in Tabs, VaultInsert(t) \/ Abandon(t)
  PROVE  Inv'
<1>1. TypeOK /\ TabOK(tab[t]) /\ Holds(tab[t])
  BY TabTyped DEF Inv, Held
<1>2. CASE VaultInsert(t)
  <2> DEFINE r == [tab[t] EXCEPT !.op = "share"]
  <2>1. TabOK(r) /\ Holds(r) /\ r.on = tab[t].on
    BY <1>1 DEF TabOK, Tab, Holds
  <2>2. /\ Become(t, r) /\ OwnerBecomes(t, tab[t].for)
        /\ UNCHANGED <<accounts, cred, sealed, share, session>>
    BY <1>2 DEF VaultInsert
  <2>3. tab[t].for \in Users \union {Nobody}
    BY <1>1 DEF TabOK, Tab
  <2> HIDE DEF r
  <2> QED
    BY <2>1, <2>2, <2>3, OwnerStep
<1>3. CASE Abandon(t)
  <2>1. PICK r : TabOK(r) /\ Holds(r) /\ r.on = {} /\ Become(t, r)
    BY <1>1, <1>3, FlowEnds DEF Abandon
  <2>2. /\ OwnerBecomes(t, Nobody) \/ UNCHANGED owner
        /\ UNCHANGED <<accounts, cred, sealed, share, session>>
    BY <1>3 DEF Abandon
  <2> QED
    BY <2>1, <2>2, OwnerStep
<1> QED
  BY <1>2, <1>3

LEMMA ShareStep ==
  ASSUME Inv, NEW t \in Tabs, PutShare(t)
  PROVE  Inv'
<1>1. TypeOK /\ TabOK(tab[t]) /\ KeysOwn /\ VaultsOpen /\ Reserved /\ Holds(tab[t])
  BY TabTyped DEF Inv, Held
<1>2. PICK r : TabOK(r) /\ Holds(r) /\ r.on = {} /\ Become(t, r)
  BY <1>1, FlowEnds DEF PutShare
<1>3. /\ tab' \in [Tabs -> Tab] /\ \A s \in Tabs : TabOK(tab'[s])
      /\ tab'[t].on = {} /\ \A s \in Tabs \ {t} : tab'[s] = tab[s]
  BY <1>1, <1>2, TabStep
<1>4. /\ UNCHANGED <<accounts, cred, sealed, owner, session>>
      /\ tab[t].for \in accounts
      /\ \A v \in tab[t].on : owner[v] = tab[t].for
      /\ share' = [v \in Vaults |-> IF v \in tab[t].on
                                    THEN [to |-> tab[t].for, key |-> tab[t].for]
                                    ELSE share[v]]
  BY DEF PutShare, PublicKey
<1>5. share' \in [Vaults -> Share]
  BY <1>1, <1>4 DEF TypeOK, Share
<1>6. TypeOK'
  BY <1>1, <1>3, <1>4, <1>5, TypeFromParts, ServerTyped
<1>7. KeysOwn'
  BY <1>1, <1>4 DEF KeysOwn
<1>8. VaultsOpen'
  BY <1>1, <1>4 DEF VaultsOpen
<1>9. ASSUME NEW s \in Tabs, NEW v \in tab'[s].on
      PROVE  /\ share'[v] = NoShare
             /\ \A x \in Tabs \ {s} : v \notin tab'[x].on
  <2>1. s # t /\ v \in tab[s].on /\ v \notin tab[t].on
    BY <1>1, <1>3, <1>9 DEF Reserved
  <2>2. v \in Vaults
    BY <1>1, <2>1 DEF TypeOK, Tab
  <2> QED
    BY <1>1, <1>3, <1>4, <2>1, <2>2 DEF Reserved
<1>10. Distinct' /\ Held'
  BY <1>2, <1>4, KeysApart
<1> QED
  BY <1>6, <1>7, <1>8, <1>9, <1>10 DEF Inv, Reserved

-----------------------------------------------------------------------------
(* The invariant is inductive.                                             *)

LEMMA InitInv == Init => Inv
<1> SUFFICES ASSUME Init PROVE Inv
  OBVIOUS
<1>1. /\ accounts = Users /\ cred \in [Users -> Salts]
      /\ sealed = [u \in Users |-> [of |-> u, under |-> cred[u]]]
      /\ owner = [v \in Vaults |-> Nobody] /\ share = [v \in Vaults |-> NoShare]
      /\ session = NoSession /\ tab = [t \in Tabs |-> Blank]
  BY DEF Init
<1>2. Blank \in Tab /\ Blank.who = Nobody /\ Blank.timer = Off /\ Blank.pc # "app"
      /\ Blank.on = {}
  BY DEF Blank, Tab
<1>3. NoShare \in Share /\ NoSession \in Session
  BY DEF NoShare, Share, NoSession, Session
<1>4. sealed \in [Users -> Sealed]
  BY <1>1 DEF Sealed
<1>5. TypeOK
  BY <1>1, <1>2, <1>3, <1>4 DEF TypeOK
<1>6. KeysOwn /\ VaultsOpen /\ Reserved
  BY <1>1, <1>2 DEF KeysOwn, VaultsOpen, Reserved
<1>7. Distinct /\ Held
  BY <1>1, <1>2 DEF Init, Distinct, Held, Holds
<1> QED
  BY <1>5, <1>6, <1>7 DEF Inv

LEMMA NextInv == Inv /\ [Next]_vars => Inv'
<1> SUFFICES ASSUME Inv, [Next]_vars PROVE Inv'
  OBVIOUS
<1>1. CASE UNCHANGED vars
  BY <1>1 DEF Inv, TypeOK, KeysOwn, VaultsOpen, Reserved, Distinct, Held, Holds, vars, server
<1>2. CASE Expire \/ Tick
  BY <1>2, Clocks
<1>3. CASE \E t \in Tabs :
             \/ Reload(t) \/ Boot(t) \/ SignInRefused(t) \/ Logout(t)
             \/ Unauthorized(t) \/ TimeOut(t) \/ Deleted(t) \/ PasswordRefused(t)
  BY <1>3, SessionSteps
<1>4. CASE \E t \in Tabs : \/ \E u \in Users : SignIn(t, u)
                           \/ SignedIn(t) \/ Use(t) \/ StartRekey(t) \/ StartDelete(t)
  BY <1>4, TabSteps
<1>5. CASE \E t \in Tabs : RekeyBatch(t)
  BY <1>5, RekeyStep
<1>6. CASE \E t \in Tabs : DeleteRows(t)
  BY <1>6, DeleteStep
<1>7. CASE \E t \in Tabs : \E v \in Vaults : StartCreate(t, v)
  BY <1>7, CreateStep
<1>8. CASE \E t \in Tabs : VaultInsert(t) \/ Abandon(t)
  BY <1>8, InsertOrAbandon
<1>9. CASE \E t \in Tabs : PutShare(t)
  BY <1>9, ShareStep
<1> QED
  BY <1>1, <1>2, <1>3, <1>4, <1>5, <1>6, <1>7, <1>8, <1>9 DEF Next

LEMMA Invariant == Spec => []Inv
BY InitInv, NextInv, PTL DEF Spec

-----------------------------------------------------------------------------
(* Results.                                                                *)

\* The stores and the tabs keep their types; the tabs that show the app are those
\* that hold keys, and those whose inactivity timer runs.
THEOREM TypeCorrect == Spec => []TypeOK
<1>1. Inv => TypeOK
  BY DEF Inv
<1> QED
  BY <1>1, Invariant, PTL

\* Re-sealing from a tab of one account while another tab replaces the session
\* leaves every account its own private key (settings.js, auth.ts changePassword).
THEOREM KeysStayOwn == Spec => []KeysOwn
<1>1. Inv => KeysOwn
  BY DEF Inv
<1> QED
  BY <1>1, Invariant, PTL

\* A personal vault's share is its owner's and for its owner's key, whatever other
\* tabs do between the row and the share (vaults.js, vaults.ts).
THEOREM VaultsStayOpen == Spec => []VaultsOpen
<1>1. Inv => VaultsOpen
  BY DEF Inv
<1> QED
  BY <1>1, Invariant, PTL
=============================================================================
