------------------------- MODULE PreferencesProofs -------------------------
(***************************************************************************)
(* Theorems about Preferences, for any fields, values, devices and saves   *)
(* in hand: what was chosen last comes to be stored, or was overtaken.     *)
(***************************************************************************)
EXTENDS Preferences, TLAPS

-----------------------------------------------------------------------------
(* The invariant.                                                          *)

\* A page that loads has nothing to send.
LoadsFirst == \A d \in Devices : page[d].pc = "loading" => page[d].due = Nothing

\* A save in hand of that field.
IsFor(s, f) == saves[s] # Nothing /\ saves[s].patch.field = f
OnItsWay(f) == \E d \in Devices : Pending(d, f)

\* The only save of a field brings the last choice, unless its device is about to
\* send another.
Brings(f) ==
  \A s \in Slots :
    IsFor(s, f) /\ f \notin Waiting(saves[s].by) /\ (\A t \in Slots : IsFor(t, f) => t = s)
      => saves[s].patch.value = wanted[f]

\* What a save has read of a field is still stored, or a choice for it is to come.
Current(f) ==
  \A s \in Slots :
    saves[s] # Nothing /\ saves[s].base # Nothing =>
      saves[s].base[f] = Stored[f] \/ OnItsWay(f)

\* The last choice for a field is on its way from one device, or stored.
Carried(f) ==
  /\ \A d, e \in Devices : Pending(d, f) /\ Pending(e, f) => d = e
  /\ \A d \in Devices : f \in Waiting(d) => page[d].due.value = wanted[f]
  /\ Brings(f)
  /\ Current(f)
  /\ ~OnItsWay(f) => Stored[f] = wanted[f]

SaveInv == LoadsFirst /\ \A f \in Fields \ lost : Carried(f)

-----------------------------------------------------------------------------
(* Types.                                                                  *)

LEMMA Distinct ==
  Nothing \notin Prefs /\ Nothing \notin Patch /\ Nothing \notin Save
BY PreferencesAssumption

LEMMA StoredTyped ==
  ASSUME TypeOK
  PROVE  Stored \in Prefs /\ Defaults \in Prefs
BY PreferencesAssumption DEF TypeOK, Stored, Defaults, Prefs

LEMMA WaitingTyped ==
  ASSUME TypeOK, NEW d \in Devices
  PROVE  /\ Waiting(d) \subseteq Fields
         /\ page[d].due # Nothing =>
              page[d].due \in Patch /\ Waiting(d) = {page[d].due.field}
         /\ page[d].due = Nothing => Waiting(d) = {}
BY DEF TypeOK, Page, Waiting, Patch

LEMMA InitTyped == Init => TypeOK
<1> SUFFICES ASSUME Init PROVE TypeOK
  OBVIOUS
<1>1. Defaults \in Prefs
  BY PreferencesAssumption DEF Defaults, Prefs
<1>2. [pc |-> "loading", shown |-> Defaults, cache |-> Nothing, due |-> Nothing] \in Page
  BY <1>1 DEF Page
<1> QED
  BY <1>1, <1>2 DEF Init, TypeOK

LEMMA TypeStep == TypeOK /\ [Next]_vars => TypeOK'
<1> SUFFICES ASSUME TypeOK, [Next]_vars PROVE TypeOK'
  OBVIOUS
<1>0. Stored \in Prefs /\ Defaults \in Prefs
  BY StoredTyped
<1>1. CASE UNCHANGED vars
  BY <1>1 DEF TypeOK, vars
<1>2. ASSUME NEW d \in Devices, NEW f \in Fields, NEW v \in Values, SetPrefs(d, f, v)
      PROVE  TypeOK'
  <2> DEFINE next == [page[d].shown EXCEPT ![f] = v]
             r == [pc |-> "open", shown |-> next, cache |-> next,
                   due |-> [field |-> f, value |-> v]]
  <2>1. next \in Prefs
    BY DEF TypeOK, Page, Prefs
  <2>2. r \in Page /\ r.cache = r.shown
    BY <2>1 DEF Page, Patch
  <2>3. page' = [page EXCEPT ![d] = r] /\ UNCHANGED <<row, saves>>
    BY <1>2 DEF SetPrefs
  <2>4. wanted' \in Prefs /\ lost' \subseteq Fields
    BY <1>2, WaitingTyped DEF SetPrefs, TypeOK, Prefs
  <2> HIDE DEF r, next
  <2> QED
    BY <2>2, <2>3, <2>4 DEF TypeOK
<1>3. ASSUME NEW d \in Devices, NEW s \in Slots, Send(d, s) PROVE TypeOK'
  <2>1. page[d].due \in Patch
    BY <1>3, WaitingTyped DEF Send
  <2>2. [by |-> d, patch |-> page[d].due, base |-> Nothing] \in Save
    BY <2>1 DEF Save
  <2> QED
    BY <1>3, <2>2 DEF Send, TypeOK, Page
<1>4. ASSUME NEW d \in Devices, NEW r \in Page, r.cache \in {r.shown, Nothing},
             page' = [page EXCEPT ![d] = r], UNCHANGED <<row, saves, wanted>>,
             lost' \subseteq Fields
      PROVE  TypeOK'
  BY <1>4 DEF TypeOK
<1>5. ASSUME NEW d \in Devices, Reload(d) \/ Load(d) \/ LoadFails(d) PROVE TypeOK'
  <2>1. /\ page[d] \in Page /\ page[d].cache \in {page[d].shown, Nothing}
        /\ lost \subseteq Fields /\ lost \union Waiting(d) \subseteq Fields
    BY WaitingTyped DEF TypeOK
  <2>2. CASE Reload(d)
    <3> DEFINE r == [pc |-> "loading",
                     shown |-> IF page[d].cache = Nothing THEN Defaults ELSE page[d].cache,
                     cache |-> page[d].cache, due |-> Nothing]
    <3>1. r \in Page /\ r.cache \in {r.shown, Nothing}
      BY <1>0, <2>1 DEF Page
    <3> QED
      BY <1>4, <2>1, <2>2, <3>1 DEF Reload
  <2>3. CASE Load(d)
    <3> DEFINE r == [pc |-> "open", shown |-> Stored, cache |-> Stored, due |-> Nothing]
    <3>1. r \in Page /\ r.cache \in {r.shown, Nothing}
      BY <1>0 DEF Page
    <3> QED
      BY <1>4, <2>1, <2>3, <3>1 DEF Load, Cached
  <2>4. CASE LoadFails(d)
    <3> DEFINE r == [page[d] EXCEPT !.pc = "open"]
    <3>1. r \in Page /\ r.cache \in {r.shown, Nothing}
      BY <2>1 DEF Page
    <3>2. page' = [page EXCEPT ![d] = r]
      BY <2>4 DEF LoadFails
    <3> QED
      BY <1>4, <2>1, <2>4, <3>1, <3>2 DEF LoadFails
  <2> QED
    BY <1>5, <2>2, <2>3, <2>4
<1>6. ASSUME NEW s \in Slots, Read(s) PROVE TypeOK'
  BY <1>0, <1>6 DEF Read, TypeOK, Save
<1>7. ASSUME NEW s \in Slots, Upsert(s) PROVE TypeOK'
  <2>1. row' \in Prefs
    BY <1>7 DEF Upsert, Merged, TypeOK, Save, Patch, Prefs
  <2> QED
    BY <1>7, <2>1 DEF Upsert, Settled, TypeOK, Save, Patch
<1>8. ASSUME NEW s \in Slots, SaveFails(s) PROVE TypeOK'
  BY <1>8 DEF SaveFails, Settled, TypeOK, Save, Patch
<1> QED
  BY <1>1, <1>2, <1>3, <1>5, <1>6, <1>7, <1>8 DEF Next

\* Whatever is chosen, sent, stored or lost, rows, pages and saves keep their types,
\* and a page shows what it has cached (prefs.js, preferences.ts).
THEOREM TypeCorrect == Spec => []TypeOK
BY InitTyped, TypeStep, PTL DEF Spec

-----------------------------------------------------------------------------
(* Saves.                                                                  *)

Typed == TypeOK /\ TypeOK'

\* A save in hand is some device's, and of some field.
LEMMA SaveTyped ==
  ASSUME TypeOK, NEW s \in Slots, saves[s] # Nothing
  PROVE  /\ saves[s] \in Save
         /\ saves[s].by \in Devices /\ saves[s].patch \in Patch
         /\ saves[s].patch.field \in Fields /\ saves[s].patch.value \in Values
         /\ saves[s].base # Nothing => saves[s].base \in Prefs
BY DEF TypeOK, Save, Patch

\* A field that waits where it did, is in hand where it was, and is stored as it was
\* is carried as before.
LEMMA StillCarried ==
  ASSUME Typed, NEW f, Carried(f),
         \A d \in Devices : (f \in Waiting(d)') <=> (f \in Waiting(d)),
         \A d \in Devices : f \in Waiting(d) => page'[d].due.value = page[d].due.value,
         \A s \in Slots : /\ IsFor(s, f)' <=> IsFor(s, f)
                          /\ IsFor(s, f) => /\ saves'[s].by = saves[s].by
                                            /\ saves'[s].patch = saves[s].patch,
         \A s \in Slots : saves'[s] # Nothing /\ saves'[s].base # Nothing =>
           \/ saves'[s].base[f] = Stored'[f]
           \/ saves[s] # Nothing /\ saves[s].base # Nothing /\ saves'[s].base = saves[s].base,
         wanted'[f] = wanted[f],
         Stored'[f] = Stored[f] \/ OnItsWay(f)
  PROVE  Carried(f)'
<1>1. \A d \in Devices : Saving(d, f)' <=> Saving(d, f)
  BY DEF Saving, IsFor
<1>2. \A d \in Devices : Pending(d, f)' <=> Pending(d, f)
  BY <1>1 DEF Pending
<1>3. OnItsWay(f)' <=> OnItsWay(f)
  BY <1>2 DEF OnItsWay
<1>4. \A d, e \in Devices : Pending(d, f)' /\ Pending(e, f)' => d = e
  BY <1>2 DEF Carried
<1>5. \A d \in Devices : f \in Waiting(d)' => page'[d].due.value = wanted'[f]
  BY DEF Carried
<1>6. Brings(f)'
  <2> SUFFICES ASSUME NEW s \in Slots, IsFor(s, f)', f \notin Waiting(saves[s].by)',
                      \A t \in Slots : IsFor(t, f)' => t = s
               PROVE  saves'[s].patch.value = wanted'[f]
    BY DEF Brings
  <2>1. IsFor(s, f) /\ saves'[s].by = saves[s].by /\ saves'[s].patch = saves[s].patch
    OBVIOUS
  <2>2. saves[s].by \in Devices
    BY <2>1, SaveTyped DEF IsFor, Typed
  <2>3. f \notin Waiting(saves[s].by)
    <3>1. \A d : d = saves'[s].by => f \notin Waiting(d)'
      BY DEF Waiting
    <3> QED
      BY <2>1, <2>2, <3>1
  <2> QED
    BY <2>1, <2>3 DEF Carried, Brings
<1>7. Current(f)'
  BY <1>3 DEF Carried, Current
<1>8. ~OnItsWay(f)' => Stored'[f] = wanted'[f]
  BY <1>3 DEF Carried
<1> QED
  BY <1>4, <1>5, <1>6, <1>7, <1>8 DEF Carried

\* While a device is about to send a choice for a field that no other device has one
\* for, the field is carried.
LEMMA CarriesNext ==
  ASSUME TypeOK', NEW f, NEW d \in Devices, f \in Waiting(d)',
         page'[d].due.value = wanted'[f],
         \A e \in Devices : Pending(e, f)' => e = d
  PROVE  Carried(f)'
<1>1. OnItsWay(f)'
  BY DEF OnItsWay, Pending
<1>2. \A e \in Devices : f \in Waiting(e)' => e = d
  BY DEF Pending
<1>3. \A s \in Slots : IsFor(s, f)' => saves'[s].by = d
  <2> SUFFICES ASSUME NEW s \in Slots, IsFor(s, f)'
               PROVE  saves'[s].by = d
    OBVIOUS
  <2>1. saves'[s].by \in Devices
    BY DEF TypeOK, Save, IsFor
  <2>2. PICK e \in Devices : saves'[s].by = e
    BY <2>1
  <2>3. Pending(e, f)'
    BY <2>2 DEF Pending, Saving, IsFor
  <2> QED
    BY <2>2, <2>3
<1> QED
  BY <1>1, <1>2, <1>3 DEF Carried, Brings, Current

LEMMA ChoiceStep ==
  ASSUME Typed, SaveInv, NEW d \in Devices, NEW f \in Fields, NEW v \in Values,
         SetPrefs(d, f, v)
  PROVE  SaveInv'
<1> DEFINE p == [field |-> f, value |-> v]
<1>1. /\ page[d].pc = "open" /\ UNCHANGED <<row, saves>>
      /\ wanted' = [wanted EXCEPT ![f] = v]
  BY DEF SetPrefs
<1>2. page'[d].pc = "open" /\ page'[d].due = p /\ \A e \in Devices \ {d} : page'[e] = page[e]
  BY DEF SetPrefs, Typed, TypeOK
<1>3. p \in Patch /\ p # Nothing /\ p.field = f /\ p.value = v
  BY Distinct DEF Patch
<1> HIDE DEF p
<1>4. Waiting(d)' = {f} /\ \A e \in Devices \ {d} : Waiting(e)' = Waiting(e)
  BY <1>2, <1>3 DEF Waiting
<1>5. \A s \in Slots : \A g : IsFor(s, g)' <=> IsFor(s, g)
  BY <1>1 DEF IsFor
<1>6. LoadsFirst'
  BY <1>2 DEF SaveInv, LoadsFirst
<1>7. ASSUME f \notin lost'
      PROVE  Carried(f)'
  <2>1. \A e \in Devices \ {d} : ~Pending(e, f)
    BY <1>7 DEF SetPrefs
  <2>2. \A e \in Devices \ {d} : ~Pending(e, f)'
    BY <1>1, <1>4, <2>1 DEF Pending, Saving
  <2>3. f \in Waiting(d)' /\ wanted'[f] = v /\ page'[d].due.value = v
    BY <1>1, <1>2, <1>3, <1>4 DEF Typed, TypeOK, Prefs
  <2>4. TypeOK' /\ \A e \in Devices : Pending(e, f)' => e = d
    BY <2>2 DEF Typed
  <2> HIDE DEF SaveInv
  <2> QED
    BY <2>3, <2>4, CarriesNext
<1>8. ASSUME NEW g \in Fields \ lost', g # f
      PROVE  Carried(g)'
  <2>1. g \notin lost /\ g \notin Waiting(d)
    BY <1>8 DEF SetPrefs
  <2>2. Carried(g)
    BY <2>1 DEF SaveInv
  <2>3. \A e \in Devices : /\ (g \in Waiting(e)') <=> (g \in Waiting(e))
                           /\ g \in Waiting(e) => page'[e].due.value = page[e].due.value
    BY <1>2, <1>4, <1>8, <2>1
  <2>4. wanted'[g] = wanted[g] /\ Stored'[g] = Stored[g]
    BY <1>1, <1>8 DEF Typed, TypeOK, Prefs, Stored
  <2> QED
    BY <1>1, <1>5, <2>2, <2>3, <2>4, StillCarried
<1> QED
  BY <1>6, <1>7, <1>8 DEF SaveInv

LEMMA SendStep ==
  ASSUME Typed, SaveInv, NEW d \in Devices, NEW s \in Slots, Send(d, s)
  PROVE  SaveInv'
<1> DEFINE p == page[d].due
           r == [by |-> d, patch |-> p, base |-> Nothing]
<1>1. /\ UNCHANGED <<row, wanted, lost>> /\ saves[s] = Nothing
      /\ saves' = [saves EXCEPT ![s] = r]
      /\ page' = [page EXCEPT ![d] = [page[d] EXCEPT !.due = Nothing]]
  BY DEF Send
<1>2. p \in Patch /\ Waiting(d) = {p.field}
  BY WaitingTyped DEF Send, Typed
<1>3. r \in Save /\ r # Nothing /\ r.by = d /\ r.patch = p /\ r.base = Nothing
  BY <1>2, Distinct DEF Save
<1>4. /\ saves'[s] = r /\ \A t \in Slots \ {s} : saves'[t] = saves[t]
      /\ page'[d].due = Nothing /\ page'[d].pc = page[d].pc
      /\ \A e \in Devices \ {d} : page'[e] = page[e]
  BY <1>1 DEF Typed, TypeOK, Page
<1> HIDE DEF r, p
<1>5. Waiting(d)' = {} /\ \A e \in Devices \ {d} : Waiting(e)' = Waiting(e)
  BY <1>4 DEF Waiting
<1>6. \A g : /\ IsFor(s, g)' <=> g = p.field
             /\ ~IsFor(s, g)
             /\ \A t \in Slots \ {s} : IsFor(t, g)' <=> IsFor(t, g)
  BY <1>1, <1>3, <1>4 DEF IsFor
<1>7. LoadsFirst'
  BY <1>4 DEF SaveInv, LoadsFirst
<1>8. ASSUME NEW g \in Fields \ lost'
      PROVE  Carried(g)'
  <2>1. Carried(g) /\ wanted'[g] = wanted[g] /\ Stored'[g] = Stored[g]
    BY <1>1 DEF SaveInv, Stored
  <2>2. CASE g # p.field
    <3>1. \A e \in Devices : /\ (g \in Waiting(e)') <=> (g \in Waiting(e))
                             /\ g \in Waiting(e) => page'[e].due.value = page[e].due.value
      BY <1>2, <1>4, <1>5, <2>2
    <3>2. \A t \in Slots : /\ IsFor(t, g)' <=> IsFor(t, g)
                           /\ IsFor(t, g) => saves'[t] = saves[t]
      BY <1>4, <1>6, <2>2
    <3>3. \A t \in Slots : saves'[t] # Nothing /\ saves'[t].base # Nothing => saves'[t] = saves[t]
      BY <1>3, <1>4
    <3> QED
      BY <2>1, <3>1, <3>2, <3>3, StillCarried
  <2>3. CASE g = p.field
    <3>1. \A e \in Devices : Pending(e, g) => e = d
      BY <1>2, <2>1, <2>3 DEF Carried, Pending
    <3>2. \A e \in Devices \ {d} : ~Pending(e, g)'
      <4> SUFFICES ASSUME NEW e \in Devices \ {d}, Pending(e, g)'
                   PROVE  FALSE
        OBVIOUS
      <4>1. g \notin Waiting(e)'
        BY <1>5, <3>1 DEF Pending
      <4>2. PICK t \in Slots : saves'[t] # Nothing /\ saves'[t].by = e /\ saves'[t].patch.field = g
        BY <4>1 DEF Pending, Saving
      <4>3. t # s
        BY <1>3, <1>4, <4>2
      <4> QED
        BY <1>4, <3>1, <4>2, <4>3 DEF Pending, Saving
    <3>3. \A e \in Devices : g \notin Waiting(e)'
      BY <1>5, <3>2 DEF Pending
    <3>4. OnItsWay(g)'
      <4>1. Saving(d, g)'
        BY <1>3, <1>4, <2>3 DEF Saving
      <4> QED
        BY <4>1 DEF OnItsWay, Pending
    <3>5. p.value = wanted[g]
      BY <1>2, <2>1, <2>3 DEF Carried, p
    <3>6. Brings(g)'
      BY <1>3, <1>4, <1>6, <2>1, <2>3, <3>5 DEF Brings
    <3> QED
      BY <3>2, <3>3, <3>4, <3>6 DEF Carried, Current
  <2> QED
    BY <2>2, <2>3
<1> QED
  BY <1>7, <1>8 DEF SaveInv

\* A page that is loaded again, or gets its answer, or not.
LEMMA PageSteps ==
  ASSUME Typed, SaveInv, NEW d \in Devices, Reload(d) \/ Load(d) \/ LoadFails(d)
  PROVE  SaveInv'
<1>1. /\ UNCHANGED <<row, saves, wanted>> /\ lost \subseteq lost'
      /\ \E r : page' = [page EXCEPT ![d] = r]
  BY DEF Reload, Load, LoadFails
<1>2. \A e \in Devices \ {d} : page'[e] = page[e] /\ Waiting(e)' = Waiting(e)
  BY <1>1 DEF Waiting, Typed, TypeOK
<1>3. page'[d].due = Nothing /\ Waiting(d)' = {}
  BY DEF Reload, Load, LoadFails, SaveInv, LoadsFirst, Typed, TypeOK, Page, Waiting
<1>4. LoadsFirst'
  BY <1>2, <1>3 DEF SaveInv, LoadsFirst
<1>5. ASSUME NEW g \in Fields \ lost'
      PROVE  Carried(g)'
  <2>1. Carried(g) /\ wanted'[g] = wanted[g] /\ Stored'[g] = Stored[g]
    BY <1>1 DEF SaveInv, Stored
  <2>2. g \notin Waiting(d)
    <3>1. CASE Reload(d)
      BY <1>5, <3>1 DEF Reload
    <3>2. CASE Load(d) \/ LoadFails(d)
      BY <3>2 DEF Load, LoadFails, SaveInv, LoadsFirst, Waiting
    <3> QED
      BY <3>1, <3>2
  <2>3. \A e \in Devices : /\ (g \in Waiting(e)') <=> (g \in Waiting(e))
                           /\ g \in Waiting(e) => page'[e].due.value = page[e].due.value
    BY <1>2, <1>3, <2>2
  <2>4. \A s \in Slots : (IsFor(s, g)' <=> IsFor(s, g)) /\ saves'[s] = saves[s]
    BY <1>1 DEF IsFor
  <2> QED
    BY <2>1, <2>3, <2>4, StillCarried
<1> QED
  BY <1>4, <1>5 DEF SaveInv

LEMMA ReadStep ==
  ASSUME Typed, SaveInv, NEW s \in Slots, Read(s)
  PROVE  SaveInv'
<1>1. /\ UNCHANGED <<row, page, wanted, lost>> /\ saves[s] # Nothing
      /\ saves' = [saves EXCEPT ![s] = [saves[s] EXCEPT !.base = Stored]]
  BY DEF Read
<1>2. saves[s] \in Save /\ Stored \in Prefs
  BY <1>1, StoredTyped DEF Typed, TypeOK
<1>3. /\ saves'[s].patch = saves[s].patch /\ saves'[s].by = saves[s].by
      /\ saves'[s].base = Stored /\ saves'[s] \in Save
      /\ \A t \in Slots \ {s} : saves'[t] = saves[t]
  BY <1>1, <1>2 DEF Typed, TypeOK, Save
<1>4. saves'[s] # Nothing
  BY <1>3, Distinct
<1>5. LoadsFirst'
  BY <1>1 DEF SaveInv, LoadsFirst
<1>6. ASSUME NEW g \in Fields \ lost'
      PROVE  Carried(g)'
  <2>1. Carried(g) /\ wanted'[g] = wanted[g] /\ Stored' = Stored
    BY <1>1 DEF SaveInv, Stored
  <2>2. \A e \in Devices : Waiting(e)' = Waiting(e) /\ page'[e] = page[e]
    BY <1>1 DEF Waiting
  <2>3. \A t \in Slots : /\ IsFor(t, g)' <=> IsFor(t, g)
                         /\ saves[t] # Nothing => /\ saves'[t].by = saves[t].by
                                                  /\ saves'[t].patch = saves[t].patch
    BY <1>1, <1>3, <1>4 DEF IsFor
  <2>4. \A t \in Slots : saves'[t] = saves[t] \/ saves'[t].base = Stored'
    BY <1>3, <2>1
  <2> QED
    BY <2>1, <2>2, <2>3, <2>4, StillCarried DEF IsFor
<1> QED
  BY <1>5, <1>6 DEF SaveInv

\* A save that leaves, with another choice for its field to come from its device or
\* none that was to be stored.
LEMMA LeaveOther ==
  ASSUME Typed, NEW s \in Slots, saves[s] # Nothing, UNCHANGED <<page, wanted>>,
         saves' = [saves EXCEPT ![s] = Nothing],
         NEW g, Carried(g),
         \/ saves[s].patch.field # g /\ (Stored'[g] = Stored[g] \/ OnItsWay(g))
         \/ g \in Waiting(saves[s].by)
  PROVE  Carried(g)'
<1>1. /\ saves'[s] = Nothing /\ \A t \in Slots \ {s} : saves'[t] = saves[t]
      /\ \A e \in Devices : Waiting(e)' = Waiting(e) /\ page'[e] = page[e]
  BY DEF Waiting, Typed, TypeOK
<1>2. CASE saves[s].patch.field # g /\ (Stored'[g] = Stored[g] \/ OnItsWay(g))
  <2>1. \A t \in Slots : /\ IsFor(t, g)' <=> IsFor(t, g)
                         /\ IsFor(t, g) => saves'[t] = saves[t]
    BY <1>1, <1>2 DEF IsFor
  <2>2. \A t \in Slots : saves'[t] # Nothing => saves'[t] = saves[t]
    BY <1>1
  <2> QED
    BY <1>1, <1>2, <2>1, <2>2, StillCarried
<1>3. CASE g \in Waiting(saves[s].by)
  <2>1. PICK d \in Devices : d = saves[s].by
    BY SaveTyped DEF Typed
  <2>2. g \in Waiting(d)' /\ page'[d].due.value = wanted'[g]
    BY <1>1, <1>3, <2>1 DEF Carried
  <2>3. \A e \in Devices : Pending(e, g)' => Pending(e, g)
    BY <1>1 DEF Pending, Saving
  <2>4. TypeOK' /\ \A e \in Devices : Pending(e, g)' => e = d
    BY <1>3, <2>1, <2>3 DEF Carried, Pending, Typed
  <2> QED
    BY <2>2, <2>4, CarriesNext
<1> QED
  BY <1>2, <1>3

\* What a save writes back of other fields is what is stored, or another choice is
\* still to come; and what it writes of its own stays, unless another undoes it.
LEMMA UpsertStep ==
  ASSUME Typed, SaveInv, NEW s \in Slots, Upsert(s)
  PROVE  SaveInv'
<1>0. PICK f, d : f = saves[s].patch.field /\ d = saves[s].by
  OBVIOUS
<1>1. /\ UNCHANGED <<page, wanted>> /\ saves[s] # Nothing /\ saves[s].base # Nothing
      /\ saves' = [saves EXCEPT ![s] = Nothing] /\ lost \subseteq lost'
      /\ row' = [saves[s].base EXCEPT ![f] = saves[s].patch.value]
  BY <1>0 DEF Upsert, Merged
<1>2. f \in Fields /\ d \in Devices /\ saves[s].patch.value \in Values /\ saves[s].base \in Prefs
  BY <1>0, <1>1, SaveTyped DEF Typed
<1>3. /\ saves'[s] = Nothing /\ \A t \in Slots \ {s} : saves'[t] = saves[t]
      /\ \A e \in Devices : Waiting(e)' = Waiting(e) /\ page'[e] = page[e]
  BY <1>1 DEF Waiting, Typed, TypeOK
<1>4. LoadsFirst'
  BY <1>1 DEF SaveInv, LoadsFirst
<1>5. /\ Stored'[f] = saves[s].patch.value
      /\ \A g \in Fields \ {f} : Stored'[g] = saves[s].base[g]
  <2>1. row' \in Prefs
    BY <1>1, <1>2 DEF Prefs
  <2>2. Stored' = row'
    BY <2>1, Distinct DEF Stored
  <2> QED
    BY <1>1, <1>2, <2>2 DEF Prefs
<1>6. ASSUME NEW g \in Fields \ lost'
      PROVE  Carried(g)'
  <2>1. Carried(g) /\ wanted'[g] = wanted[g]
    BY <1>1 DEF SaveInv
  <2>2. CASE g # f
    <3>1. Stored'[g] = Stored[g] \/ OnItsWay(g)
      BY <1>1, <1>5, <2>1, <2>2 DEF Carried, Current
    <3> QED
      BY <1>0, <1>1, <2>1, <2>2, <3>1, LeaveOther
  <2>3. CASE g \in Waiting(d)
    BY <1>0, <1>1, <2>1, <2>3, LeaveOther
  <2>4. CASE g = f /\ f \notin Waiting(d)
    <3>1. \A t \in Slots : ~WillUndo(t, s)
      BY <1>0, <1>6, <2>4 DEF Upsert, Settled
    <3>2. \A t \in Slots \ {s} : saves[t] # Nothing => saves[t].base = Nothing /\ ~IsFor(t, f)
      BY <1>0, <3>1 DEF WillUndo, IsFor
    <3>3. saves[s].patch.value = wanted[f]
      BY <1>0, <1>1, <2>1, <2>4, <3>2 DEF Carried, Brings, IsFor
    <3>4. Pending(d, f)
      BY <1>0, <1>1 DEF Pending, Saving
    <3>5. \A e \in Devices : f \notin Waiting(e)
      BY <1>2, <2>1, <2>4, <3>4 DEF Carried, Pending
    <3>6. \A t \in Slots : ~IsFor(t, f)'
      BY <1>3, <3>2 DEF IsFor
    <3>7. ~OnItsWay(f)'
      BY <1>3, <3>5, <3>6 DEF OnItsWay, Pending, Saving, IsFor
    <3>8. Current(f)'
      BY <1>3, <3>2 DEF Current
    <3>9. \A e \in Devices : ~Pending(e, f)'
      BY <3>7 DEF OnItsWay
    <3>10. \A e \in Devices : f \notin Waiting(e)'
      BY <1>3, <3>5
    <3>11. Stored'[f] = wanted'[f] /\ Brings(f)'
      BY <1>5, <2>1, <2>4, <3>3, <3>6 DEF Brings
    <3> QED
      BY <2>4, <3>8, <3>9, <3>10, <3>11 DEF Carried
  <2> QED
    BY <2>2, <2>3, <2>4
<1> QED
  BY <1>4, <1>6 DEF SaveInv

LEMMA FailStep ==
  ASSUME Typed, SaveInv, NEW s \in Slots, SaveFails(s)
  PROVE  SaveInv'
<1>1. /\ UNCHANGED <<row, page, wanted>> /\ saves[s] # Nothing
      /\ saves' = [saves EXCEPT ![s] = Nothing]
      /\ lost' = lost \union Settled(s)
  BY DEF SaveFails
<1>2. LoadsFirst'
  BY <1>1 DEF SaveInv, LoadsFirst
<1>3. ASSUME NEW g \in Fields \ lost'
      PROVE  Carried(g)'
  <2>1. Carried(g) /\ Stored'[g] = Stored[g]
    BY <1>1 DEF SaveInv, Stored
  <2>2. g # saves[s].patch.field \/ g \in Waiting(saves[s].by)
    BY <1>1, <1>3 DEF Settled
  <2> QED
    BY <1>1, <2>1, <2>2, LeaveOther
<1> QED
  BY <1>2, <1>3 DEF SaveInv

LEMMA SaveInit == Init => SaveInv
<1> SUFFICES ASSUME Init PROVE SaveInv
  OBVIOUS
<1>1. /\ \A d \in Devices : page[d].due = Nothing
      /\ \A s \in Slots : saves[s] = Nothing
  BY DEF Init
<1>2. Stored = wanted
  BY DEF Init, Stored
<1> QED
  BY <1>1, <1>2 DEF SaveInv, LoadsFirst, Carried, Brings, Current, Pending, Waiting, Saving,
                    IsFor

LEMMA SaveNext == TypeOK /\ TypeOK' /\ SaveInv /\ [Next]_vars => SaveInv'
<1> SUFFICES ASSUME Typed, SaveInv, [Next]_vars PROVE SaveInv'
  BY DEF Typed
<1>1. CASE UNCHANGED vars
  BY <1>1 DEF vars, SaveInv, LoadsFirst, Carried, Brings, Current, OnItsWay, Pending,
              Waiting, Saving, IsFor, Stored
<1>2. CASE \E d \in Devices : \E f \in Fields, v \in Values : SetPrefs(d, f, v)
  BY <1>2, ChoiceStep
<1>3. CASE \E d \in Devices : \E s \in Slots : Send(d, s)
  BY <1>3, SendStep
<1>4. CASE \E d \in Devices : Reload(d) \/ Load(d) \/ LoadFails(d)
  BY <1>4, PageSteps
<1>5. CASE \E s \in Slots : Read(s)
  BY <1>5, ReadStep
<1>6. CASE \E s \in Slots : Upsert(s)
  BY <1>6, UpsertStep
<1>7. CASE \E s \in Slots : SaveFails(s)
  BY <1>7, FailStep
<1> QED
  BY <1>1, <1>2, <1>3, <1>4, <1>5, <1>6, <1>7 DEF Next

\* However the saves of any number of devices are interleaved, a setting is stored as
\* it was chosen last, unless the choice was given up on the way, two devices chose
\* at once, or a save that had read the row before, or was for the same field, was in
\* hand when the choice was written (setPrefs, handleUpdatePreferences).
THEOREM ChoicesStored == Spec => []LastChoiceStored
<1>1. TypeOK /\ SaveInv => LastChoiceStored
  <2> SUFFICES ASSUME TypeOK, SaveInv, Quiet, NEW f \in Fields \ lost
               PROVE  Stored[f] = wanted[f]
    BY DEF LastChoiceStored
  <2>1. \A d \in Devices : ~Pending(d, f)
    BY WaitingTyped DEF Quiet, Pending, Saving
  <2> QED
    BY <2>1 DEF SaveInv, Carried, OnItsWay
<1> QED
  BY <1>1, SaveInit, SaveNext, TypeCorrect, PTL DEF Spec
=============================================================================
