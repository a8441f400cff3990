---------------------------- MODULE Preferences ----------------------------
(***************************************************************************)
(* The appearance settings of one account on several devices: each shows   *)
(* its own copy, caches it, and sends what was changed to the worker after *)
(* a pause in the changes; the worker merges it into the one row there is. *)
(***************************************************************************)
CONSTANTS
  Fields,   \* "theme", "density", "shape", "accent"
  Values,   \* the allowed values of a field
  Default,  \* its default
  Devices,
  Nothing,  \* no row, no cache, no change waiting
  Slots     \* what the worker can have in hand at a time: a save in each

Prefs == [Fields -> Values]
Patch == [field: Fields, value: Values]
Save == [by: Devices, patch: Patch, base: Prefs \union {Nothing}]

ASSUME PreferencesAssumption ==
  /\ Default \in Values
  /\ Nothing \notin Prefs \union Patch \union Save

Defaults == [f \in Fields |-> Default]

VARIABLES
  row,     \* user_preferences: the account's row
  page,    \* prefs.js on each device
  saves,   \* the saves the worker has in hand
  wanted,  \* history: the last choice made for each field, on whatever device
  lost     \* history: the fields whose last choice was given up on the way, made
           \* on one device while that of another was on its way, or written
           \* while a save was in hand that will undo it

vars == <<row, page, saves, wanted, lost>>

Page == [pc: {"loading", "open"},
         shown: Prefs,                     \* current
         cache: Prefs \union {Nothing},    \* localStorage
         due: Patch \union {Nothing}]      \* what saveTimer will send

\* The types; and the page shows what it has cached once there is a cache.
TypeOK ==
  /\ row \in Prefs \union {Nothing}
  /\ page \in [Devices -> Page]
  /\ \A d \in Devices : page[d].cache \in {page[d].shown, Nothing}
  /\ saves \in [Slots -> Save \union {Nothing}]
  /\ wanted \in Prefs
  /\ lost \subseteq Fields

-----------------------------------------------------------------------------
(* The page.                                                               *)

\* The field whose change waits to be sent, if any.
Waiting(d) == {f \in Fields : page[d].due # Nothing /\ page[d].due.field = f}

\* A choice for the field that has not reached the row yet.
Saving(d, f) ==
  \E s \in Slots : saves[s] # Nothing /\ saves[s].by = d /\ saves[s].patch.field = f
Pending(d, f) == f \in Waiting(d) \/ Saving(d, f)

Stored == IF row = Nothing THEN Defaults ELSE row

\* A change shows at once, is cached, and takes the place of the one that waits to
\* be sent: if that was to another field, it is never sent.
SetPrefs(d, f, v) ==
  LET next == [page[d].shown EXCEPT ![f] = v] IN
  /\ page[d].pc = "open"
  /\ page' = [page EXCEPT ![d] = [pc |-> "open", shown |-> next, cache |-> next,
                                  due |-> [field |-> f, value |-> v]]]
  /\ wanted' = [wanted EXCEPT ![f] = v]
  /\ lost' = IF \E e \in Devices \ {d} : Pending(e, f)
             THEN lost \union Waiting(d) \union {f}
             ELSE (lost \union Waiting(d)) \ {f}
  /\ UNCHANGED <<row, saves>>

\* 350 ms after the last change, whether or not an earlier one has been answered.
Send(d, s) ==
  /\ page[d].due # Nothing
  /\ saves[s] = Nothing
  /\ saves' = [saves EXCEPT ![s] = [by |-> d, patch |-> page[d].due, base |-> Nothing]]
  /\ page' = [page EXCEPT ![d].due = Nothing]
  /\ UNCHANGED <<row, wanted, lost>>

\* The page is loaded again, which shows what is cached and forgets what was still
\* to be sent.
Reload(d) ==
  /\ page' = [page EXCEPT ![d] =
       [pc |-> "loading",
        shown |-> IF page[d].cache = Nothing THEN Defaults ELSE page[d].cache,
        cache |-> page[d].cache, due |-> Nothing]]
  /\ lost' = lost \union Waiting(d)
  /\ UNCHANGED <<row, saves, wanted>>

\* The worker's answer is shown and cached; without one the page goes on with what
\* it has.  Mutant: the answer is shown but not cached.
ShownOnly(d) == page[d].cache
Cached(d) == Stored

Load(d) ==
  /\ page[d].pc = "loading"
  /\ page' = [page EXCEPT ![d] = [pc |-> "open", shown |-> Stored, cache |-> Cached(d),
                                  due |-> Nothing]]
  /\ UNCHANGED <<row, saves, wanted, lost>>

LoadFails(d) ==
  /\ page[d].pc = "loading"
  /\ page' = [page EXCEPT ![d].pc = "open"]
  /\ UNCHANGED <<row, saves, wanted, lost>>

-----------------------------------------------------------------------------
(* The worker.                                                             *)

\* handleUpdatePreferences reads the row,
Read(s) ==
  /\ saves[s] # Nothing /\ saves[s].base = Nothing
  /\ saves' = [saves EXCEPT ![s].base = Stored]
  /\ UNCHANGED <<row, page, wanted, lost>>

\* and writes it back with the fields of the patch replaced.  Mutant: what is not
\* in the patch gets its default.
OverDefaults(s) == [Defaults EXCEPT ![saves[s].patch.field] = saves[s].patch.value]
Merged(s) == [saves[s].base EXCEPT ![saves[s].patch.field] = saves[s].patch.value]

\* The field of a save, unless its device is about to send another choice for it.
Settled(s) == {saves[s].patch.field} \ Waiting(saves[s].by)

\* A save in hand that will write over what this one writes: it has read the row
\* before, or is for the same field.
WillUndo(t, s) ==
  /\ t # s /\ saves[t] # Nothing
  /\ saves[t].base # Nothing \/ saves[t].patch.field = saves[s].patch.field

Upsert(s) ==
  /\ saves[s] # Nothing /\ saves[s].base # Nothing
  /\ row' = Merged(s)
  /\ saves' = [saves EXCEPT ![s] = Nothing]
  /\ lost' = IF \E t \in Slots : WillUndo(t, s) THEN lost \union Settled(s) ELSE lost
  /\ UNCHANGED <<page, wanted>>

\* A save that never arrives, or is refused: the page says so on the console.
SaveFails(s) ==
  /\ saves[s] # Nothing
  /\ saves' = [saves EXCEPT ![s] = Nothing]
  /\ lost' = lost \union Settled(s)
  /\ UNCHANGED <<row, page, wanted>>

-----------------------------------------------------------------------------

Init ==
  /\ row = Nothing
  /\ page = [d \in Devices |-> [pc |-> "loading", shown |-> Defaults,
                                cache |-> Nothing, due |-> Nothing]]
  /\ saves = [s \in Slots |-> Nothing]
  /\ wanted = Defaults
  /\ lost = {}

Next ==
  \/ \E d \in Devices :
       \/ \E f \in Fields, v \in Values : SetPrefs(d, f, v)
       \/ \E s \in Slots : Send(d, s)
       \/ Reload(d) \/ Load(d) \/ LoadFails(d)
  \/ \E s \in Slots : Read(s) \/ Upsert(s) \/ SaveFails(s)

Spec == Init /\ [][Next]_vars

-----------------------------------------------------------------------------
(* Properties.                                                             *)

\* Once nothing is on its way, the row holds the last choice made for each field on
\* any device, however saves are interleaved, except where the debounce, a reload or
\* a failure gave it up, two devices chose at once, or another save was in hand when
\* it was written, for the same field or with the row as it was before.
Quiet ==
  /\ \A d \in Devices : page[d].due = Nothing
  /\ \A s \in Slots : saves[s] = Nothing

LastChoiceStored == Quiet => \A f \in Fields \ lost : Stored[f] = wanted[f]
=============================================================================
