------------------------------ MODULE AuditLog ------------------------------
(***************************************************************************)
(* The audit log: events that handlers record without waiting for them,    *)
(* the nightly sweep of old rows, and the activity list of the settings    *)
(* page, which reads an account's rows page by page, newest first, while   *)
(* rows arrive and go.                                                     *)
(*                                                                         *)
(* An event is stamped when it is recorded and inserted later, so rows may *)
(* arrive out of order, and two may carry the same stamp.  The clock is as *)
(* coarse as the bounds want it: what matters is which stamps are equal,   *)
(* and how many units ago the oldest row that is kept may be.              *)
(***************************************************************************)
EXTENDS Integers, FiniteSets

CONSTANTS
  Users,      \* accounts
  Nobody,     \* the NULL of audit_logs.user_id
  None,       \* no cursor
  Retention,  \* AUDIT_RETENTION_DAYS, in units of the clock
  Batch,      \* PRUNE_BATCH
  Page,       \* PAGE_SIZE, the limit the settings page asks for
  Late,       \* how long after the response a registered write may still run
  MaxTime,    \* bound: the last instant
  MaxEvents   \* bound: how many events are recorded

ASSUME AuditLogAssumption ==
  /\ Nobody \notin Users
  /\ None \notin Nat
  /\ Retention \in Nat /\ Late \in Nat /\ Late <= Retention
  /\ Batch \in Nat \ {0} /\ Page \in Nat \ {0}
  /\ MaxTime \in Nat /\ MaxEvents \in Nat

VARIABLES
  now,       \* the clock
  recorded,  \* how many events were recorded so far
  accounts,  \* users: the accounts that exist
  flying,    \* events handed to waitUntil and not inserted yet
  log,       \* audit_logs
  panel      \* the activity list of each user

vars == <<now, recorded, accounts, flying, log, panel>>

Event == [id: 1..MaxEvents, who: Users \union {Nobody}, at: 0..MaxTime,
          mapped: BOOLEAN]  \* ACTIVITY_LABELS has a label for its action

Panel == [pc: {"closed", "asked", "open", "failed"},
          cursor: 0..MaxTime \union {None},  \* nextBefore of the last page
          shown: SUBSET Event,               \* the rows of the list
          edges: SUBSET (0..MaxTime),        \* history: the cursors so far
          base: SUBSET Event]                \* history: the rows there were when
                                             \* the first page was read

Closed == [pc |-> "closed", cursor |-> None, shown |-> {}, edges |-> {}, base |-> {}]

\* The types; and a row names an account that exists, or none.
TypeOK ==
  /\ now \in 0..MaxTime
  /\ recorded \in 0..MaxEvents
  /\ accounts \subseteq Users
  /\ flying \subseteq Event
  /\ log \subseteq Event
  /\ \A r \in log : r.who \in accounts \union {Nobody}
  /\ panel \in [Users -> Panel]

-----------------------------------------------------------------------------
(* Recording.                                                              *)

\* The actions of an event: with a label or without; no list shows Nobody's.
Labels(u) == IF u = Nobody THEN {FALSE} ELSE BOOLEAN

\* logAudit stamps an event of any action and hands the insert to waitUntil; the
\* handler goes on.
LogEvent(u) ==
  /\ recorded < MaxEvents
  /\ recorded' = recorded + 1
  /\ \E mapped \in Labels(u) :
       flying' = flying \union {[id |-> recorded + 1, who |-> u, at |-> now,
                                 mapped |-> mapped]}
  /\ UNCHANGED <<now, accounts, log, panel>>

\* A row that names an account which is gone breaks the foreign key, and the
\* error is swallowed.  Mutant: no foreign key.
AnyRow(r) == TRUE
Insertable(r) == r.who \in accounts \union {Nobody}

Land(r) ==
  /\ flying' = flying \ {r}
  /\ log' = IF Insertable(r) THEN log \union {r} ELSE log
  /\ UNCHANGED <<now, recorded, accounts, panel>>

\* The insert fails, and the error is swallowed.
Lose(r) ==
  /\ flying' = flying \ {r}
  /\ UNCHANGED <<now, recorded, accounts, log, panel>>

\* Time passes; the runtime does not let a registered write linger.
Tick ==
  /\ now < MaxTime
  /\ \A r \in flying : now - r.at < Late
  /\ now' = now + 1
  /\ UNCHANGED <<recorded, accounts, flying, log, panel>>

-----------------------------------------------------------------------------
(* Sweeping.                                                               *)

\* ORDER BY timestamp [DESC] LIMIT n: among rows of one timestamp, any.
Newest(rows, n) ==
  {top \in SUBSET rows :
     /\ Cardinality(top) <= n
     /\ top = rows \/ Cardinality(top) = n
     /\ \A r \in top, s \in rows \ top : s.at <= r.at}
Oldest(rows, n) ==
  {top \in SUBSET rows :
     /\ Cardinality(top) <= n
     /\ top = rows \/ Cardinality(top) = n
     /\ \A r \in top, s \in rows \ top : r.at <= s.at}

Expired(rows) == {r \in rows : r.at < now - Retention}

\* What one sweep deletes.  Mutant: the batch is taken from the wrong end of the
\* table, and what it holds of old rows is deleted.
ExpiredOfNewest == {Expired(batch) : batch \in Newest(log, Batch)}
Swept == Oldest(Expired(log), Batch)

\* The cron trigger.
Prune ==
  /\ \E batch \in Swept \ {{}} : log' = log \ batch
  /\ UNCHANGED <<now, recorded, accounts, flying, panel>>

-----------------------------------------------------------------------------
(* Reading.                                                                *)

\* The settings page is opened and asks for its first page.
OpenPanel(u) ==
  /\ u \in accounts /\ panel[u].pc = "closed"
  /\ panel' = [panel EXCEPT ![u] = [Closed EXCEPT !.pc = "asked"]]
  /\ UNCHANGED <<now, recorded, accounts, flying, log>>

\* The rows a page is taken from: strictly before the cursor.
Own(u) == {r \in log : r.who = u}
Before(u) == {r \in Own(u) : panel[u].cursor = None \/ r.at < panel[u].cursor}

\* nextBefore: the last timestamp of a full page; none after a short one.
\* Mutant: full is taken for over-full.
Last(rows) == {t \in {r.at : r \in rows} : \A r \in rows : t <= r.at}
NextOfRest(rows) == IF Cardinality(rows) > Page THEN Last(rows) ELSE {None}
NextBefore(rows) == IF Cardinality(rows) = Page THEN Last(rows) ELSE {None}

\* appendEvents: an event whose action has no label is skipped.
Labelled(rows) == {r \in rows : r.mapped}

ReadPage(u) ==
  /\ panel[u].pc = "asked"
  /\ \E rows \in Newest(Before(u), Page) : \E next \in NextBefore(rows) :
       panel' = [panel EXCEPT ![u] =
         [pc |-> "open",
          cursor |-> next,
          shown |-> panel[u].shown \union Labelled(rows),
          edges |-> panel[u].edges \union ({next} \ {None}),
          base |-> IF panel[u].cursor = None THEN Own(u) ELSE panel[u].base]]
  /\ UNCHANGED <<now, recorded, accounts, flying, log>>

\* "Show more": the button is there while there is a cursor, and disabled while
\* a page is on its way.
MorePages(u) ==
  /\ panel[u].pc = "open" /\ panel[u].cursor # None
  /\ panel' = [panel EXCEPT ![u].pc = "asked"]
  /\ UNCHANGED <<now, recorded, accounts, flying, log>>

\* A page that cannot be read: the list says so, and the button goes.
FailPage(u) ==
  /\ panel[u].pc = "asked"
  /\ panel' = [panel EXCEPT ![u].pc = "failed"]
  /\ UNCHANGED <<now, recorded, accounts, flying, log>>

\* Another page of the app, or a sign-out.
ClosePanel(u) ==
  /\ panel[u].pc # "closed"
  /\ panel' = [panel EXCEPT ![u] = Closed]
  /\ UNCHANGED <<now, recorded, accounts, flying, log>>

\* The rows of a deleted account stay, without its name.
DeleteAccount(u) ==
  /\ u \in accounts
  /\ accounts' = accounts \ {u}
  /\ log' = {IF r.who = u THEN [r EXCEPT !.who = Nobody] ELSE r : r \in log}
  /\ panel' = [panel EXCEPT ![u] = Closed]
  /\ UNCHANGED <<now, recorded, flying>>

-----------------------------------------------------------------------------

Init ==
  /\ now = 0 /\ recorded = 0
  /\ accounts = Users
  /\ flying = {} /\ log = {}
  /\ panel = [u \in Users |-> Closed]

Next ==
  \/ \E u \in accounts \union {Nobody} : LogEvent(u)
  \/ \E r \in flying : Land(r) \/ Lose(r)
  \/ Tick \/ Prune
  \/ \E u \in Users :
       \/ OpenPanel(u) \/ ReadPage(u) \/ MorePages(u)
       \/ FailPage(u) \/ ClosePanel(u) \/ DeleteAccount(u)

Spec == Init /\ [][Next]_vars

\* The cron trigger fires every night.
FairSpec == Spec /\ WF_vars(Prune)

-----------------------------------------------------------------------------
(* Properties.                                                             *)

\* A list that says it has reached its end leaves out no event of the retention
\* period that was there when it was opened and has a label, whatever arrived or was
\* swept between its pages, except one with the very timestamp at which a page ended:
\* the cursor is a timestamp, and passes over what shares it.  Events without a label
\* are never listed, and a list without rows says that there are none (settings.js).
Complete(p) ==
  \A r \in p.base :
    r.mapped /\ r.at >= now - Retention => r \in p.shown \/ r.at \in p.edges

ListsAll ==
  \A u \in Users : panel[u].pc = "open" /\ panel[u].cursor = None => Complete(panel[u])

\* Each page continues strictly below the last, so that the list reads newest
\* first from end to end, though rows with an earlier stamp than those already
\* listed may be inserted between two pages.
PagesDescend ==
  [][\A u \in Users :
       panel[u].pc = "asked" /\ panel'[u].pc = "open" =>
         \A r \in panel'[u].shown \ panel[u].shown, s \in panel[u].shown :
           r.at < s.at]_vars

\* The backlog drains over successive runs (auditLog.ts:68-69): every row past the
\* retention period is deleted in the end, however many there are, whatever keeps
\* arriving and however late it was inserted.
BacklogDrains ==
  \A i \in 1..MaxEvents :
    (\E r \in log : r.id = i /\ r \in Expired(log)) ~> ~(\E r \in log : r.id = i)
=============================================================================
