--------------------------- MODULE AuditLogProofs ---------------------------
(***************************************************************************)
(* Theorems about AuditLog, for any users, page and batch sizes, retention *)
(* and bounds: a list that says it is complete is, and it is in order.     *)
(***************************************************************************)
EXTENDS AuditLog, TLAPS

-----------------------------------------------------------------------------
(* The invariant.                                                          *)

Recent(r) == r.at >= now - Retention

\* A row is in the list, or was not to be, or shares its timestamp with an edge.
Shows(p, r) == r.mapped => r \in p.shown \/ r.at \in p.edges

\* What the cursor of a list has passed is in it; before the first page there is
\* nothing in it.
Listed(p) ==
  /\ p.pc = "asked" /\ p.cursor = None => p.shown = {}
  /\ p.pc = "open" \/ p.cursor # None =>
       \A r \in p.base : Recent(r) /\ (p.cursor = None \/ r.at >= p.cursor) => Shows(p, r)
  /\ p.cursor # None => \A s \in p.shown : s.at >= p.cursor

\* What the cursor has not passed is still in the log.
Waits(u) ==
  panel[u].cursor # None =>
    \A r \in panel[u].base : Recent(r) /\ r.at < panel[u].cursor => r \in Own(u)

ListInv(u) == Listed(panel[u]) /\ Waits(u)

Inv == TypeOK /\ \A u \in Users : ListInv(u)

-----------------------------------------------------------------------------
(* Types.                                                                  *)

LEMMA PanelTyped ==
  ASSUME TypeOK, NEW u \in Users
  PROVE  /\ panel[u].pc \in {"closed", "asked", "open", "failed"}
         /\ panel[u].cursor \in 0..MaxTime \union {None}
         /\ panel[u].shown \subseteq Event
         /\ panel[u].edges \subseteq 0..MaxTime
         /\ panel[u].base \subseteq Event
         /\ Own(u) \subseteq Event
BY DEF TypeOK, Panel, Own

LEMMA ClosedTyped == Closed \in Panel
BY DEF Closed, Panel

\* A page consists of rows before the cursor, and it is all of them or ends at the
\* next cursor.
LEMMA PageOf ==
  ASSUME TypeOK, NEW u \in Users,
         NEW rows \in Newest(Before(u), Page), NEW next \in NextBefore(rows)
  PROVE  /\ rows \subseteq Before(u)
         /\ rows \subseteq Event
         /\ next = None \/ next \in 0..MaxTime
         /\ next = None => rows = Before(u)
         /\ next # None => /\ \A r \in rows : next <= r.at
                           /\ \E r \in rows : r.at = next
                           /\ \A r \in rows, s \in Before(u) \ rows : s.at <= r.at
<1>1. Before(u) \subseteq Event
  BY DEF Before, Own, TypeOK
<1>2. rows \subseteq Before(u)
  BY DEF Newest
<1>3. rows = Before(u) \/ Cardinality(rows) = Page
  BY DEF Newest
<1>4. \A r \in rows, s \in Before(u) \ rows : s.at <= r.at
  BY DEF Newest
<1>5. CASE Cardinality(rows) = Page
  <2>1. next \in Last(rows)
    BY <1>5 DEF NextBefore
  <2>2. /\ \A r \in rows : next <= r.at
        /\ \E r \in rows : r.at = next
    BY <2>1 DEF Last
  <2>3. next \in 0..MaxTime
    BY <2>2, <1>1, <1>2 DEF Event
  <2>4. next # None
    BY <2>3, AuditLogAssumption
  <2> QED
    BY <1>1, <1>2, <1>4, <2>2, <2>3, <2>4
<1>6. CASE Cardinality(rows) # Page
  <2>1. next = None
    BY <1>6 DEF NextBefore
  <2> QED
    BY <1>1, <1>2, <1>3, <1>6, <2>1
<1> QED
  BY <1>5, <1>6

LEMMA TypeStep ==
  ASSUME TypeOK, Next
  PROVE  TypeOK'
<1> USE DEF TypeOK
<1>1. ASSUME NEW u \in accounts \union {Nobody}, LogEvent(u)
      PROVE  TypeOK'
  <2>1. PICK m \in Labels(u) :
          flying' = flying \union {[id |-> recorded + 1, who |-> u, at |-> now, mapped |-> m]}
    BY <1>1 DEF LogEvent
  <2>2. m \in BOOLEAN
    BY <2>1 DEF Labels
  <2>3. [id |-> recorded + 1, who |-> u, at |-> now, mapped |-> m] \in Event
    BY <1>1, <2>2, AuditLogAssumption DEF LogEvent, Event
  <2> QED
    BY <1>1, <2>1, <2>3, AuditLogAssumption DEF LogEvent
<1>2. ASSUME NEW r \in flying, Land(r)
      PROVE  TypeOK'
  BY <1>2 DEF Land, Insertable
<1>3. ASSUME NEW r \in flying, Lose(r)
      PROVE  TypeOK'
  BY <1>3 DEF Lose
<1>4. CASE Tick
  BY <1>4, AuditLogAssumption DEF Tick
<1>5. CASE Prune
  BY <1>5 DEF Prune
<1>6. ASSUME NEW u \in Users, OpenPanel(u)
      PROVE  TypeOK'
  <2>1. [Closed EXCEPT !.pc = "asked"] \in Panel
    BY DEF Closed, Panel
  <2> QED
    BY <1>6, <2>1 DEF OpenPanel
<1>7. ASSUME NEW u \in Users, ReadPage(u)
      PROVE  TypeOK'
  <2>0. PICK rows \in Newest(Before(u), Page) : \E next \in NextBefore(rows) :
          panel' = [panel EXCEPT ![u] =
            [pc |-> "open", cursor |-> next, shown |-> panel[u].shown \union Labelled(rows),
             edges |-> panel[u].edges \union ({next} \ {None}),
             base |-> IF panel[u].cursor = None THEN Own(u) ELSE panel[u].base]]
    BY <1>7 DEF ReadPage
  <2>1. PICK next \in NextBefore(rows) :
          panel' = [panel EXCEPT ![u] =
            [pc |-> "open", cursor |-> next, shown |-> panel[u].shown \union Labelled(rows),
             edges |-> panel[u].edges \union ({next} \ {None}),
             base |-> IF panel[u].cursor = None THEN Own(u) ELSE panel[u].base]]
    BY <2>0
  <2>2. [pc |-> "open", cursor |-> next, shown |-> panel[u].shown \union Labelled(rows),
         edges |-> panel[u].edges \union ({next} \ {None}),
         base |-> IF panel[u].cursor = None THEN Own(u) ELSE panel[u].base] \in Panel
    BY PageOf, PanelTyped DEF Panel, Labelled
  <2> QED
    BY <1>7, <2>1, <2>2 DEF ReadPage
<1>8. ASSUME NEW u \in Users, MorePages(u) \/ FailPage(u)
      PROVE  TypeOK'
  BY <1>8 DEF MorePages, FailPage, Panel
<1>9. ASSUME NEW u \in Users, ClosePanel(u)
      PROVE  TypeOK'
  BY <1>9, ClosedTyped DEF ClosePanel
<1>10. ASSUME NEW u \in Users, DeleteAccount(u)
       PROVE  TypeOK'
  <2>1. \A r \in log : [r EXCEPT !.who = Nobody] \in Event
    BY DEF Event
  <2>2. \A r \in log : [r EXCEPT !.who = Nobody].who = Nobody
    BY DEF Event
  <2>3. log' \subseteq Event /\ \A r \in log' : r.who \in accounts' \union {Nobody}
    BY <1>10, <2>1, <2>2 DEF DeleteAccount
  <2> QED
    BY <1>10, <2>3, ClosedTyped DEF DeleteAccount
<1> QED
  BY <1>1, <1>2, <1>3, <1>4, <1>5, <1>6, <1>7, <1>8, <1>9, <1>10 DEF Next

-----------------------------------------------------------------------------
(* Lists.                                                                  *)

\* A list stays right while its rows do: time only ages them, and what goes from
\* the log is past the retention period.
LEMMA ListStays ==
  ASSUME TypeOK, TypeOK', NEW u \in Users, ListInv(u),
         panel'[u] = panel[u], now' >= now,
         \A r \in Own(u) : r.at >= now' - Retention => r \in Own(u)'
  PROVE  ListInv(u)'
<1>0. now \in Nat /\ now' \in Nat /\ Retention \in Nat
  BY AuditLogAssumption DEF TypeOK
<1>1. \A r \in Event : r.at >= now' - Retention => Recent(r)
  BY <1>0 DEF Recent, Event
<1>2. Listed(panel[u])'
  BY <1>1, PanelTyped DEF ListInv, Listed, Shows, Recent
<1>3. Waits(u)'
  BY <1>1, PanelTyped DEF ListInv, Waits, Recent
<1> QED
  BY <1>2, <1>3 DEF ListInv

LEMMA NoList ==
  ASSUME NEW u, panel[u].cursor = None, panel[u].pc # "open", panel[u].shown = {}
  PROVE  ListInv(u)
BY DEF ListInv, Listed, Waits

LEMMA ReadList ==
  ASSUME Inv, TypeOK', NEW u \in Users, ReadPage(u)
  PROVE  ListInv(u)'
<1>0. PICK rows \in Newest(Before(u), Page) : \E next \in NextBefore(rows) :
        panel' = [panel EXCEPT ![u] =
          [pc |-> "open", cursor |-> next, shown |-> panel[u].shown \union Labelled(rows),
           edges |-> panel[u].edges \union ({next} \ {None}),
           base |-> IF panel[u].cursor = None THEN Own(u) ELSE panel[u].base]]
  BY DEF ReadPage
<1>1. PICK next \in NextBefore(rows) :
        panel' = [panel EXCEPT ![u] =
          [pc |-> "open", cursor |-> next, shown |-> panel[u].shown \union Labelled(rows),
           edges |-> panel[u].edges \union ({next} \ {None}),
           base |-> IF panel[u].cursor = None THEN Own(u) ELSE panel[u].base]]
  BY <1>0
<1> DEFINE p == panel[u]
           q == [pc |-> "open", cursor |-> next, shown |-> p.shown \union Labelled(rows),
                 edges |-> p.edges \union ({next} \ {None}),
                 base |-> IF p.cursor = None THEN Own(u) ELSE p.base]
<1>2. panel'[u] = q /\ now' = now /\ log' = log /\ Own(u)' = Own(u)
  BY <1>1 DEF ReadPage, Inv, TypeOK, Own
<1>3. TypeOK /\ ListInv(u) /\ p.pc = "asked"
  BY DEF Inv, ReadPage
<1>4. /\ p.cursor \in 0..MaxTime \union {None}
      /\ p.shown \subseteq Event /\ p.base \subseteq Event /\ Own(u) \subseteq Event
  BY <1>3, PanelTyped
<1>5. /\ rows \subseteq Before(u) /\ rows \subseteq Event
      /\ next = None \/ next \in 0..MaxTime
      /\ next = None => rows = Before(u)
      /\ next # None => /\ \A r \in rows : next <= r.at
                        /\ \E r \in rows : r.at = next
                        /\ \A r \in rows, s \in Before(u) \ rows : s.at <= r.at
  BY <1>3, PageOf
<1>6. \A r \in q.base : Recent(r) => r \in Own(u) \/ (p.cursor # None /\ r.at >= p.cursor)
  BY <1>3, <1>4, AuditLogAssumption DEF ListInv, Waits, Event
<1>7. \A r \in q.base : Recent(r) => r \in Before(u) \/ Shows(q, r)
  <2> SUFFICES ASSUME NEW r \in q.base, Recent(r), r \notin Before(u)
               PROVE  Shows(q, r)
    OBVIOUS
  <2>1. r \in Event
    BY <1>4
  <2>2. p.cursor # None /\ r.at >= p.cursor
    BY <1>4, <1>6, <2>1 DEF Before, Event
  <2>3. r \in p.base
    BY <2>2
  <2>4. Shows(p, r)
    BY <1>3, <2>2, <2>3 DEF ListInv, Listed
  <2> QED
    BY <2>4 DEF Shows
<1>8. \A r \in Before(u) : next = None \/ r.at >= next => Shows(q, r)
  <2> SUFFICES ASSUME NEW r \in Before(u), next = None \/ r.at >= next
               PROVE  Shows(q, r)
    OBVIOUS
  <2>1. CASE r \in rows
    BY <2>1 DEF Shows, Labelled
  <2>2. CASE r \notin rows
    <3>1. next # None
      BY <1>5, <2>2
    <3>2. PICK s \in rows : s.at = next
      BY <1>5, <3>1
    <3>3. r \in Event
      BY <1>4 DEF Before
    <3>4. r.at = next
      BY <1>5, <2>2, <3>1, <3>2, <3>3 DEF Event
    <3> QED
      BY <3>1, <3>4 DEF Shows
  <2> QED
    BY <2>1, <2>2
<1>9. \A r \in q.base : Recent(r) /\ (q.cursor = None \/ r.at >= q.cursor) => Shows(q, r)
  BY <1>7, <1>8
<1>10. q.cursor # None => \A s \in q.shown : s.at >= q.cursor
  <2> SUFFICES ASSUME next # None, NEW s \in p.shown \union rows
               PROVE  s.at >= next
    BY DEF Labelled
  <2>1. CASE s \in rows
    BY <1>5, <2>1
  <2>2. CASE s \in p.shown
    <3>1. p.cursor # None
      BY <1>3, <2>2 DEF ListInv, Listed
    <3>2. s.at >= p.cursor
      BY <1>3, <2>2, <3>1 DEF ListInv, Listed
    <3>3. PICK r \in rows : r.at = next
      BY <1>5
    <3>4. r.at < p.cursor
      BY <1>5, <3>1 DEF Before
    <3> QED
      BY <1>4, <1>5, <2>2, <3>1, <3>2, <3>3, <3>4 DEF Event
  <2> QED
    BY <2>1, <2>2
<1>11. q.cursor # None => \A r \in q.base : Recent(r) /\ r.at < q.cursor => r \in Own(u)
  <2> SUFFICES ASSUME next # None, NEW r \in q.base, Recent(r), r.at < next,
                      p.cursor # None, r.at >= p.cursor
               PROVE  FALSE
    BY <1>6
  <2>1. PICK s \in rows : s.at = next
    BY <1>5
  <2>2. s.at < p.cursor
    BY <1>5 DEF Before
  <2> QED
    BY <1>4, <1>5, <2>1, <2>2 DEF Event
<1>12. Listed(panel[u])'
  BY <1>2, <1>9, <1>10 DEF Listed, Shows, Recent
<1>13. Waits(u)'
  BY <1>2, <1>11 DEF Waits, Recent
<1> QED
  BY <1>12, <1>13 DEF ListInv

LEMMA InitInv == Init => Inv
<1> SUFFICES ASSUME Init PROVE Inv
  OBVIOUS
<1>1. TypeOK
  BY ClosedTyped, AuditLogAssumption DEF Init, TypeOK
<1>2. \A u \in Users : ListInv(u)
  BY NoList DEF Init, Closed
<1> QED
  BY <1>1, <1>2 DEF Inv

LEMMA NextInv == Inv /\ [Next]_vars => Inv'
<1> SUFFICES ASSUME Inv, [Next]_vars PROVE Inv'
  OBVIOUS
<1>1. CASE UNCHANGED vars
  BY <1>1 DEF Inv, TypeOK, ListInv, Listed, Waits, Shows, Recent, Own, vars
<1>2. CASE Next
  <2>1. TypeOK /\ TypeOK'
    BY <1>2, TypeStep DEF Inv
  <2>2. now \in Nat /\ Retention \in Nat
    BY <2>1, AuditLogAssumption DEF TypeOK
  <2> SUFFICES ASSUME NEW w \in Users
               PROVE  ListInv(w)'
    BY <2>1 DEF Inv
  <2>3. ListInv(w)
    BY DEF Inv
  <2>4. ASSUME NEW u \in accounts \union {Nobody}, LogEvent(u)
        PROVE  ListInv(w)'
    BY <2>1, <2>2, <2>3, <2>4, ListStays DEF LogEvent, Own
  <2>5. ASSUME NEW r \in flying, Land(r) \/ Lose(r)
        PROVE  ListInv(w)'
    BY <2>1, <2>2, <2>3, <2>5, ListStays DEF Land, Lose, Own
  <2>6. CASE Tick
    BY <2>1, <2>2, <2>3, <2>6, ListStays DEF Tick, Own
  <2>7. CASE Prune
    <3>1. \A r \in log : r.at >= now - Retention => r \in log'
      <4>1. PICK batch \in Swept : log' = log \ batch
        BY <2>7 DEF Prune
      <4>2. batch \subseteq Expired(log)
        BY DEF Swept, Oldest
      <4> QED
        BY <4>1, <4>2, <2>1, <2>2 DEF Expired, TypeOK, Event
    <3> QED
      BY <2>1, <2>2, <2>3, <2>7, <3>1, ListStays DEF Prune, Own
  <2>8. ASSUME NEW u \in Users, OpenPanel(u)
        PROVE  ListInv(w)'
    <3>1. CASE w = u
      BY <2>1, <2>8, <3>1, NoList DEF OpenPanel, Closed, TypeOK, ListInv, Listed, Waits
    <3>2. CASE w # u
      BY <2>1, <2>2, <2>3, <2>8, <3>2, ListStays DEF OpenPanel, Own, TypeOK
    <3> QED
      BY <3>1, <3>2
  <2>9. ASSUME NEW u \in Users, ReadPage(u)
        PROVE  ListInv(w)'
    <3>1. CASE w = u
      BY <2>1, <2>9, <3>1, ReadList
    <3>2. CASE w # u
      BY <2>1, <2>2, <2>3, <2>9, <3>2, ListStays DEF ReadPage, Own, TypeOK
    <3> QED
      BY <3>1, <3>2
  <2>10. ASSUME NEW u \in Users, MorePages(u) \/ FailPage(u)
         PROVE  ListInv(w)'
    <3>1. CASE w = u
      <4>1. panel[u].cursor = None => panel'[u].pc = "failed"
        BY <2>1, <2>10 DEF MorePages, FailPage, TypeOK, Panel
      <4>2. /\ panel'[u].cursor = panel[u].cursor /\ panel'[u].shown = panel[u].shown
            /\ panel'[u].base = panel[u].base /\ panel'[u].edges = panel[u].edges
        BY <2>1, <2>10 DEF MorePages, FailPage, TypeOK, Panel
      <4>3. now' = now /\ log' = log
        BY <2>10 DEF MorePages, FailPage
      <4> QED
        BY <2>3, <3>1, <4>1, <4>2, <4>3 DEF ListInv, Listed, Waits, Shows, Recent, Own
    <3>2. CASE w # u
      BY <2>1, <2>2, <2>3, <2>10, <3>2, ListStays DEF MorePages, FailPage, Own, TypeOK
    <3> QED
      BY <3>1, <3>2
  <2>11. ASSUME NEW u \in Users, ClosePanel(u)
         PROVE  ListInv(w)'
    <3>1. CASE w = u
      BY <2>1, <2>11, <3>1 DEF ClosePanel, Closed, TypeOK, ListInv, Listed, Waits
    <3>2. CASE w # u
      BY <2>1, <2>2, <2>3, <2>11, <3>2, ListStays DEF ClosePanel, Own, TypeOK
    <3> QED
      BY <3>1, <3>2
  <2>12. ASSUME NEW u \in Users, DeleteAccount(u)
         PROVE  ListInv(w)'
    <3>1. CASE w = u
      BY <2>1, <2>12, <3>1 DEF DeleteAccount, Closed, TypeOK, ListInv, Listed, Waits
    <3>2. CASE w # u
      BY <2>1, <2>2, <2>3, <2>12, <3>2, ListStays DEF DeleteAccount, Own, TypeOK
    <3> QED
      BY <3>1, <3>2
  <2> QED
    BY <1>2, <2>4, <2>5, <2>6, <2>7, <2>8, <2>9, <2>10, <2>11, <2>12 DEF Next
<1> QED
  BY <1>1, <1>2

LEMMA Invariant == Spec => []Inv
BY InitInv, NextInv, PTL DEF Spec

-----------------------------------------------------------------------------
(* Theorems.                                                               *)

\* Every reachable state has the declared types; among them, no row of audit_logs
\* names an account that is gone, however late its insert ran.
THEOREM TypeCorrect == Spec => []TypeOK
<1>1. Inv => TypeOK
  BY DEF Inv
<1> QED
  BY <1>1, Invariant, PTL

\* An activity list that offers no further page has every event of the retention
\* period that was there when it was opened and has a label, unless it carries the
\* timestamp at which a page ended.
THEOREM ListsComplete == Spec => []ListsAll
<1>1. Inv => ListsAll
  BY DEF Inv, ListInv, Listed, ListsAll, Complete, Shows, Recent
<1> QED
  BY <1>1, Invariant, PTL

\* Each page of an activity list is below the one before it.
THEOREM PagesInOrder == Spec => PagesDescend
<1>1. Inv /\ [Next]_vars =>
        [\A u \in Users :
           panel[u].pc = "asked" /\ panel'[u].pc = "open" =>
             \A r \in panel'[u].shown \ panel[u].shown, s \in panel[u].shown :
               r.at < s.at]_vars
  <2> SUFFICES ASSUME Inv, Next, NEW u \in Users,
                      panel[u].pc = "asked", panel'[u].pc = "open",
                      NEW r \in panel'[u].shown \ panel[u].shown,
                      NEW s \in panel[u].shown
               PROVE  r.at < s.at
    BY DEF vars
  <2>1. TypeOK /\ Listed(panel[u])
    BY DEF Inv, ListInv
  <2>2. ReadPage(u)
    <3>1. panel' # panel
      OBVIOUS
    <3>2. PICK v \in Users : \/ OpenPanel(v) \/ ReadPage(v) \/ MorePages(v)
                            \/ FailPage(v) \/ ClosePanel(v) \/ DeleteAccount(v)
      BY <3>1 DEF Next, LogEvent, Land, Lose, Tick, Prune
    <3>3. /\ OpenPanel(v) \/ MorePages(v) => v # u
          /\ FailPage(v) => v # u \/ panel'[u].pc = "failed"
          /\ ClosePanel(v) \/ DeleteAccount(v) => v # u \/ panel'[u].pc = "closed"
      <4>1. OpenPanel(v) \/ MorePages(v) => v # u
        BY DEF OpenPanel, MorePages
      <4>2. FailPage(v) => v # u \/ panel'[u].pc = "failed"
        BY <2>1 DEF FailPage, Panel, TypeOK
      <4>3. ClosePanel(v) \/ DeleteAccount(v) => v # u \/ panel'[u].pc = "closed"
        BY <2>1 DEF ClosePanel, DeleteAccount, Closed, TypeOK
      <4> QED
        BY <4>1, <4>2, <4>3
    <3>4. v # u => panel'[u] = panel[u]
      BY <2>1, <3>2 DEF OpenPanel, ReadPage, MorePages, FailPage, ClosePanel,
                        DeleteAccount, TypeOK
    <3>5. v = u
      BY <3>4
    <3> QED
      BY <3>2, <3>3, <3>5
  <2>3. PICK rows \in Newest(Before(u), Page) : \E next \in NextBefore(rows) :
          panel'[u].shown = panel[u].shown \union Labelled(rows)
    BY <2>1, <2>2 DEF ReadPage, TypeOK
  <2>4. r \in Before(u)
    BY <2>1, <2>3, PageOf DEF Labelled
  <2>5. panel[u].cursor # None /\ s.at >= panel[u].cursor
    BY <2>1 DEF Listed
  <2>6. r.at < panel[u].cursor
    BY <2>4, <2>5 DEF Before
  <2>7. panel[u].cursor \in Nat /\ r.at \in Nat /\ s.at \in Nat
    BY <2>1, <2>4, <2>5, PanelTyped DEF Before, Event
  <2> QED
    BY <2>5, <2>6, <2>7
<1> QED
  BY <1>1, Invariant, PTL DEF Spec, PagesDescend
=============================================================================
