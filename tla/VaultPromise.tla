---------------------------- MODULE VaultPromise ----------------------------
(***************************************************************************)
(* What a vault promises its users, without keys, versions, shares or      *)
(* requests: its entries are kept and somebody can read them until it is   *)
(* deleted, and who can read it can go on reading it.                      *)
(***************************************************************************)
CONSTANT Users

VARIABLES
  status,   \* "none", "empty" (nothing stored), "stored" or "deleted"
  kept,     \* the entries the vault had at first are in it
  readers,  \* the users who can decrypt what is stored
  members   \* the users the organisation admits

vars == <<status, kept, readers, members>>

\* What the promise comes down to in a single state: no stored contents without
\* a reader, no reader but members, nothing but what is stored to read.
Readable ==
  /\ status = "stored" => readers # {}
  /\ status # "stored" => readers = {} /\ ~kept
  /\ readers \subseteq members

\* A vault not created yet, or one whose creator alone can read it.
Init ==
  /\ members \subseteq Users
  /\ \/ status = "none" /\ kept = FALSE /\ readers = {}
     \/ /\ status = "stored" /\ kept = TRUE
        /\ \E u \in members : readers = {u}

Join(u) ==
  /\ members' = members \union {u}
  /\ UNCHANGED <<status, kept, readers>>

Create ==
  /\ status = "none" /\ status' = "empty"
  /\ UNCHANGED <<kept, readers, members>>

\* The first contents come with somebody who can read them.
Store ==
  /\ status = "empty" /\ status' = "stored"
  /\ readers' \in (SUBSET members) \ {{}}
  /\ UNCHANGED <<kept, members>>

\* Readers are only added, in whatever way the contents are encrypted anew.
Admit ==
  /\ status = "stored"
  /\ readers' \in SUBSET members /\ readers \subseteq readers'
  /\ UNCHANGED <<status, kept, members>>

Delete ==
  /\ status' = "deleted" /\ kept' = FALSE /\ readers' = {}
  /\ UNCHANGED members

Next == Create \/ Store \/ Admit \/ Delete \/ \E u \in Users : Join(u)

Spec == Init /\ [][Next]_vars
=============================================================================
