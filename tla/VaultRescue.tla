---------------------------- MODULE VaultRescue -----------------------------
(***************************************************************************)
(* VaultKeys implements VaultPromise as long as nobody is removed and the  *)
(* worker finishes one request before it takes the next: rescues, grants,  *)
(* saves and tabs that crash between any two requests are invisible to the *)
(* users of the vault, except that there come to be more who can read it.  *)
(***************************************************************************)
EXTENDS VaultKeys

\* The abstract status: that of the row, and of what a download serves.
Status == CASE row \in {"absent", "bare"} -> "none"
            [] row = "deleted" -> "deleted"
            [] OTHER -> IF Live = NoBlob THEN "empty" ELSE "stored"

\* The members whose share, or whose pre-upgrade key, opens what is stored.
Readers == IF Live = NoBlob THEN {} ELSE {u \in members : CanOpen(u)}

Promised == INSTANCE VaultPromise WITH
  status <- Status, kept <- Live.full, readers <- Readers

\* Every step of the tables, the objects and the tabs is a step of the abstract
\* vault or leaves it as it is: staging an object, wrapping its key, flipping the
\* row and sweeping the old object, in the order vault-keys.js has them, take the
\* vault from one key to the next without a moment in which its entries, or
\* somebody who could read them, are lost.
KeepsPromise == Promised!Spec
=============================================================================
