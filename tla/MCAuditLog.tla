----------------------------- MODULE MCAuditLog -----------------------------
(***************************************************************************)
(* Instances of AuditLog for TLC: one account beside unauthenticated       *)
(* events.                                                                 *)
(***************************************************************************)
EXTENDS AuditLog
=============================================================================
