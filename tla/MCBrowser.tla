----------------------------- MODULE MCBrowser -----------------------------
(***************************************************************************)
(* The instance of Browser for TLC: two tabs, two accounts.                 *)
(***************************************************************************)
EXTENDS Browser
=============================================================================
