--------------------------- MODULE MCRateLimiter ---------------------------
(***************************************************************************)
(* The second login step, twice at a time, from one address and for one     *)
(* account.  The unit of time is the first lockout; the decay window is two *)
(* of them (in the code, four) and the longest lockout four (ninety-six):   *)
(* a lockout can be shorter than the window, as long, or longer, at the     *)
(* ceiling.  Two attempts at a time run up no more than five failures.      *)
(***************************************************************************)
EXTENDS RateLimiter, TLC

CONSTANTS login1, login2, address, account

LoginSubjects == [c \in Clients |-> {address, account}]

Two == [s \in Subjects |-> 2]
One == [s \in Subjects |-> 1]
=============================================================================
