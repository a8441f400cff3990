-------------------------- MODULE MCOrganizations --------------------------
(***************************************************************************)
(* The instance of Organizations for TLC.  Users are symmetric: any of them *)
(* may create the organisation and any may leave.                           *)
(*                                                                          *)
(* Some properties hold as long as requests do not overlap and no account   *)
(* is deleted.  The history variable races counts the requests that were    *)
(* made while another was in hand, so that one run explores the requests    *)
(* that follow one another along with those that race.                      *)
(***************************************************************************)
EXTENDS Organizations, TLC

CONSTANT MaxRaces  \* bound: how many requests are made while another is in hand

VARIABLE races

mcVars == <<vars, races>>

Raced == Busy # {} /\ Cardinality(Busy') > Cardinality(Busy)

MCInit == Init /\ races = 0
MCNext ==
  /\ Next
  /\ Raced => races < MaxRaces
  /\ races' = IF Raced THEN races + 1 ELSE races
MCSpec == MCInit /\ [][MCNext]_mcVars

UserSymmetry == Permutations(Users)

\* Requests have followed one another, though each may have stopped anywhere, and
\* nobody has deleted an account.
InTurn == races = 0 /\ accounts = Users

\* Removing a member leaves none of the shares it held, and deleting the
\* organisation none of its vaults and shares, also when earlier requests to
\* create, share, remove or delete have stopped half-way.
NothingLeftInTurn == InTurn => SharesOfMembers /\ NoVaultOutlivesOrg

\* An owner is demoted or removed by another owner, who remains, and not by an admin:
\* in turn, an organisation does not lose its last owner.
OwnersFallInTurn == [][InTurn /\ InTurn' => OwnersFallToOwners]_mcVars
=============================================================================
