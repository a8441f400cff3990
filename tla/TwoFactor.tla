----------------------------- MODULE TwoFactor -----------------------------
(***************************************************************************)
(* The second factor of one account: its row of user_totp, its recovery    *)
(* codes, and the requests of totp.ts that set it up, change it, take it   *)
(* away and sign in with it.  A request runs one step per await between    *)
(* which another can run; got is the row as the request has read it.       *)
(*                                                                         *)
(* The password and the rate limiter decide only whether a request goes    *)
(* on, so a request that fails them is one that was never made.  A code of *)
(* an authenticator is right when the authenticator has the secret.        *)
(***************************************************************************)
EXTENDS Naturals, FiniteSets

CONSTANTS
  Sessions,    \* the tabs and devices the account is used from
  Secrets,     \* TOTP secrets
  NoSecret,    \* a null secret_enc or pending_secret_enc
  Sheets,      \* batches of recovery codes
  PerSheet,    \* the codes of a batch (RECOVERY_CODE_COUNT)
  Managing,    \* how many requests that change the second factor run at a time
  Faults       \* "crash": a request may stop at an await

ASSUME TwoFactorAssumption ==
  /\ IsFiniteSet(Sessions)
  /\ NoSecret \notin Secrets
  /\ PerSheet \in Nat /\ Managing \in Nat
  /\ Faults \subseteq {"crash"}

VARIABLES
  totp,      \* the row of user_totp
  codes,     \* the rows of user_recovery_codes
  used,      \* those with a used_at
  req,       \* the request each session has in hand
  app,       \* the secrets the user's authenticator has scanned
  sheet,     \* the codes the user has been shown last
  warned,    \* a request that was to replace or remove them has got no good answer
  proven,    \* history: the secrets an authenticator has produced a code of
  redeemed   \* history: how often each code was accepted

database == <<totp, codes, used>>
user == <<app, sheet, warned>>
history == <<proven, redeemed>>
vars == <<database, req, user, history>>

Codes == Sheets \X (1..PerSheet)

\* generateRecoveryCodes.  Mutant: one code too many.
OneTooMany(b) == {b} \X (0..PerSheet)
SheetOf(b) == {b} \X (1..PerSheet)

Secret == Secrets \union {NoSecret}
Row == [exists: BOOLEAN, enabled: BOOLEAN, secret: Secret, pending: Secret]
NoRow == [exists |-> FALSE, enabled |-> FALSE, secret |-> NoSecret, pending |-> NoSecret]

\* The awaits of a request, named for what comes after.
ManagePCs == {"enroll_auth", "enroll_write", "enable_write", "disable_auth",
              "disable_codes", "disable_row", "codes_delete", "codes_insert"}

Request == [pc: ManagePCs \union {"idle", "login"}, got: Row]
Idle == [pc |-> "idle", got |-> NoRow]

\* The types of the tables, the objects and the clients.
TypeOK ==
  /\ totp \in Row
  /\ codes \subseteq Codes /\ used \subseteq codes
  /\ req \in [Sessions -> Request]
  /\ app \subseteq Secrets /\ sheet \subseteq Codes /\ warned \in BOOLEAN
  /\ proven \subseteq Secrets
  /\ redeemed \in [Codes -> Nat]

-----------------------------------------------------------------------------
(* Helpers.                                                                *)

Goto(s, pc) == req' = [req EXCEPT ![s].pc = pc]
Reads(s, pc) == req' = [req EXCEPT ![s] = [pc |-> pc, got |-> totp]]
Done(s) == req' = [req EXCEPT ![s] = Idle]

Busy == {s \in Sessions : req[s].pc \in ManagePCs}

\* A session begins to change the second factor.
Manages(s) == req[s].pc = "idle" /\ Cardinality(Busy) < Managing

\* A random secret, or batch of codes, is none that anything refers to.  A name
\* nothing refers to is used again, and forgotten from the history.
SecretsInUse == app \union {totp.secret, totp.pending}
                \union UNION {{req[s].got.secret, req[s].got.pending} : s \in Sessions}
SheetsInUse == {c[1] : c \in codes \union sheet}

\* A code from the authenticator, checked against the secret as read.
ShowsToken(secret) ==
  /\ secret \in app
  /\ proven' = proven \union {secret}
  /\ UNCHANGED <<codes, used, redeemed>>

\* consumeRecoveryCode: one UPDATE guarded by used_at IS NULL.  Mutant: the
\* guard is left out.
AnyRow(c) == c \in codes
Redeemable(c) == c \in codes \ used

ShowsRecoveryCode ==
  \E c \in sheet :
    /\ Redeemable(c)
    /\ used' = used \union {c}
    /\ redeemed' = [redeemed EXCEPT ![c] = @ + 1]
    /\ UNCHANGED <<codes, proven>>

\* verifyActiveSecondFactor, over the row the request has read.
SecondFactor(s) == ShowsToken(req[s].got.secret) \/ ShowsRecoveryCode

-----------------------------------------------------------------------------
(* Setting up an authenticator, or changing it.                            *)

\* The row is read; while the second factor is on, one is asked for.
Enroll(s) ==
  /\ Manages(s)
  /\ Reads(s, IF totp.enabled THEN "enroll_auth" ELSE "enroll_write")
  /\ UNCHANGED <<database, user, history>>

EnrollAuth(s) ==
  /\ req[s].pc = "enroll_auth"
  /\ SecondFactor(s)
  /\ Goto(s, "enroll_write")
  /\ UNCHANGED <<totp, user>>

\* The upsert leaves an active secret alone.
WithPending(k) == [totp EXCEPT !.exists = TRUE, !.pending = k]

\* The response carries the secret, unless it is lost.
EnrollWrite(s) ==
  /\ req[s].pc = "enroll_write"
  /\ \E k \in Secrets \ SecretsInUse :
       /\ totp' = WithPending(k)
       /\ proven' = proven \ {k}
       /\ \/ app' = app \union {k}
          \/ "crash" \in Faults /\ UNCHANGED app
  /\ Done(s)
  /\ UNCHANGED <<codes, used, sheet, warned, redeemed>>

\* The code is checked against the pending secret that was read.  Mutant: it is
\* checked against nothing.
Unchecked(s) == totp.pending # NoSecret /\ UNCHANGED <<codes, used, history>>
PendingProven(s) == totp.pending # NoSecret /\ ShowsToken(totp.pending)

Enable(s) ==
  /\ Manages(s)
  /\ PendingProven(s)
  /\ Reads(s, "enable_write")
  /\ UNCHANGED <<totp, user>>

\* An UPDATE of the row as it is now, if there is one.  Only the first time does
\* the account get recovery codes.
EnableWrite(s) ==
  /\ req[s].pc = "enable_write"
  /\ totp' = IF totp.exists
             THEN [totp EXCEPT !.secret = totp.pending, !.pending = NoSecret,
                               !.enabled = TRUE]
             ELSE totp
  /\ IF req[s].got.enabled THEN Done(s) ELSE Goto(s, "codes_delete")
  /\ UNCHANGED <<codes, used, user, history>>

-----------------------------------------------------------------------------
(* Recovery codes.                                                         *)

Regenerate(s) ==
  /\ Manages(s)
  /\ totp.enabled
  /\ Reads(s, "codes_delete")
  /\ UNCHANGED <<database, user, history>>

\* replaceRecoveryCodes: the old rows go, then the new ones come.
CodesDelete(s) ==
  /\ req[s].pc = "codes_delete"
  /\ codes' = {} /\ used' = {}
  /\ Goto(s, "codes_insert")
  /\ UNCHANGED <<totp, user, history>>

\* The rows of the new batch.  Mutant: fewer than are shown.
ShortBatch(b) == codes \union (SheetOf(b) \ {<<b, 1>>})
WithBatch(b) == codes \union SheetOf(b)

\* The response carries the codes, unless it is lost.
CodesInsert(s) ==
  /\ req[s].pc = "codes_insert"
  /\ \E b \in Sheets \ SheetsInUse :
       /\ codes' = WithBatch(b)
       /\ \/ sheet' = SheetOf(b) /\ warned' = FALSE
          \/ "crash" \in Faults /\ sheet' = sheet /\ warned' = TRUE
       /\ redeemed' = [c \in Codes |-> IF c \in SheetOf(b) THEN 0 ELSE redeemed[c]]
  /\ Done(s)
  /\ UNCHANGED <<totp, used, app, proven>>

-----------------------------------------------------------------------------
(* Taking the second factor away.                                          *)

Disable(s) ==
  /\ Manages(s)
  /\ totp.enabled
  /\ Reads(s, "disable_auth")
  /\ UNCHANGED <<database, user, history>>

DisableAuth(s) ==
  /\ req[s].pc = "disable_auth"
  /\ SecondFactor(s)
  /\ Goto(s, "disable_codes")
  /\ UNCHANGED <<totp, user>>

DisableCodes(s) ==
  /\ req[s].pc = "disable_codes"
  /\ codes' = {} /\ used' = {}
  /\ Goto(s, "disable_row")
  /\ UNCHANGED <<totp, user, history>>

\* The user is told, and throws the sheet away with the authenticator's entries,
\* unless the response is lost.
DisableRow(s) ==
  /\ req[s].pc = "disable_row"
  /\ totp' = NoRow
  /\ \/ app' = {} /\ sheet' = {} /\ warned' = FALSE
     \/ "crash" \in Faults /\ warned' = TRUE /\ UNCHANGED <<app, sheet>>
  /\ Done(s)
  /\ UNCHANGED <<codes, used, history>>

-----------------------------------------------------------------------------
(* Signing in.                                                             *)

\* The handler reads the row and wants an active secret in it.
Login(s) ==
  /\ req[s].pc = "idle"
  /\ totp.enabled /\ totp.secret # NoSecret
  /\ Reads(s, "login")
  /\ UNCHANGED <<database, user, history>>

LoginVerify(s) ==
  /\ req[s].pc = "login"
  /\ SecondFactor(s)
  /\ Done(s)
  /\ UNCHANGED <<totp, user>>

\* The code is wrong.
Rejected(s) ==
  /\ req[s].pc \in {"enroll_auth", "disable_auth", "login"}
  /\ Done(s)
  /\ UNCHANGED <<database, user, history>>

\* The old codes are deleted, and what was to follow has not happened.
HalfDone(s) == req[s].pc \in {"codes_insert", "disable_row"}

\* A request stops before its next effect.  The user still has the sheet shown
\* last, and an error.
Crash(s) ==
  /\ "crash" \in Faults
  /\ req[s].pc # "idle"
  /\ warned' = (warned \/ HalfDone(s))
  /\ Done(s)
  /\ UNCHANGED <<database, app, sheet, history>>

-----------------------------------------------------------------------------

Init ==
  /\ totp = NoRow
  /\ codes = {} /\ used = {}
  /\ req = [s \in Sessions |-> Idle]
  /\ app = {} /\ sheet = {} /\ warned = FALSE
  /\ proven = {}
  /\ redeemed = [c \in Codes |-> 0]

Next ==
  \E s \in Sessions :
    \/ Enroll(s) \/ EnrollAuth(s) \/ EnrollWrite(s)
    \/ Enable(s) \/ EnableWrite(s)
    \/ Regenerate(s) \/ CodesDelete(s) \/ CodesInsert(s)
    \/ Disable(s) \/ DisableAuth(s) \/ DisableCodes(s) \/ DisableRow(s)
    \/ Login(s) \/ LoginVerify(s)
    \/ Rejected(s) \/ Crash(s)

Spec == Init /\ [][Next]_vars

-----------------------------------------------------------------------------
(* Properties.                                                             *)

\* Neither a change nor a set-up that was not completed locks the account out: a
\* second factor is asked for only against a secret that an authenticator has
\* produced a code of, so that the old one stays active until the new one has
\* been proven.
NoLockout == totp.enabled => totp.secret \in proven

\* A recovery code is accepted once, however many requests present it at the
\* same time, to sign in or to change the second factor.
SingleUse == \A c \in Codes : redeemed[c] <= 1

\* The sheet that the user was shown last works as a whole or not at all, and it is
\* dead in one case only: a request that replaces or removes the codes stands between
\* its DELETE and what follows, or has broken off there or lost its answer, so that
\* the user got an error.  The two halves are no transaction (totp.ts): until another
\* replacement goes through, that user has an authenticator and no recovery codes.
CodesWork ==
  \/ sheet \subseteq codes
  \/ /\ sheet \intersect codes = {}
     /\ warned \/ \E s \in Sessions : HalfDone(s)
=============================================================================
