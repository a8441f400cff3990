--------------------------- MODULE TwoFactorProofs ---------------------------
(***************************************************************************)
(* Theorems about TwoFactor, for any sessions, secrets, sheets and faults: *)
(* recovery codes work once however many requests run at a time, and no    *)
(* change of the authenticator locks the account out when one runs.        *)
(***************************************************************************)
EXTENDS TwoFactor, FiniteSetTheorems, TLAPS

-----------------------------------------------------------------------------
(* The invariants.                                                         *)

\* A code that can still be redeemed has not been.
FreshUnused == \A c \in codes \ used : redeemed[c] = 0

CodeInv == TypeOK /\ FreshUnused /\ SingleUse

\* One request changes the second factor at a time.
OneManages == \A s, t \in Sessions : s \in Busy /\ t \in Busy => s = t

\* A request about to enable the pending secret has seen it proven, and it is the
\* one that is pending still.
EnablesProven == \A s \in Sessions : req[s].pc = "enable_write" => totp.pending \in proven

LockInv == TypeOK /\ OneManages /\ EnablesProven /\ NoLockout

-----------------------------------------------------------------------------
(* Types.                                                                  *)

LEMMA Typed ==
  /\ NoRow \in Row /\ Idle \in Request
  /\ \A b \in Sheets : SheetOf(b) \subseteq Codes
BY DEF NoRow, Row, Secret, Idle, Request, SheetOf, Codes

\* What a request may come to stand at.
LEMMA ReqTyped ==
  ASSUME TypeOK, NEW s \in Sessions,
         \/ Done(s)
         \/ \E pc \in ManagePCs \union {"login"} : Goto(s, pc) \/ Reads(s, pc)
  PROVE  req' \in [Sessions -> Request]
<1>1. CASE Done(s)
  BY <1>1, Typed DEF Done, TypeOK
<1>2. ASSUME NEW pc \in ManagePCs \union {"login"}, Goto(s, pc)
      PROVE  req' \in [Sessions -> Request]
  BY <1>2 DEF Goto, TypeOK, Request
<1>3. ASSUME NEW pc \in ManagePCs \union {"login"}, Reads(s, pc)
      PROVE  req' \in [Sessions -> Request]
  <2>1. [pc |-> pc, got |-> totp] \in Request
    BY DEF TypeOK, Request
  <2> QED
    BY <1>3, <2>1 DEF Reads, TypeOK
<1> QED
  BY <1>1, <1>2, <1>3

\* A second factor that is shown.
LEMMA FactorStep ==
  ASSUME CodeInv, NEW s \in Sessions, SecondFactor(s)
  PROVE  /\ used' \subseteq codes' /\ codes' = codes /\ redeemed' \in [Codes -> Nat]
         /\ proven \subseteq proven' /\ proven' \subseteq proven \union app
         /\ FreshUnused' /\ SingleUse'
<1>1. TypeOK /\ FreshUnused /\ SingleUse
  BY DEF CodeInv
<1>2. CASE ShowsToken(req[s].got.secret)
  BY <1>1, <1>2 DEF ShowsToken, TypeOK, FreshUnused, SingleUse
<1>3. CASE ShowsRecoveryCode
  <2>1. PICK c \in sheet : /\ c \in codes \ used
                           /\ used' = used \union {c}
                           /\ redeemed' = [redeemed EXCEPT ![c] = redeemed[c] + 1]
                           /\ UNCHANGED <<codes, proven>>
    BY <1>3 DEF ShowsRecoveryCode, Redeemable
  <2>2. c \in Codes /\ redeemed[c] = 0
    BY <1>1, <2>1 DEF TypeOK, FreshUnused
  <2>3. /\ redeemed' \in [Codes -> Nat] /\ redeemed'[c] = 1
        /\ \A d \in Codes \ {c} : redeemed'[d] = redeemed[d]
    BY <1>1, <2>1, <2>2 DEF TypeOK
  <2>4. SingleUse'
    BY <1>1, <2>2, <2>3 DEF SingleUse
  <2>5. FreshUnused'
    BY <1>1, <2>1, <2>3 DEF FreshUnused, TypeOK
  <2> QED
    BY <1>1, <2>1, <2>3, <2>4, <2>5 DEF TypeOK
<1> QED
  BY <1>2, <1>3 DEF SecondFactor

-----------------------------------------------------------------------------
(* Recovery codes work once.                                               *)

\* Steps that leave the codes alone.
LEMMA CodesKept ==
  ASSUME CodeInv, TypeOK', UNCHANGED <<codes, used, redeemed>>
  PROVE  CodeInv'
BY DEF CodeInv, FreshUnused, SingleUse

LEMMA RowSteps ==
  ASSUME CodeInv, NEW s \in Sessions,
         \/ Enroll(s) \/ Regenerate(s) \/ Disable(s) \/ Login(s) \/ Rejected(s)
         \/ Enable(s) \/ EnableWrite(s) \/ DisableRow(s) \/ Crash(s)
  PROVE  CodeInv'
<1>1. TypeOK
  BY DEF CodeInv
<1>2. UNCHANGED <<codes, used, redeemed>>
  BY DEF Enroll, Regenerate, Disable, Login, Rejected, Enable, EnableWrite, DisableRow,
         Crash, database, history, PendingProven, ShowsToken
<1>3. totp' \in Row
  BY <1>1, Typed DEF Enroll, Regenerate, Disable, Login, Rejected, Enable, EnableWrite,
     DisableRow, Crash, database, TypeOK, Row, Secret
<1>4. /\ app' \subseteq Secrets /\ sheet' \subseteq Codes /\ warned' \in BOOLEAN
      /\ proven' \subseteq Secrets
  BY <1>1 DEF Enroll, Regenerate, Disable, Login, Rejected, Enable, EnableWrite,
     DisableRow, Crash, database, user, history, PendingProven, ShowsToken, TypeOK
<1>5. req' \in [Sessions -> Request]
  <2>1. \/ Done(s)
        \/ \E pc \in ManagePCs \union {"login"} : Goto(s, pc) \/ Reads(s, pc)
    BY DEF Enroll, Regenerate, Disable, Login, Rejected, Enable, EnableWrite, DisableRow,
           Crash, ManagePCs
  <2> QED
    BY <1>1, <2>1, ReqTyped
<1>6. TypeOK'
  BY <1>1, <1>2, <1>3, <1>4, <1>5 DEF TypeOK
<1> QED
  BY <1>2, <1>6, CodesKept

LEMMA FactorSteps ==
  ASSUME CodeInv, NEW s \in Sessions, EnrollAuth(s) \/ DisableAuth(s) \/ LoginVerify(s)
  PROVE  CodeInv'
<1>1. TypeOK /\ SecondFactor(s) /\ UNCHANGED <<totp, user>>
  BY DEF CodeInv, EnrollAuth, DisableAuth, LoginVerify
<1>2. req' \in [Sessions -> Request]
  BY <1>1, ReqTyped DEF EnrollAuth, DisableAuth, LoginVerify, ManagePCs
<1>3. TypeOK'
  BY <1>1, <1>2, FactorStep DEF TypeOK, user
<1> QED
  BY <1>1, <1>3, FactorStep DEF CodeInv

LEMMA EnrollStep ==
  ASSUME CodeInv, NEW s \in Sessions, EnrollWrite(s)
  PROVE  CodeInv'
<1>1. TypeOK
  BY DEF CodeInv
<1>2. PICK k \in Secrets \ SecretsInUse :
        /\ totp' = WithPending(k)
        /\ proven' = proven \ {k}
        /\ app' = app \union {k} \/ UNCHANGED app
  BY DEF EnrollWrite
<1>3. totp' \in Row
  BY <1>1, <1>2 DEF WithPending, TypeOK, Row, Secret
<1>4. Done(s) /\ UNCHANGED <<codes, used, sheet, warned, redeemed>>
  BY DEF EnrollWrite
<1>5. TypeOK'
  BY <1>1, <1>2, <1>3, <1>4, ReqTyped DEF TypeOK
<1> QED
  BY <1>4, <1>5, CodesKept

\* A new batch replaces the old one in two steps.
LEMMA CodeSteps ==
  ASSUME CodeInv, NEW s \in Sessions, CodesDelete(s) \/ DisableCodes(s) \/ CodesInsert(s)
  PROVE  CodeInv'
<1>1. TypeOK /\ FreshUnused /\ SingleUse
  BY DEF CodeInv
<1>2. req' \in [Sessions -> Request]
  BY <1>1, ReqTyped DEF CodesDelete, DisableCodes, CodesInsert, ManagePCs
<1>3. CASE CodesDelete(s) \/ DisableCodes(s)
  <2>1. codes' = {} /\ used' = {} /\ UNCHANGED <<totp, app, sheet, warned, proven, redeemed>>
    BY <1>3 DEF CodesDelete, DisableCodes, user, history
  <2> QED
    BY <1>1, <1>2, <2>1 DEF CodeInv, TypeOK, FreshUnused, SingleUse
<1>4. CASE CodesInsert(s)
  <2>1. PICK b \in Sheets :
          /\ codes' = codes \union SheetOf(b) /\ sheet' \in {sheet, SheetOf(b)}
          /\ warned' \in BOOLEAN
          /\ redeemed' = [c \in Codes |-> IF c \in SheetOf(b) THEN 0 ELSE redeemed[c]]
    BY <1>4 DEF CodesInsert, WithBatch
  <2>2. UNCHANGED <<totp, used, app, proven>>
    BY <1>4 DEF CodesInsert
  <2>3. SheetOf(b) \subseteq Codes
    BY Typed
  <2>4. TypeOK'
    BY <1>1, <1>2, <2>1, <2>2, <2>3 DEF TypeOK
  <2>5. SingleUse'
    BY <1>1, <2>1 DEF SingleUse, TypeOK
  <2>6. FreshUnused'
    BY <1>1, <2>1, <2>2, <2>3 DEF FreshUnused, TypeOK
  <2> QED
    BY <2>4, <2>5, <2>6 DEF CodeInv
<1> QED
  BY <1>3, <1>4

LEMMA CodeInit == Init => CodeInv
<1> SUFFICES ASSUME Init PROVE CodeInv
  OBVIOUS
<1>1. TypeOK
  BY Typed DEF Init, TypeOK
<1> QED
  BY <1>1 DEF Init, CodeInv, FreshUnused, SingleUse

LEMMA CodeNext == CodeInv /\ [Next]_vars => CodeInv'
<1> SUFFICES ASSUME CodeInv, [Next]_vars PROVE CodeInv'
  OBVIOUS
<1>1. CASE UNCHANGED vars
  <2>1. TypeOK'
    BY <1>1 DEF CodeInv, TypeOK, vars, database, user, history
  <2> QED
    BY <1>1, <2>1, CodesKept DEF vars, database, history
<1>2. CASE \E s \in Sessions :
             \/ Enroll(s) \/ Regenerate(s) \/ Disable(s) \/ Login(s) \/ Rejected(s)
             \/ Enable(s) \/ EnableWrite(s) \/ DisableRow(s) \/ Crash(s)
  BY <1>2, RowSteps
<1>3. CASE \E s \in Sessions : EnrollAuth(s) \/ DisableAuth(s) \/ LoginVerify(s)
  BY <1>3, FactorSteps
<1>4. CASE \E s \in Sessions : EnrollWrite(s)
  BY <1>4, EnrollStep
<1>5. CASE \E s \in Sessions : CodesDelete(s) \/ DisableCodes(s) \/ CodesInsert(s)
  BY <1>5, CodeSteps
<1> QED
  BY <1>1, <1>2, <1>3, <1>4, <1>5 DEF Next

LEMMA CodeInvariant == Spec => []CodeInv
BY CodeInit, CodeNext, PTL DEF Spec

-----------------------------------------------------------------------------
(* No change locks the account out.                                        *)

\* The types hold always, so they may be used of both ends of a step.
Stable == TypeOK /\ TypeOK'

LEMMA NobodyBusy ==
  ASSUME Managing = 1, NEW s \in Sessions, Manages(s)
  PROVE  Busy = {}
<1>1. IsFiniteSet(Busy)
  BY TwoFactorAssumption, FS_Subset DEF Busy
<1>2. Cardinality(Busy) \in Nat /\ Cardinality(Busy) < 1
  BY <1>1, FS_CardinalityType DEF Manages
<1> QED
  BY <1>1, <1>2, FS_EmptySet

\* How a request may change: it begins when none is under way, it goes on, or it
\* comes to an end.
LEMMA OneStep ==
  ASSUME Stable, OneManages, NEW s \in Sessions,
         \A t \in Sessions \ {s} : req'[t] = req[t],
         req'[s].pc \in ManagePCs => s \in Busy \/ Busy = {}
  PROVE  OneManages'
BY DEF OneManages, Busy

LEMMA ReqOf ==
  ASSUME Stable, NEW s \in Sessions, NEW pc, Done(s) \/ Goto(s, pc) \/ Reads(s, pc)
  PROVE  /\ \A t \in Sessions \ {s} : req'[t] = req[t]
         /\ req'[s].pc \in {"idle", pc}
<1>1. req \in [Sessions -> Request]
  BY DEF Stable, TypeOK
<1>2. CASE Done(s)
  BY <1>1, <1>2 DEF Done, Idle
<1>3. CASE Goto(s, pc)
  BY <1>1, <1>3 DEF Goto, Request
<1>4. CASE Reads(s, pc)
  BY <1>1, <1>4 DEF Reads
<1> QED
  BY <1>2, <1>3, <1>4

\* Steps that leave the row alone and send no request to enable anything.
LEMMA RowKept ==
  ASSUME Stable, LockInv, UNCHANGED totp, proven \subseteq proven', OneManages',
         \A s \in Sessions : req'[s].pc = "enable_write" => req[s].pc = "enable_write"
  PROVE  LockInv'
BY DEF Stable, LockInv, EnablesProven, NoLockout

LEMMA BeginSteps ==
  ASSUME Managing = 1, Stable, LockInv, NEW s \in Sessions,
         Enroll(s) \/ Regenerate(s) \/ Disable(s)
  PROVE  LockInv'
<1>1. Busy = {}
  BY NobodyBusy DEF Enroll, Regenerate, Disable
<1>2. \E pc \in {"enroll_auth", "enroll_write", "codes_delete", "disable_auth"} :
        Reads(s, pc)
  BY DEF Enroll, Regenerate, Disable
<1>3. /\ \A t \in Sessions \ {s} : req'[t] = req[t]
      /\ req'[s].pc # "enable_write"
  BY <1>2, ReqOf
<1>4. OneManages'
  BY <1>1, <1>3, OneStep DEF LockInv
<1>5. UNCHANGED <<totp, proven>>
  BY DEF Enroll, Regenerate, Disable, database, history
<1> QED
  BY <1>3, <1>4, <1>5, RowKept

\* The code shown proves the secret that is pending, and stays pending as nothing
\* else is under way.
LEMMA EnableStep ==
  ASSUME Managing = 1, Stable, LockInv, NEW s \in Sessions, Enable(s)
  PROVE  LockInv'
<1>1. Busy = {}
  BY NobodyBusy DEF Enable
<1>2. \A t \in Sessions \ {s} : req'[t] = req[t]
  BY ReqOf DEF Enable
<1>3. OneManages'
  BY <1>1, <1>2, OneStep DEF LockInv
<1>4. UNCHANGED totp /\ proven' = proven \union {totp.pending}
  BY DEF Enable, PendingProven, ShowsToken
<1> QED
  BY <1>3, <1>4 DEF Stable, LockInv, EnablesProven, NoLockout

LEMMA EnableWriteStep ==
  ASSUME Stable, LockInv, NEW s \in Sessions, EnableWrite(s)
  PROVE  LockInv'
<1>1. s \in Busy /\ totp.pending \in proven
  BY DEF LockInv, EnableWrite, EnablesProven, Busy, ManagePCs
<1>2. /\ \A t \in Sessions \ {s} : req'[t] = req[t]
      /\ req'[s].pc \in {"idle", "codes_delete"}
  BY ReqOf DEF EnableWrite
<1>3. OneManages'
  BY <1>1, <1>2, OneStep DEF LockInv
<1>4. \A t \in Sessions : req'[t].pc # "enable_write"
  BY <1>1, <1>2 DEF LockInv, OneManages, Busy, ManagePCs
<1>5. proven' = proven /\ (totp'.enabled => totp'.secret \in proven)
  BY <1>1 DEF EnableWrite, history, LockInv, NoLockout, TypeOK, Row
<1> QED
  BY <1>3, <1>4, <1>5 DEF Stable, LockInv, EnablesProven, NoLockout

\* A new secret is none that is in use: the active one stays proven.
LEMMA EnrollWriteStep ==
  ASSUME Stable, LockInv, NEW s \in Sessions, EnrollWrite(s)
  PROVE  LockInv'
<1>1. PICK k \in Secrets \ SecretsInUse :
        totp' = WithPending(k) /\ proven' = proven \ {k}
  BY DEF EnrollWrite
<1>2. s \in Busy /\ \A t \in Sessions \ {s} : req'[t] = req[t]
  BY ReqOf DEF EnrollWrite, Busy, ManagePCs
<1>3. OneManages'
  BY <1>2, OneStep DEF LockInv
<1>4. req'[s].pc = "idle"
  BY DEF EnrollWrite, Done, Stable, TypeOK, Idle
<1>5. \A t \in Sessions : req'[t].pc # "enable_write"
  BY <1>2, <1>4 DEF LockInv, OneManages, Busy, ManagePCs
<1>6. totp'.enabled = totp.enabled /\ totp'.secret = totp.secret /\ k # totp.secret
  BY <1>1 DEF WithPending, SecretsInUse, LockInv, TypeOK, Row
<1> QED
  BY <1>1, <1>3, <1>5, <1>6 DEF Stable, LockInv, EnablesProven, NoLockout

LEMMA DisableRowStep ==
  ASSUME Stable, LockInv, NEW s \in Sessions, DisableRow(s)
  PROVE  LockInv'
<1>1. s \in Busy /\ \A t \in Sessions \ {s} : req'[t] = req[t]
  BY ReqOf DEF DisableRow, Busy, ManagePCs
<1>2. req'[s].pc = "idle"
  BY DEF DisableRow, Done, Stable, TypeOK, Idle
<1>3. OneManages'
  BY <1>1, OneStep DEF LockInv
<1>4. \A t \in Sessions : req'[t].pc # "enable_write"
  BY <1>1, <1>2 DEF LockInv, OneManages, Busy, ManagePCs
<1>5. ~totp'.enabled
  BY DEF DisableRow, NoRow
<1> QED
  BY <1>3, <1>4, <1>5 DEF Stable, LockInv, EnablesProven, NoLockout

\* The rest: a request goes on, ends, or signs in.
LEMMA OtherSteps ==
  ASSUME Stable, LockInv, NEW s \in Sessions,
         \/ EnrollAuth(s) \/ CodesDelete(s) \/ CodesInsert(s)
         \/ DisableAuth(s) \/ DisableCodes(s)
         \/ Login(s) \/ LoginVerify(s) \/ Rejected(s) \/ Crash(s)
  PROVE  LockInv'
<1>1. UNCHANGED totp /\ proven \subseteq proven'
  BY DEF EnrollAuth, CodesDelete, CodesInsert, DisableAuth, DisableCodes, Login,
         LoginVerify, Rejected, Crash, database, history, SecondFactor, ShowsToken,
         ShowsRecoveryCode
<1>2. \E pc \in {"enroll_write", "codes_insert", "disable_codes", "disable_row",
                 "login"} :
        /\ Done(s) \/ Goto(s, pc) \/ Reads(s, pc)
        /\ pc # "login" => s \in Busy
  BY DEF EnrollAuth, CodesDelete, CodesInsert, DisableAuth, DisableCodes, Login,
         LoginVerify, Rejected, Crash, Busy, ManagePCs
<1>3. /\ \A t \in Sessions \ {s} : req'[t] = req[t]
      /\ req'[s].pc # "enable_write"
      /\ req'[s].pc \in {"idle", "login"} \/ s \in Busy
  BY <1>2, ReqOf
<1>4. OneManages'
  BY <1>3, OneStep DEF LockInv, ManagePCs
<1> QED
  BY <1>1, <1>3, <1>4, RowKept

LEMMA LockNext ==
  ASSUME Managing = 1
  PROVE  Stable /\ LockInv /\ [Next]_vars => LockInv'
<1> SUFFICES ASSUME Stable, LockInv, [Next]_vars PROVE LockInv'
  OBVIOUS
<1>1. CASE UNCHANGED vars
  BY <1>1 DEF Stable, LockInv, OneManages, Busy, EnablesProven, NoLockout, vars,
     database, user, history
<1>2. CASE \E s \in Sessions : Enroll(s) \/ Regenerate(s) \/ Disable(s)
  BY <1>2, BeginSteps
<1>3. CASE \E s \in Sessions : Enable(s)
  BY <1>3, EnableStep
<1>4. CASE \E s \in Sessions : EnableWrite(s)
  BY <1>4, EnableWriteStep
<1>5. CASE \E s \in Sessions : EnrollWrite(s)
  BY <1>5, EnrollWriteStep
<1>6. CASE \E s \in Sessions : DisableRow(s)
  BY <1>6, DisableRowStep
<1>7. CASE \E s \in Sessions :
             \/ EnrollAuth(s) \/ CodesDelete(s) \/ CodesInsert(s)
             \/ DisableAuth(s) \/ DisableCodes(s)
             \/ Login(s) \/ LoginVerify(s) \/ Rejected(s) \/ Crash(s)
  BY <1>7, OtherSteps
<1> QED
  BY <1>1, <1>2, <1>3, <1>4, <1>5, <1>6, <1>7 DEF Next

\* A sheet works, or is dead for a request that stands or has stopped half done.
LEMMA WorkNext == TypeOK /\ TypeOK' /\ CodesWork /\ [Next]_vars => CodesWork'
<1> SUFFICES ASSUME TypeOK, TypeOK', CodesWork, [Next]_vars PROVE CodesWork'
  OBVIOUS
<1>1. CASE UNCHANGED vars
  BY <1>1 DEF CodesWork, vars, database, user, HalfDone
<1>2. ASSUME NEW s \in Sessions, UNCHANGED <<codes, sheet>>, warned => warned',
             HalfDone(s) => warned', \A t \in Sessions \ {s} : req'[t] = req[t]
      PROVE  CodesWork'
  BY <1>2 DEF CodesWork, HalfDone
<1>3. ASSUME NEW s \in Sessions,
             \/ Enroll(s) \/ Regenerate(s) \/ Disable(s) \/ Login(s) \/ Rejected(s)
             \/ Enable(s) \/ EnableWrite(s) \/ EnrollWrite(s)
             \/ EnrollAuth(s) \/ DisableAuth(s) \/ LoginVerify(s)
      PROVE  CodesWork'
  <2>1. ~HalfDone(s)
    BY <1>3 DEF Enroll, Regenerate, Disable, Login, Rejected, Enable, EnableWrite,
       EnrollWrite, EnrollAuth, DisableAuth, LoginVerify, Manages, HalfDone
  <2>2. UNCHANGED <<codes, sheet, warned>>
    BY <1>3 DEF Enroll, Regenerate, Disable, Login, Rejected, Enable, EnableWrite,
       EnrollWrite, EnrollAuth, DisableAuth, LoginVerify, database, user, history,
       PendingProven, SecondFactor, ShowsToken, ShowsRecoveryCode
  <2>3. \E pc : Done(s) \/ Goto(s, pc) \/ Reads(s, pc)
    BY <1>3 DEF Enroll, Regenerate, Disable, Login, Rejected, Enable, EnableWrite,
       EnrollWrite, EnrollAuth, DisableAuth, LoginVerify
  <2> QED
    BY <1>2, <2>1, <2>2, <2>3, ReqOf DEF Stable
<1>4. ASSUME NEW s \in Sessions, CodesDelete(s) \/ DisableCodes(s)
      PROVE  CodesWork'
  <2>1. codes' = {} /\ (Goto(s, "codes_insert") \/ Goto(s, "disable_row"))
    BY <1>4 DEF CodesDelete, DisableCodes
  <2>2. HalfDone(s)'
    BY <2>1 DEF Goto, TypeOK, Request, HalfDone
  <2> QED
    BY <2>1, <2>2 DEF CodesWork
<1>5. ASSUME NEW s \in Sessions, CodesInsert(s)
      PROVE  CodesWork'
  <2>1. PICK b \in Sheets \ SheetsInUse :
          /\ codes' = codes \union SheetOf(b)
          /\ sheet' = SheetOf(b) \/ (sheet' = sheet /\ warned')
    BY <1>5 DEF CodesInsert, WithBatch
  <2>2. sheet \intersect SheetOf(b) = {}
    BY <2>1 DEF SheetsInUse, SheetOf
  <2> QED
    BY <2>1, <2>2 DEF CodesWork
<1>6. ASSUME NEW s \in Sessions, DisableRow(s)
      PROVE  CodesWork'
  BY <1>6 DEF DisableRow, CodesWork
<1>7. ASSUME NEW s \in Sessions, Crash(s)
      PROVE  CodesWork'
  <2>1. /\ UNCHANGED <<codes, sheet>> /\ (warned => warned') /\ (HalfDone(s) => warned')
        /\ Done(s)
    BY <1>7 DEF Crash, database
  <2> QED
    BY <1>2, <2>1, ReqOf DEF Stable
<1> QED
  BY <1>1, <1>3, <1>4, <1>5, <1>6, <1>7 DEF Next

-----------------------------------------------------------------------------
(* Results.                                                                *)

\* The rows, the requests and the user's own records keep their types; among them,
\* only a code that is there is used (totp.ts).
THEOREM TypeCorrect == Spec => []TypeOK
<1>1. CodeInv => TypeOK
  BY DEF CodeInv
<1> QED
  BY <1>1, CodeInvariant, PTL

\* A recovery code is accepted once, however many requests present it at a time and
\* however many batches replace each other (consumeRecoveryCode).
THEOREM CodesOnce == Spec => []SingleUse
<1>1. CodeInv => SingleUse
  BY DEF CodeInv
<1> QED
  BY <1>1, CodeInvariant, PTL

\* The sheet that the user was shown last is dead only while a request stands between
\* the two halves of a replacement or a removal, or after one has stopped there or lost
\* its answer; and it is never dead in part, however many requests replace each other
\* (replaceRecoveryCodes, handleTotpDisable).
THEOREM SheetWorks == Spec => []CodesWork
<1>1. Init => CodesWork
  BY DEF Init, CodesWork
<1> QED
  BY <1>1, WorkNext, TypeCorrect, PTL DEF Spec

\* When one request at a time changes the second factor, with any number of sign-ins
\* beside it and crashes anywhere, a code is asked for only against a secret that an
\* authenticator has produced one of (handleTotpEnable).
THEOREM NeverLockedOut ==
  ASSUME Managing = 1
  PROVE  Spec => []NoLockout
<1>1. Init /\ TypeOK => LockInv
  BY DEF Init, LockInv, OneManages, Busy, EnablesProven, NoLockout, NoRow, Idle, ManagePCs
<1>2. TypeOK /\ TypeOK' /\ LockInv /\ [Next]_vars => LockInv'
  BY LockNext DEF Stable
<1>3. LockInv => NoLockout
  BY DEF LockInv
<1> QED
  BY <1>1, <1>2, <1>3, TypeCorrect, PTL DEF Spec
=============================================================================
