------------------------- MODULE RateLimiterProofs -------------------------
(***************************************************************************)
(* Proofs about RateLimiter, for any subjects, handlers, policies, decay   *)
(* window and ceilings.                                                    *)
(***************************************************************************)
EXTENDS RateLimiter, Integers, FiniteSetTheorems, WellFoundedInduction, TLAPS

(* Powers of two.  Induction is drawn from the well-foundedness of the      *)
(* numbers, which the library states of sets.                               *)

\* A set of numbers has a least one.
LEMMA LeastNumber ==
  ASSUME NEW T \in SUBSET Nat, T # {}
  PROVE  \E x \in T : \A y \in T : ~(y < x)
<1> DEFINE R == {p \in Nat \X Nat : p[1] < p[2]}
<1>1. IsWellFoundedOn(R, Nat)
  BY NatLessThanWellFounded DEF OpToRel
<1>2. \E x \in T : \A y \in T : ~(<<y, x>> \in R)
  <2> HIDE DEF R
  <2> QED BY <1>1, WFMin
<1> QED BY <1>2

\* Induction, for a set of numbers: the least number outside it would be a successor.
LEMMA Induction ==
  ASSUME NEW S \in SUBSET Nat, 0 \in S, \A n \in S : n + 1 \in S
  PROVE  S = Nat
<1> SUFFICES ASSUME Nat \ S # {} PROVE FALSE
  OBVIOUS
<1>1. PICK x \in Nat \ S : \A y \in Nat \ S : ~(y < x)
  <2>1. Nat \ S \in SUBSET Nat
    OBVIOUS
  <2> QED BY <2>1, LeastNumber
<1>2. x # 0 /\ x - 1 \in Nat
  OBVIOUS
<1>3. x - 1 \in S
  BY <1>1, <1>2
<1>4. (x - 1) + 1 = x
  BY <1>2
<1> QED BY <1>3, <1>4

Doubles(g, n) == g \in [0..n -> Nat] /\ g[0] = 1 /\ \A i \in 1..n : g[i] = 2 * g[i - 1]

LEMMA DoublesExist == \A n \in Nat : \E g : Doubles(g, n)
<1> DEFINE S == {n \in Nat : \E g : Doubles(g, n)}
<1>1. 0 \in S
  <2>1. Doubles([i \in 0..0 |-> 1], 0)
    BY DEF Doubles
  <2> QED BY <2>1
<1>2. ASSUME NEW n \in S PROVE n + 1 \in S
  <2>1. PICK g : Doubles(g, n)
    OBVIOUS
  <2> DEFINE h == [i \in 0..(n + 1) |-> IF i = n + 1 THEN 2 * g[n] ELSE g[i]]
  <2>2. n \in Nat /\ g[n] \in Nat
    BY <2>1 DEF Doubles
  <2>3. h \in [0..(n + 1) -> Nat]
    BY <2>1, <2>2 DEF Doubles
  <2>4. h[0] = 1
    BY <2>1, <2>2 DEF Doubles
  <2>5. ASSUME NEW i \in 1..(n + 1) PROVE h[i] = 2 * h[i - 1]
    <3>1. CASE i = n + 1
      <4>1. h[i] = 2 * g[n] /\ h[i - 1] = g[n]
        BY <2>2, <3>1
      <4> QED BY <4>1
    <3>2. CASE i # n + 1
      <4>1. i \in 1..n /\ i - 1 \in 0..n
        BY <2>2, <3>2
      <4>2. h[i] = g[i] /\ h[i - 1] = g[i - 1]
        BY <2>2, <4>1
      <4> QED BY <2>1, <4>1, <4>2 DEF Doubles
    <3> QED BY <3>1, <3>2
  <2> HIDE DEF h
  <2>6. Doubles(h, n + 1)
    BY <2>3, <2>4, <2>5 DEF Doubles
  <2> QED BY <2>2, <2>6
<1>3. S = Nat
  <2> HIDE DEF S
  <2>1. S \in SUBSET Nat
    BY DEF S
  <2> QED BY <1>1, <1>2, <2>1, Induction
<1> QED BY <1>3

LEMMA DoublesAgree ==
  ASSUME NEW n \in Nat, NEW m \in Nat, n <= m, NEW g, NEW h, Doubles(g, n), Doubles(h, m)
  PROVE  g[n] = h[n]
<1> DEFINE S == {i \in Nat : i <= n => g[i] = h[i]}
<1>1. 0 \in S
  BY DEF Doubles
<1>2. ASSUME NEW i \in S PROVE i + 1 \in S
  <2> SUFFICES ASSUME i + 1 <= n PROVE g[i + 1] = h[i + 1]
    OBVIOUS
  <2>1. i + 1 \in 1..n /\ i + 1 \in 1..m /\ (i + 1) - 1 = i /\ i <= n
    OBVIOUS
  <2>2. g[i + 1] = 2 * g[i] /\ h[i + 1] = 2 * h[i]
    BY <2>1 DEF Doubles
  <2> QED BY <2>1, <2>2
<1>3. S = Nat
  <2> HIDE DEF S
  <2>1. S \in SUBSET Nat
    BY DEF S
  <2> QED BY <1>1, <1>2, <2>1, Induction
<1> QED BY <1>3

\* The recursive definition has a solution, and so PowerOfTwo is one.
LEMMA PowerDef == PowerOfTwo = [n \in Nat |-> IF n = 0 THEN 1 ELSE 2 * PowerOfTwo[n - 1]]
<1> DEFINE G(n) == CHOOSE g : Doubles(g, n)
<1> DEFINE f == [n \in Nat |-> G(n)[n]]
<1>1. \A n \in Nat : Doubles(G(n), n)
  BY DoublesExist
<1>2. ASSUME NEW n \in Nat PROVE f[n] = IF n = 0 THEN 1 ELSE 2 * f[n - 1]
  <2>1. f[n] = G(n)[n]
    OBVIOUS
  <2>2. CASE n = 0
    <3>1. Doubles(G(n), n)
      BY <1>1
    <3> HIDE DEF G
    <3> QED BY <2>1, <2>2, <3>1 DEF Doubles
  <2>3. CASE n # 0
    <3>1. n - 1 \in Nat /\ n \in 1..n /\ n - 1 <= n
      BY <2>3
    <3>2. Doubles(G(n), n) /\ Doubles(G(n - 1), n - 1)
      BY <1>1, <3>1
    <3>3. f[n - 1] = G(n - 1)[n - 1]
      BY <3>1
    <3> HIDE DEF G
    <3>4. G(n - 1)[n - 1] = G(n)[n - 1]
      BY <3>1, <3>2, DoublesAgree
    <3>5. G(n)[n] = 2 * G(n)[n - 1]
      BY <3>1, <3>2 DEF Doubles
    <3> QED BY <2>1, <2>3, <3>3, <3>4, <3>5
  <2> QED BY <2>2, <2>3
<1>3. f = [n \in Nat |-> IF n = 0 THEN 1 ELSE 2 * f[n - 1]]
  <2> HIDE DEF G
  <2>1. f = [n \in Nat |-> f[n]]
    OBVIOUS
  <2> HIDE DEF f
  <2> QED BY <1>2, <2>1
<1>4. \E p : p = [n \in Nat |-> IF n = 0 THEN 1 ELSE 2 * p[n - 1]]
  <2> HIDE DEF f
  <2> QED BY <1>3
<1> QED BY <1>4 DEF PowerOfTwo

LEMMA PowerFacts ==
  /\ \A n \in Nat : PowerOfTwo[n] \in Nat
  /\ \A n \in Nat : PowerOfTwo[n + 1] = 2 * PowerOfTwo[n]
<1>1. \A n \in Nat : PowerOfTwo[n] = IF n = 0 THEN 1 ELSE 2 * PowerOfTwo[n - 1]
  BY PowerDef
<1>2. ASSUME NEW n \in Nat PROVE PowerOfTwo[n + 1] = 2 * PowerOfTwo[n]
  <2>1. n + 1 \in Nat /\ n + 1 # 0 /\ (n + 1) - 1 = n
    OBVIOUS
  <2> QED BY <1>1, <2>1
<1> DEFINE S == {n \in Nat : PowerOfTwo[n] \in Nat}
<1>3. 0 \in S
  BY <1>1
<1>4. ASSUME NEW n \in S PROVE n + 1 \in S
  BY <1>2
<1>5. S = Nat
  <2> HIDE DEF S
  <2>1. S \in SUBSET Nat
    BY DEF S
  <2> QED BY <1>3, <1>4, <2>1, Induction
<1> QED BY <1>2, <1>5

LEMMA PowerGrows == \A m, n \in Nat : m <= n => PowerOfTwo[m] <= PowerOfTwo[n]
<1> SUFFICES ASSUME NEW m \in Nat PROVE \A n \in Nat : m <= n => PowerOfTwo[m] <= PowerOfTwo[n]
  OBVIOUS
<1> DEFINE S == {n \in Nat : m <= n => PowerOfTwo[m] <= PowerOfTwo[n]}
<1>1. 0 \in S
  BY PowerFacts
<1>2. ASSUME NEW n \in S PROVE n + 1 \in S
  <2>1. CASE m = n + 1
    BY <2>1, PowerFacts
  <2>2. CASE m # n + 1
    BY <2>2, PowerFacts
  <2> QED BY <2>1, <2>2
<1>3. S = Nat
  <2> HIDE DEF S
  <2>1. S \in SUBSET Nat
    BY DEF S
  <2> QED BY <1>1, <1>2, <2>1, Induction
<1> QED BY <1>3

-----------------------------------------------------------------------------
(* The backoff.                                                            *)

\* A product grows with its factor.
LEMMA Products ==
  ASSUME NEW b \in Nat, NEW x \in Nat, NEW y \in Nat, x <= y
  PROVE  b * x \in Nat /\ b * x <= b * y
OBVIOUS

\* The lockout is none below the threshold, grows with the failures and stays
\* below the ceiling.
LEMMA LockoutFacts ==
  ASSUME NEW s \in Subjects
  PROVE  /\ \A n \in Nat : LockoutFor(n, s) \in 0..MaxLockout
         /\ \A m, n \in Nat : m <= n => LockoutFor(m, s) <= LockoutFor(n, s)
         /\ LockoutFor(0, s) = 0
<1>1. /\ Threshold[s] \in Nat \ {0} /\ Base[s] \in Nat \ {0}
      /\ MaxLockout \in Nat \ {0} /\ MaxSteps \in Nat
  BY RateLimiterAssumption
<1>2. ASSUME NEW n \in Nat, n >= Threshold[s]
      PROVE  /\ AtMost(n - Threshold[s], MaxSteps) \in Nat
             /\ Doubled(n, s) \in Nat
  <2>1. AtMost(n - Threshold[s], MaxSteps) \in Nat
    BY <1>1, <1>2 DEF AtMost
  <2>2. PowerOfTwo[AtMost(n - Threshold[s], MaxSteps)] \in Nat
    BY <2>1, PowerFacts
  <2> QED BY <1>1, <2>1, <2>2, Products DEF Doubled
<1>3. \A n \in Nat : LockoutFor(n, s) \in 0..MaxLockout
  BY <1>1, <1>2 DEF LockoutFor, AtMost
<1>4. ASSUME NEW m \in Nat, NEW n \in Nat, m <= n
      PROVE  LockoutFor(m, s) <= LockoutFor(n, s)
  <2>1. CASE m < Threshold[s]
    <3>1. LockoutFor(m, s) = 0
      BY <2>1 DEF LockoutFor
    <3>2. LockoutFor(n, s) \in 0..MaxLockout
      BY <1>3
    <3> QED BY <1>1, <3>1, <3>2
  <2>2. CASE m >= Threshold[s]
    <3> DEFINE i == AtMost(m - Threshold[s], MaxSteps)
               j == AtMost(n - Threshold[s], MaxSteps)
    <3>1. n >= Threshold[s]
      BY <1>1, <1>4, <2>2
    <3>2. i \in Nat /\ j \in Nat
      BY <1>2, <2>2, <3>1
    <3>3. i <= j
      BY <1>1, <1>4, <2>2 DEF AtMost
    <3>4. Doubled(m, s) = Base[s] * PowerOfTwo[i] /\ Doubled(n, s) = Base[s] * PowerOfTwo[j]
      BY DEF Doubled
    <3> HIDE DEF i, j
    <3>5. PowerOfTwo[i] \in Nat /\ PowerOfTwo[j] \in Nat /\ PowerOfTwo[i] <= PowerOfTwo[j]
      BY <3>2, <3>3, PowerFacts, PowerGrows
    <3>6. Doubled(m, s) <= Doubled(n, s)
      BY <1>1, <3>4, <3>5, Products
    <3>7. Doubled(m, s) \in Nat /\ Doubled(n, s) \in Nat
      BY <1>2, <2>2, <3>1
    <3>8. /\ LockoutFor(m, s) = AtMost(Doubled(m, s), MaxLockout)
          /\ LockoutFor(n, s) = AtMost(Doubled(n, s), MaxLockout)
      BY <1>1, <2>2, <3>1 DEF LockoutFor
    <3> QED BY <1>1, <3>6, <3>7, <3>8 DEF AtMost
  <2> QED BY <1>1, <2>1, <2>2
<1>5. LockoutFor(0, s) = 0
  BY <1>1 DEF LockoutFor
<1> QED BY <1>3, <1>4, <1>5

-----------------------------------------------------------------------------
(* The inductive invariant.                                                *)

\* A record x of subject s with its alarm due in a: the lockout is no longer than
\* the failures earn; the alarm goes off neither before its end nor before the end
\* of the decay window; what the lockout has run down has passed since the last
\* failure.
Fits(x, a, s) ==
  /\ x.locked <= LockoutFor(x.failures, s)
  /\ x.failures > 0 =>
       /\ a >= x.locked /\ a + x.idle >= Decay
       /\ x.idle = Decay + 1 \/ x.locked + x.idle >= LockoutFor(x.failures, s)

\* But for the last failure and the l late ones, the failures earn no lockout
\* beyond the decay window.
Tops(x, l, s) == x.failures > l + 1 => LockoutFor(x.failures - l - 1, s) <= Decay

ObjectsOK == \A s \in Subjects : Fits(store[s], alarm[s], s) /\ Tops(store[s], late[s], s)

\* A handler calls its own subjects.
CallersOK == \A c \in Clients : handler[c].todo \subseteq SubjectsOf[c]

\* A request that can still record a failure with s although s is locked out: it
\* was past its check.
Past(r, s) ==
  \/ r.pc = "peek" /\ s \notin r.todo /\ ~r.blocked
  \/ r.pc = "verify"
  \/ r.pc = "fail" /\ s \in r.todo
Pending(s) == {c \in ClientsOf(s) : Past(handler[c], s)}

\* The one whose failure began the lockout is neither late nor pending, and each
\* late failure takes one away from those pending.
LateOK ==
  \A s \in Subjects :
    /\ late[s] > 0 => late[s] < Cardinality(ClientsOf(s))
    /\ store[s].locked > 0 => late[s] + Cardinality(Pending(s)) < Cardinality(ClientsOf(s))

Inv == TypeOK /\ ObjectsOK /\ CallersOK /\ LateOK

\* The constants are numbers.
LEMMA Numbers ==
  /\ MaxLockout \in Nat /\ MaxLockout > 0 /\ Decay \in Nat
  /\ MaxCount \in Nat /\ MaxCount > 0
BY RateLimiterAssumption

\* Sets of a subject's handlers are finite, and smaller ones have fewer elements.
LEMMA ClientCounts ==
  ASSUME NEW s \in Subjects, NEW A, NEW B, A \subseteq B, B \subseteq ClientsOf(s)
  PROVE  /\ Cardinality(A) \in Nat /\ Cardinality(B) \in Nat
         /\ Cardinality(ClientsOf(s)) \in Nat
         /\ Cardinality(A) <= Cardinality(B)
         /\ Cardinality(B) <= Cardinality(ClientsOf(s))
         /\ \A c \in B \ A : Cardinality(A) < Cardinality(B)
<1>1. IsFiniteSet(ClientsOf(s))
  <2>1. ClientsOf(s) \subseteq Clients /\ IsFiniteSet(Clients)
    BY RateLimiterAssumption DEF ClientsOf
  <2> QED BY <2>1, FS_Subset
<1>2. IsFiniteSet(B)
  BY <1>1, FS_Subset
<1>3. /\ IsFiniteSet(A) /\ Cardinality(A) <= Cardinality(B)
      /\ Cardinality(A) = Cardinality(B) => A = B
  BY <1>2, FS_Subset
<1>4. Cardinality(B) <= Cardinality(ClientsOf(s))
  BY <1>1, FS_Subset
<1>5. /\ Cardinality(A) \in Nat /\ Cardinality(B) \in Nat
      /\ Cardinality(ClientsOf(s)) \in Nat
  BY <1>1, <1>2, <1>3, FS_CardinalityType
<1> QED BY <1>3, <1>4, <1>5

\* Nothing is stored at first.
LEMMA InitInv == Init => Inv
<1> SUFFICES ASSUME Init PROVE Inv
  OBVIOUS
<1>1. Fresh \in Stored /\ Fresh.failures = 0 /\ Fresh.locked = 0 /\ Idle \in Request
  BY Numbers DEF Fresh, Stored, Idle, Request
<1>2. TypeOK
  BY <1>1, Numbers DEF Init, TypeOK
<1>3. ObjectsOK
  <2> SUFFICES ASSUME NEW s \in Subjects
               PROVE  Fits(store[s], alarm[s], s) /\ Tops(store[s], late[s], s)
    BY DEF ObjectsOK
  <2>1. store[s].failures = 0 /\ store[s].locked = 0 /\ late[s] = 0 /\ LockoutFor(0, s) = 0
    BY <1>1, LockoutFacts DEF Init
  <2> QED BY <2>1 DEF Fits, Tops
<1>4. CallersOK
  BY DEF Init, CallersOK, Idle
<1>5. LateOK
  BY <1>1 DEF Init, LateOK
<1> QED BY <1>2, <1>3, <1>4, <1>5 DEF Inv

-----------------------------------------------------------------------------
(* The objects.                                                            *)

\* What a subject's record, alarm and count of late failures may become.
Suits(x, a, l, s) ==
  /\ x \in Stored /\ a \in 0..(MaxLockout + Decay) /\ l \in 0..MaxCount
  /\ Fits(x, a, s) /\ Tops(x, l, s)

\* An object as it was, or wiped.
LEMMA FreshSuits ==
  ASSUME NEW s \in Subjects
  PROVE  /\ Suits(Fresh, 0, 0, s) /\ Fresh.failures = 0 /\ Fresh.locked = 0
         /\ TypeOK /\ ObjectsOK => Suits(store[s], alarm[s], late[s], s)
<1>1. Fresh \in Stored /\ Fresh.failures = 0 /\ Fresh.locked = 0
  BY Numbers DEF Fresh, Stored
<1>2. Suits(Fresh, 0, 0, s)
  <2>1. LockoutFor(0, s) = 0
    BY LockoutFacts
  <2> QED BY <1>1, <2>1, Numbers DEF Suits, Fits, Tops
<1> QED BY <1>1, <1>2 DEF Suits, TypeOK, ObjectsOK

\* One more failure.
LEMMA FailSuits ==
  ASSUME TypeOK, ObjectsOK, NEW s \in Subjects, Fail(s)
  PROVE  \E y, a, l :
           /\ store' = [store EXCEPT ![s] = y] /\ alarm' = [alarm EXCEPT ![s] = a]
           /\ late' = [late EXCEPT ![s] = l]
           /\ Suits(y, a, l, s)
           /\ y.locked >= store[s].locked
           /\ ~Forgiven(s) => y.failures = AtMost(store[s].failures + 1, MaxCount)
           /\ store[s].locked > 0 => l <= late[s] + 1
           /\ store[s].locked = 0 => l = 0
<1> DEFINE x == store[s]
           n == AtMost(Load(s).failures + 1, MaxCount)
           lockout == LockoutFor(n, s)
           y == [failures |-> n, locked |-> lockout, idle |-> 0]
           a == lockout + Decay
           l == IF Locked(s) THEN AtMost(late[s] + 1, MaxCount) ELSE 0
<1>1. /\ x \in Stored /\ Fits(x, alarm[s], s) /\ Tops(x, late[s], s)
      /\ alarm[s] \in Nat /\ late[s] \in 0..MaxCount
  BY Numbers DEF TypeOK, ObjectsOK
<1>2. /\ x.failures \in 0..MaxCount /\ x.locked \in 0..MaxLockout /\ x.idle \in 0..(Decay + 1)
  BY <1>1 DEF Stored
<1>3. Load(s) = IF x.locked = 0 /\ x.idle > Decay THEN Fresh ELSE x
  BY DEF Load, Forgiven
<1>4. /\ Load(s).failures \in 0..MaxCount
      /\ ~Forgiven(s) => Load(s).failures = x.failures
      /\ Forgiven(s) => Load(s).failures = 0
  BY <1>2, <1>3, Numbers DEF Forgiven, Fresh
<1>5. Locked(s) <=> x.locked > 0
  BY <1>2, <1>3 DEF Locked, Fresh
<1>6. /\ n \in 0..MaxCount /\ n > 0 /\ n <= Load(s).failures + 1
      /\ n >= Load(s).failures
  BY <1>4, Numbers DEF AtMost
<1>7. /\ l \in 0..MaxCount /\ (x.locked = 0 => l = 0)
      /\ x.locked > 0 => l = AtMost(late[s] + 1, MaxCount)
  BY <1>1, <1>2, <1>5, Numbers DEF AtMost
<1>8. x.locked > 0 => l <= late[s] + 1 /\ (l = late[s] + 1 \/ l = MaxCount)
  BY <1>1, <1>7, Numbers DEF AtMost
<1>9. lockout \in 0..MaxLockout
  BY <1>6, Numbers, LockoutFacts
<1>10. y.failures = n /\ y.locked = lockout /\ y.idle = 0 /\ y \in Stored
  BY <1>6, <1>9, Numbers DEF Stored
<1>11. /\ store' = [store EXCEPT ![s] = y] /\ alarm' = [alarm EXCEPT ![s] = a]
       /\ late' = [late EXCEPT ![s] = l]
  BY DEF Fail, AlarmAfter
<1>12. a \in 0..(MaxLockout + Decay) /\ a >= lockout /\ a >= Decay
  BY <1>9, Numbers
<1> HIDE DEF n, lockout, y, a, l
<1>13. lockout = LockoutFor(n, s)
  BY DEF lockout
<1>14. Fits(y, a, s)
  BY <1>9, <1>10, <1>12, <1>13, Numbers DEF Fits
<1>15. lockout >= x.locked /\ (~Forgiven(s) => n = AtMost(x.failures + 1, MaxCount))
  <2>1. CASE Forgiven(s)
    BY <2>1, <1>2, <1>9 DEF Forgiven
  <2>2. CASE ~Forgiven(s)
    <3>1. n >= x.failures
      BY <2>2, <1>4, <1>6
    <3>2. LockoutFor(x.failures, s) <= LockoutFor(n, s) /\ LockoutFor(x.failures, s) \in 0..MaxLockout
      <4>1. x.failures \in Nat /\ n \in Nat /\ x.failures <= n
        BY <3>1, <1>2, <1>6, Numbers
      <4> QED BY <4>1, LockoutFacts
    <3>3. n = AtMost(x.failures + 1, MaxCount)
      BY <2>2, <1>4 DEF n
    <3> QED BY <3>2, <3>3, <1>1, <1>2, <1>9, <1>13, Numbers DEF Fits
  <2> QED BY <2>1, <2>2
<1>16. Tops(y, l, s)
  <2> SUFFICES ASSUME n > l + 1 PROVE LockoutFor(n - l - 1, s) <= Decay
    BY <1>10 DEF Tops
  <2>1. n - l - 1 \in Nat
    BY <1>6, <1>7, Numbers
  <2>2. ~Forgiven(s) /\ x.failures > 0
    BY <1>2, <1>4, <1>6, <1>7, Numbers
  <2>3. CASE x.locked = 0
    <3>1. l = 0 /\ x.idle <= Decay
      BY <2>2, <2>3, <1>2, <1>7, Numbers DEF Forgiven
    <3>2. LockoutFor(x.failures, s) <= Decay
      <4>1. LockoutFor(x.failures, s) \in 0..MaxLockout
        BY <1>2, Numbers, LockoutFacts
      <4> QED BY <2>2, <2>3, <3>1, <4>1, <1>1, <1>2, Numbers DEF Fits
    <3>3. n - l - 1 <= x.failures /\ x.failures \in Nat
      BY <2>2, <3>1, <1>2, <1>4, <1>6, Numbers
    <3>4. LockoutFor(n - l - 1, s) <= LockoutFor(x.failures, s)
      BY <2>1, <3>3, LockoutFacts
    <3>5. LockoutFor(n - l - 1, s) \in 0..MaxLockout /\ LockoutFor(x.failures, s) \in 0..MaxLockout
      BY <2>1, <3>3, LockoutFacts
    <3> QED BY <3>2, <3>4, <3>5, Numbers
  <2>4. CASE x.locked > 0
    <3>1. l = late[s] + 1
      BY <2>4, <1>6, <1>8, Numbers
    <3>2. n - l - 1 <= x.failures - late[s] - 1 /\ x.failures - late[s] - 1 \in Nat
          /\ x.failures > late[s] + 1
      BY <2>1, <2>2, <3>1, <1>1, <1>2, <1>4, <1>6, Numbers
    <3>3. LockoutFor(x.failures - late[s] - 1, s) <= Decay
      BY <3>2, <1>1 DEF Tops
    <3>4. LockoutFor(n - l - 1, s) <= LockoutFor(x.failures - late[s] - 1, s)
      BY <2>1, <3>2, LockoutFacts
    <3>5. /\ LockoutFor(n - l - 1, s) \in 0..MaxLockout
          /\ LockoutFor(x.failures - late[s] - 1, s) \in 0..MaxLockout
      BY <2>1, <3>2, LockoutFacts
    <3> QED BY <3>3, <3>4, <3>5, Numbers
  <2> QED BY <1>2, <2>3, <2>4
<1>17. Suits(y, a, l, s)
  BY <1>7, <1>10, <1>12, <1>14, <1>16 DEF Suits
<1> QED BY <1>7, <1>8, <1>10, <1>11, <1>15, <1>17

\* Time passes for a record.
Aged(x) ==
  IF x.failures = 0 THEN x
  ELSE [x EXCEPT !.locked = Less(@), !.idle = AtMost(@ + 1, Decay + 1)]

LEMMA AgedSuits ==
  ASSUME NEW s \in Subjects, NEW x, NEW a, NEW l, Suits(x, a, l, s)
  PROVE  /\ Suits(Aged(x), Less(a), l, s)
         /\ Aged(x).failures = x.failures
         /\ Aged(x).locked <= x.locked /\ Aged(x).locked + 1 >= x.locked
<1>1. /\ x.failures \in 0..MaxCount /\ x.locked \in 0..MaxLockout /\ x.idle \in 0..(Decay + 1)
      /\ x \in Stored /\ a \in 0..(MaxLockout + Decay)
      /\ Fits(x, a, s) /\ Tops(x, l, s) /\ l \in 0..MaxCount
  BY DEF Suits, Stored
<1>2. Less(a) \in 0..(MaxLockout + Decay) /\ Less(a) <= a /\ (a > 0 => Less(a) = a - 1)
      /\ (a = 0 => Less(a) = 0)
  BY <1>1, Numbers DEF Less
<1>3. CASE x.failures = 0
  <2>1. Aged(x) = x
    BY <1>3 DEF Aged
  <2> QED BY <1>1, <1>2, <1>3, <2>1, Numbers DEF Suits, Fits
<1>4. CASE x.failures # 0
  <2> PICK y : y = Aged(x)
    OBVIOUS
  <2>1. y = [failures |-> x.failures, locked |-> Less(x.locked), idle |-> AtMost(x.idle + 1, Decay + 1)]
    BY <1>1, <1>4 DEF Aged, Stored
  <2>2. /\ y.failures = x.failures /\ y.locked = Less(x.locked)
        /\ y.idle = AtMost(x.idle + 1, Decay + 1)
    BY <2>1
  <2>3. /\ y.locked \in 0..MaxLockout /\ y.locked <= x.locked /\ y.locked + 1 >= x.locked
        /\ (x.locked > 0 => y.locked = x.locked - 1) /\ (x.locked = 0 => y.locked = 0)
    BY <1>1, <2>2, Numbers DEF Less
  <2>4. y.idle \in 0..(Decay + 1) /\ (y.idle = x.idle + 1 \/ y.idle = Decay + 1)
    BY <1>1, <2>2, Numbers DEF AtMost
  <2>5. y \in Stored
    BY <1>1, <2>1, <2>2, <2>3, <2>4 DEF Stored
  <2>6. LockoutFor(x.failures, s) \in 0..MaxLockout
    BY <1>1, Numbers, LockoutFacts
  <2>7. Fits(y, Less(a), s)
    <3>1. y.locked <= LockoutFor(y.failures, s)
      BY <1>1, <2>2, <2>3, <2>6, Numbers DEF Fits
    <3>2. a >= x.locked /\ a + x.idle >= Decay
          /\ (x.idle = Decay + 1 \/ x.locked + x.idle >= LockoutFor(x.failures, s))
      BY <1>1, <1>4, Numbers DEF Fits
    <3>3. Less(a) >= y.locked /\ Less(a) + y.idle >= Decay
      BY <1>1, <1>2, <2>3, <2>4, <3>2, Numbers
    <3>4. y.idle = Decay + 1 \/ y.locked + y.idle >= LockoutFor(y.failures, s)
      BY <1>1, <2>2, <2>3, <2>4, <2>6, <3>2, Numbers
    <3> QED BY <3>1, <3>3, <3>4 DEF Fits
  <2>8. Tops(y, l, s)
    BY <1>1, <2>2 DEF Tops
  <2> QED BY <1>1, <1>2, <2>2, <2>3, <2>5, <2>7, <2>8 DEF Suits
<1> QED BY <1>3, <1>4

\* One object changes.
LEMMA ObjectStep ==
  ASSUME TypeOK, ObjectsOK, NEW s \in Subjects, NEW y, NEW a, NEW l, Suits(y, a, l, s),
         store' = [store EXCEPT ![s] = y], alarm' = [alarm EXCEPT ![s] = a],
         late' = [late EXCEPT ![s] = l]
  PROVE  /\ store' \in [Subjects -> Stored] /\ alarm' \in [Subjects -> 0..(MaxLockout + Decay)]
         /\ late' \in [Subjects -> 0..MaxCount]
         /\ ObjectsOK'
         /\ store'[s] = y /\ alarm'[s] = a /\ late'[s] = l
         /\ \A o \in Subjects \ {s} :
              store'[o] = store[o] /\ alarm'[o] = alarm[o] /\ late'[o] = late[o]
<1>1. /\ y \in Stored /\ a \in 0..(MaxLockout + Decay) /\ l \in 0..MaxCount
      /\ Fits(y, a, s) /\ Tops(y, l, s)
  BY DEF Suits
<1>2. /\ store' \in [Subjects -> Stored] /\ store'[s] = y
      /\ \A o \in Subjects \ {s} : store'[o] = store[o]
  BY <1>1 DEF TypeOK
<1>3. /\ alarm' \in [Subjects -> 0..(MaxLockout + Decay)] /\ alarm'[s] = a
      /\ \A o \in Subjects \ {s} : alarm'[o] = alarm[o]
  BY <1>1 DEF TypeOK
<1>4. /\ late' \in [Subjects -> 0..MaxCount] /\ late'[s] = l
      /\ \A o \in Subjects \ {s} : late'[o] = late[o]
  BY <1>1 DEF TypeOK
<1>5. ASSUME NEW o \in Subjects PROVE Fits(store'[o], alarm'[o], o) /\ Tops(store'[o], late'[o], o)
  <2>1. CASE o = s
    BY <1>1, <1>2, <1>3, <1>4, <2>1
  <2>2. CASE o # s
    BY <1>2, <1>3, <1>4, <2>2 DEF ObjectsOK
  <2> QED BY <2>1, <2>2
<1>6. ObjectsOK'
  BY <1>5 DEF ObjectsOK
<1> QED BY <1>2, <1>3, <1>4, <1>6

\* A subject is locked out as long as its record says so: what is forgiven is not.
LEMMA LockedRecord == TypeOK => \A s \in Subjects : Locked(s) <=> store[s].locked > 0
BY Numbers DEF TypeOK, Stored, Locked, Load, Forgiven, Fresh

-----------------------------------------------------------------------------
(* The handlers.                                                           *)

\* A handler's request changes.
LEMMA HandlerStep ==
  ASSUME TypeOK, CallersOK, NEW c \in Clients, NEW r \in Request, Become(c, r),
         r.todo \subseteq SubjectsOf[c]
  PROVE  /\ handler' \in [Clients -> Request] /\ CallersOK'
         /\ handler'[c] = r /\ \A o \in Clients \ {c} : handler'[o] = handler[o]
<1>1. /\ handler' \in [Clients -> Request] /\ handler'[c] = r
      /\ \A o \in Clients \ {c} : handler'[o] = handler[o]
  BY DEF TypeOK, Become
<1>2. CallersOK'
  BY <1>1 DEF CallersOK
<1> QED BY <1>1, <1>2

\* Nobody comes past a check that it has not passed before.
LEMMA PendingStep ==
  ASSUME NEW c \in Clients, NEW s \in Subjects,
         \A o \in Clients \ {c} : handler'[o] = handler[o],
         s \in SubjectsOf[c] /\ Past(handler'[c], s) => Past(handler[c], s)
  PROVE  /\ Pending(s)' \subseteq Pending(s) /\ Pending(s) \subseteq ClientsOf(s)
         /\ ~Past(handler'[c], s) => c \notin Pending(s)'
BY DEF Pending, ClientsOf

\* A step of a handler that leaves the objects alone.
LEMMA QuietInv ==
  ASSUME Inv, UNCHANGED objects, NEW c \in Clients, NEW r \in Request, Become(c, r),
         r.todo \subseteq SubjectsOf[c],
         \A s \in SubjectsOf[c] :
           store[s].locked > 0 /\ Past(r, s) => Past(handler[c], s)
  PROVE  Inv'
<1>1. UNCHANGED <<store, alarm, late>>
  BY DEF objects
<1>2. /\ handler' \in [Clients -> Request] /\ CallersOK'
      /\ handler'[c] = r /\ \A o \in Clients \ {c} : handler'[o] = handler[o]
  BY HandlerStep DEF Inv
<1>3. ObjectsOK'
  BY <1>1 DEF Inv, ObjectsOK
<1>4. LateOK'
  <2> SUFFICES ASSUME NEW s \in Subjects
               PROVE  /\ late[s] > 0 => late[s] < Cardinality(ClientsOf(s))
                      /\ store[s].locked > 0 =>
                           late[s] + Cardinality(Pending(s)') < Cardinality(ClientsOf(s))
    BY <1>1 DEF LateOK, ClientsOf
  <2>1. CASE store[s].locked > 0
    <3>1. Pending(s)' \subseteq Pending(s) /\ Pending(s) \subseteq ClientsOf(s)
      BY <1>2, <2>1, PendingStep
    <3>2. /\ Cardinality(Pending(s)') \in Nat /\ Cardinality(Pending(s)) \in Nat
          /\ Cardinality(ClientsOf(s)) \in Nat
          /\ Cardinality(Pending(s)') <= Cardinality(Pending(s))
      BY <3>1, ClientCounts
    <3>3. late[s] \in Nat
      BY Numbers DEF Inv, TypeOK
    <3> QED BY <2>1, <3>2, <3>3 DEF Inv, LateOK
  <2>2. CASE ~(store[s].locked > 0)
    BY <2>2 DEF Inv, LateOK
  <2> QED BY <2>1, <2>2
<1> QED BY <1>1, <1>2, <1>3, <1>4 DEF Inv, TypeOK

\* A handler begins, or knows whether the credential is right.
LEMMA AttemptVerifyInv ==
  ASSUME Inv, NEW c \in Clients, Attempt(c) \/ Verify(c)
  PROVE  Inv'
<1>1. SubjectsOf[c] \subseteq Subjects
  BY RateLimiterAssumption
<1> SUFFICES ASSUME NEW r \in Request, Become(c, r), UNCHANGED objects,
                    r.todo \subseteq SubjectsOf[c],
                    \A s \in SubjectsOf[c] : Past(r, s) => Past(handler[c], s)
             PROVE  Inv'
  <2>1. ASSUME NEW pc \in {"peek", "fail", "reset"},
               Become(c, [pc |-> pc, todo |-> SubjectsOf[c], blocked |-> FALSE]),
               UNCHANGED objects,
               pc = "fail" => handler[c].pc = "verify"
        PROVE  Inv'
    <3> PICK r : r = [pc |-> pc, todo |-> SubjectsOf[c], blocked |-> FALSE]
      OBVIOUS
    <3>1. r \in Request /\ r.pc = pc /\ r.todo = SubjectsOf[c]
      BY <1>1 DEF Request
    <3>2. \A s \in SubjectsOf[c] : Past(r, s) => Past(handler[c], s)
      BY <2>1, <3>1 DEF Past
    <3> QED BY <2>1, <3>1, <3>2
  <2>2. ASSUME Become(c, Idle), UNCHANGED objects PROVE Inv'
    <3>1. Idle \in Request /\ Idle.todo = {} /\ Idle.pc = "idle"
      BY DEF Idle, Request
    <3>2. \A s \in SubjectsOf[c] : ~Past(Idle, s)
      BY <3>1 DEF Past
    <3> QED BY <2>2, <3>1, <3>2
  <2> QED BY <2>1, <2>2 DEF Attempt, Verify
<1> QED BY QuietInv

\* A subject answers a handler that peeks: one that is locked out blocks it.
LEMMA PeekInv ==
  ASSUME Inv, NEW c \in Clients, NEW s \in Subjects, Peek(c, s)
  PROVE  Inv'
<1>1. /\ handler[c] \in Request /\ handler[c].pc = "peek" /\ s \in handler[c].todo
      /\ handler[c].todo \subseteq SubjectsOf[c] /\ UNCHANGED objects
  BY DEF Peek, Inv, TypeOK, CallersOK
<1>2. /\ handler[c].todo \in SUBSET Subjects /\ handler[c].blocked \in BOOLEAN
      /\ (Locked(s) <=> store[s].locked > 0)
  BY <1>1, LockedRecord DEF Inv, Request
<1>3. CASE handler[c].todo = {s}
  <2> PICK r : r = [(IF Strictest(c, s) THEN Idle
                     ELSE [pc |-> "verify", todo |-> {}, blocked |-> FALSE])
                    EXCEPT !.blocked = FALSE]
    OBVIOUS
  <2>1. Become(c, r)
    BY <1>3 DEF Peek, Answered, Refusal
  <2>2. /\ r \in Request /\ r.todo = {}
        /\ Strictest(c, s) => r.pc = "idle"
    BY DEF Idle, Request
  <2>3. \A o \in SubjectsOf[c] :
          store[o].locked > 0 /\ Past(r, o) => Past(handler[c], o)
    <3> SUFFICES ASSUME NEW o \in SubjectsOf[c], store[o].locked > 0, Past(r, o)
                 PROVE  o \notin handler[c].todo /\ ~handler[c].blocked
      BY <1>1 DEF Past
    <3>1. ~Strictest(c, s)
      BY <2>2 DEF Past
    <3> QED BY <1>2, <1>3, <3>1 DEF Strictest
  <2> QED BY <1>1, <2>1, <2>2, <2>3, QuietInv
<1>4. CASE handler[c].todo # {s}
  <2> PICK r : r = [handler[c] EXCEPT !.todo = handler[c].todo \ {s}, !.blocked = Strictest(c, s)]
    OBVIOUS
  <2>1. Become(c, r)
    <3> PICK b : b = (handler[c].todo # {s} /\ Strictest(c, s))
      OBVIOUS
    <3> PICK q : q = [[handler[c] EXCEPT !.todo = handler[c].todo \ {s}] EXCEPT !.blocked = b]
      OBVIOUS
    <3>1. Become(c, q)
      BY <1>4 DEF Peek, Answered
    <3>2. b = Strictest(c, s)
      <4>1. Strictest(c, s) \in BOOLEAN
        BY <1>2 DEF Strictest, Locked
      <4> QED BY <1>4, <4>1, Zenon
    <3>3. q = r
      BY <1>1, <3>2 DEF Request
    <3> QED BY <3>1, <3>3
  <2>2. r \in Request /\ r.pc = "peek" /\ r.todo = handler[c].todo \ {s}
    <3>1. Strictest(c, s) \in BOOLEAN
      BY <1>2 DEF Strictest, Locked
    <3> QED BY <1>1, <3>1 DEF Request
  <2>3. r.blocked <=> Strictest(c, s)
    BY <1>1, Zenon DEF Request
  <2>4. \A o \in SubjectsOf[c] :
          store[o].locked > 0 /\ Past(r, o) => Past(handler[c], o)
    BY <1>1, <1>2, <2>2, <2>3 DEF Past, Strictest
  <2> QED BY <1>1, <2>1, <2>2, <2>4, QuietInv
<1> QED BY <1>3, <1>4

\* What becomes of the request of a handler that records a failure or clears, once
\* one subject has answered.
LEMMA AnsweredFacts ==
  ASSUME Inv, NEW c \in Clients, NEW s \in handler[c].todo, NEW r, r = Answered(c, s, Idle)
  PROVE  /\ r \in Request /\ r.todo = handler[c].todo \ {s}
         /\ r.pc \in {"idle", handler[c].pc}
<1>1. handler[c] \in Request /\ handler[c].todo \in SUBSET Subjects
  BY DEF Inv, TypeOK, Request
<1>2. Idle \in Request /\ Idle.todo = {} /\ Idle.pc = "idle"
  BY DEF Idle, Request
<1>3. CASE handler[c].todo = {s}
  BY <1>2, <1>3 DEF Answered
<1>4. CASE handler[c].todo # {s}
  <2>1. r = [handler[c] EXCEPT !.todo = handler[c].todo \ {s}]
    BY <1>4 DEF Answered
  <2>2. r \in Request /\ r.todo = handler[c].todo \ {s} /\ r.pc = handler[c].pc
    BY <1>1, <2>1 DEF Request
  <2> QED BY <2>2
<1> QED BY <1>3, <1>4

\* A failure is recorded with one subject.
LEMMA RecordFailureInv ==
  ASSUME Inv, NEW c \in Clients, NEW s \in Subjects, RecordFailure(c, s)
  PROVE  Inv'
<1>1. handler[c].pc = "fail" /\ s \in handler[c].todo /\ Fail(s) /\ s \in SubjectsOf[c]
  BY DEF RecordFailure, Inv, CallersOK
<1>2. PICK y, a, l :
        /\ store' = [store EXCEPT ![s] = y] /\ alarm' = [alarm EXCEPT ![s] = a]
        /\ late' = [late EXCEPT ![s] = l]
        /\ Suits(y, a, l, s)
        /\ store[s].locked > 0 => l <= late[s] + 1
        /\ store[s].locked = 0 => l = 0
  BY <1>1, FailSuits DEF Inv
<1>3. /\ store' \in [Subjects -> Stored] /\ alarm' \in [Subjects -> 0..(MaxLockout + Decay)]
      /\ late' \in [Subjects -> 0..MaxCount]
      /\ ObjectsOK'
      /\ store'[s] = y /\ late'[s] = l
      /\ \A o \in Subjects \ {s} : store'[o] = store[o] /\ late'[o] = late[o]
  BY <1>2, ObjectStep DEF Inv
<1> PICK r : r = Answered(c, s, Idle)
  OBVIOUS
<1>4. /\ r \in Request /\ r.todo \subseteq handler[c].todo \ {s}
      /\ r.pc \in {"idle", "fail"} /\ Become(c, r)
  BY <1>1, AnsweredFacts DEF RecordFailure
<1>5. r.todo \subseteq SubjectsOf[c]
  BY <1>4 DEF Inv, CallersOK
<1>6. /\ handler' \in [Clients -> Request] /\ CallersOK'
      /\ handler'[c] = r /\ \A o \in Clients \ {c} : handler'[o] = handler[o]
  BY <1>4, <1>5, HandlerStep DEF Inv
<1>7. /\ ~Past(r, s) /\ Past(handler[c], s)
      /\ \A o \in Subjects : Past(r, o) => Past(handler[c], o)
  BY <1>1, <1>4 DEF Past
<1>8. ASSUME NEW o \in Subjects
      PROVE  /\ late'[o] > 0 => late'[o] < Cardinality(ClientsOf(o))
             /\ store'[o].locked > 0 =>
                  late'[o] + Cardinality(Pending(o)') < Cardinality(ClientsOf(o))
  <2>1. /\ Pending(o)' \subseteq Pending(o) /\ Pending(o) \subseteq ClientsOf(o)
        /\ ~Past(r, o) => c \notin Pending(o)'
    BY <1>6, <1>7, PendingStep
  <2>2. /\ Cardinality(Pending(o)') \in Nat /\ Cardinality(Pending(o)) \in Nat
        /\ Cardinality(ClientsOf(o)) \in Nat
        /\ Cardinality(Pending(o)') <= Cardinality(Pending(o))
        /\ \A d \in Pending(o) \ Pending(o)' : Cardinality(Pending(o)') < Cardinality(Pending(o))
    BY <2>1, ClientCounts
  <2>3. /\ late[o] \in Nat /\ store[o].locked \in Nat
        /\ late[o] > 0 => late[o] < Cardinality(ClientsOf(o))
        /\ store[o].locked > 0 => late[o] + Cardinality(Pending(o)) < Cardinality(ClientsOf(o))
    BY Numbers DEF Inv, TypeOK, Stored, LateOK
  <2>4. CASE o # s
    BY <1>3, <2>2, <2>3, <2>4
  <2>5. CASE o = s /\ store[s].locked > 0
    <3>1. c \in Pending(s) \ Pending(s)'
      BY <1>1, <1>7, <2>1, <2>5 DEF Pending, ClientsOf
    <3>2. l \in Nat /\ l <= late[s] + 1
      BY <1>2, <2>5, Numbers DEF Suits
    <3> QED BY <1>3, <2>2, <2>3, <2>5, <3>1, <3>2
  <2>6. CASE o = s /\ store[s].locked = 0
    <3>1. c \in ClientsOf(s) \ Pending(s)' /\ Pending(s)' \subseteq ClientsOf(s)
      BY <1>1, <1>7, <2>1, <2>6 DEF ClientsOf
    <3>2. Cardinality(Pending(s)') < Cardinality(ClientsOf(s))
      BY <3>1, ClientCounts
    <3> QED BY <1>2, <1>3, <2>2, <2>6, <3>2
  <2> QED BY <2>3, <2>4, <2>5, <2>6
<1>9. LateOK'
  BY <1>8 DEF LateOK, ClientsOf
<1> QED BY <1>3, <1>6, <1>9 DEF Inv, TypeOK

\* An object is wiped.
LEMMA WipeInv ==
  ASSUME Inv, NEW s \in Subjects, Wipe(s),
         handler' \in [Clients -> Request], CallersOK',
         \A o \in Subjects : Pending(o)' \subseteq Pending(o)
  PROVE  Inv'
<1>1. Suits(Fresh, 0, 0, s) /\ Fresh.locked = 0
  BY FreshSuits
<1>2. /\ store' \in [Subjects -> Stored] /\ alarm' \in [Subjects -> 0..(MaxLockout + Decay)]
      /\ late' \in [Subjects -> 0..MaxCount]
      /\ ObjectsOK'
      /\ store'[s] = Fresh /\ late'[s] = 0
      /\ \A o \in Subjects \ {s} : store'[o] = store[o] /\ late'[o] = late[o]
  BY <1>1, ObjectStep DEF Wipe, Inv
<1>3. ASSUME NEW o \in Subjects
      PROVE  /\ late'[o] > 0 => late'[o] < Cardinality(ClientsOf(o))
             /\ store'[o].locked > 0 =>
                  late'[o] + Cardinality(Pending(o)') < Cardinality(ClientsOf(o))
  <2>1. CASE o = s
    BY <1>1, <1>2, <2>1
  <2>2. CASE o # s
    <3>1. Pending(o) \subseteq ClientsOf(o)
      BY DEF Pending
    <3>2. /\ Cardinality(Pending(o)') \in Nat /\ Cardinality(Pending(o)) \in Nat
          /\ Cardinality(ClientsOf(o)) \in Nat
          /\ Cardinality(Pending(o)') <= Cardinality(Pending(o))
      BY <3>1, ClientCounts
    <3>3. late[o] \in Nat
      BY Numbers DEF Inv, TypeOK
    <3> QED BY <1>2, <2>2, <3>2, <3>3 DEF Inv, LateOK
  <2> QED BY <2>1, <2>2
<1>4. LateOK'
  BY <1>3 DEF LateOK, ClientsOf
<1> QED BY <1>2, <1>4 DEF Inv, TypeOK

\* A success clears a subject, and the alarm does.
LEMMA ClearInv ==
  ASSUME Inv, NEW s \in Subjects,
         Alarm(s) \/ \E c \in Clients : ClearRateLimit(c, s)
  PROVE  Inv'
<1>1. CASE Alarm(s)
  <2>1. handler' = handler /\ Wipe(s)
    BY <1>1 DEF Alarm
  <2>2. CallersOK' /\ \A o \in Subjects : Pending(o)' = Pending(o)
    BY <2>1 DEF Inv, CallersOK, Pending, ClientsOf
  <2> QED BY <2>1, <2>2, WipeInv DEF Inv, TypeOK
<1>2. ASSUME NEW c \in Clients, ClearRateLimit(c, s) PROVE Inv'
  <2> PICK r : r = Answered(c, s, Idle)
    OBVIOUS
  <2>1. handler[c].pc = "reset" /\ s \in handler[c].todo /\ Wipe(s) /\ Become(c, r)
    BY <1>2 DEF ClearRateLimit
  <2>2. /\ r \in Request /\ r.todo \subseteq SubjectsOf[c]
        /\ r.pc \in {"idle", "reset"}
    BY <2>1, AnsweredFacts DEF Inv, CallersOK
  <2>3. /\ handler' \in [Clients -> Request] /\ CallersOK'
        /\ handler'[c] = r /\ \A o \in Clients \ {c} : handler'[o] = handler[o]
    BY <2>1, <2>2, HandlerStep DEF Inv
  <2>4. \A o \in Subjects : Pending(o)' \subseteq Pending(o)
    BY <2>2, <2>3, PendingStep DEF Past
  <2> QED BY <2>1, <2>3, <2>4, WipeInv
<1> QED BY <1>1, <1>2

\* Time passes for every object.
LEMMA TickFacts ==
  ASSUME TypeOK, ObjectsOK, Tick
  PROVE  /\ store' = [s \in Subjects |-> Aged(store[s])]
         /\ alarm' = [s \in Subjects |-> Less(alarm[s])]
         /\ \A s \in Subjects :
              /\ Suits(store'[s], alarm'[s], late[s], s)
              /\ store'[s].failures = store[s].failures
              /\ store'[s].locked <= store[s].locked
              /\ store'[s].locked + 1 >= store[s].locked
<1>1. store' = [s \in Subjects |-> Aged(store[s])] /\ alarm' = [s \in Subjects |-> Less(alarm[s])]
  BY DEF Tick, Aged
<1>2. ASSUME NEW s \in Subjects
      PROVE  /\ Suits(store'[s], alarm'[s], late[s], s)
             /\ store'[s].failures = store[s].failures
             /\ store'[s].locked <= store[s].locked
             /\ store'[s].locked + 1 >= store[s].locked
  <2>1. store'[s] = Aged(store[s]) /\ alarm'[s] = Less(alarm[s])
    BY <1>1
  <2>2. Suits(store[s], alarm[s], late[s], s)
    BY FreshSuits
  <2> QED BY <2>1, <2>2, AgedSuits
<1> QED BY <1>1, <1>2

LEMMA TickInv ==
  ASSUME Inv, Tick
  PROVE  Inv'
<1>1. UNCHANGED <<handler, late>>
  BY DEF Tick
<1>2. /\ store' = [s \in Subjects |-> Aged(store[s])]
      /\ alarm' = [s \in Subjects |-> Less(alarm[s])]
      /\ \A s \in Subjects :
           /\ Suits(store'[s], alarm'[s], late[s], s)
           /\ store'[s].locked <= store[s].locked
  BY TickFacts DEF Inv
<1>3. /\ store' \in [Subjects -> Stored] /\ alarm' \in [Subjects -> 0..(MaxLockout + Decay)]
      /\ ObjectsOK'
  BY <1>1, <1>2 DEF Suits, ObjectsOK
<1>4. CallersOK'
  BY <1>1 DEF Inv, CallersOK
<1>5. ASSUME NEW s \in Subjects
      PROVE  /\ late'[s] > 0 => late'[s] < Cardinality(ClientsOf(s))
             /\ store'[s].locked > 0 =>
                  late'[s] + Cardinality(Pending(s)') < Cardinality(ClientsOf(s))
  <2>1. Pending(s)' = Pending(s)
    BY <1>1 DEF Pending, ClientsOf
  <2>2. store'[s].locked > 0 => store[s].locked > 0
    <3>1. store[s].locked \in Nat /\ store'[s].locked \in Nat
      BY <1>3, Numbers DEF Inv, TypeOK, Stored
    <3> QED BY <1>2, <3>1
  <2> QED BY <1>1, <2>1, <2>2 DEF Inv, LateOK
<1>6. LateOK'
  BY <1>5 DEF LateOK, ClientsOf
<1> QED BY <1>1, <1>3, <1>4, <1>6 DEF Inv, TypeOK

-----------------------------------------------------------------------------
(* The theorems.                                                           *)

\* Every step preserves the invariant.
LEMMA NextInv == Inv /\ [Next]_vars => Inv'
<1> SUFFICES ASSUME Inv, [Next]_vars PROVE Inv'
  OBVIOUS
<1>1. CASE UNCHANGED vars
  BY <1>1 DEF vars, Inv, TypeOK, ObjectsOK, CallersOK, LateOK, Pending, ClientsOf
<1>2. ASSUME NEW c \in Clients, Attempt(c) \/ Verify(c) PROVE Inv'
  BY <1>2, AttemptVerifyInv
<1>3. ASSUME NEW c \in Clients, NEW s \in Subjects, Peek(c, s) PROVE Inv'
  BY <1>3, PeekInv
<1>4. ASSUME NEW c \in Clients, NEW s \in Subjects, RecordFailure(c, s) PROVE Inv'
  BY <1>4, RecordFailureInv
<1>5. ASSUME NEW s \in Subjects, Alarm(s) \/ \E c \in Clients : ClearRateLimit(c, s) PROVE Inv'
  BY <1>5, ClearInv
<1>6. CASE Tick
  BY <1>6, TickInv
<1> QED BY <1>1, <1>2, <1>3, <1>4, <1>5, <1>6 DEF Next

\* The invariant holds in every reachable state.
LEMMA Invariance == Spec => []Inv
<1> QED BY InitInv, NextInv, PTL DEF Spec

\* Every reachable state has the declared types: lockouts and alarms stay below
\* their ceilings.
THEOREM TypeCorrect == Spec => []TypeOK
<1>1. Inv => TypeOK
  BY DEF Inv
<1> QED BY <1>1, Invariance, PTL

\* During a lockout each handler gets in one guess at most, and the one that began
\* it none.
THEOREM FewLateAttempts == Spec => []LateAttemptsBounded
<1>1. Inv => LateAttemptsBounded
  BY DEF Inv, LateOK, LateAttemptsBounded
<1> QED BY <1>1, Invariance, PTL

\* But for late failures, the count goes no further than the first lockout beyond
\* the decay window.
THEOREM BackoffStops == Spec => []BackoffTopsOut
<1>1. Inv => BackoffTopsOut
  BY DEF Inv, ObjectsOK, Tops, BackoffTopsOut
<1> QED BY <1>1, Invariance, PTL

\* A step of a handler that records no failure with s leaves Failing(s) false.
LEMMA OtherCalls ==
  ASSUME Inv, NEW c \in Clients, NEW s, NEW r, Become(c, r),
         handler[c].pc # "fail" \/ ~(s \in handler[c].todo /\ s \notin r.todo)
  PROVE  ~Failing(s)
<1>1. handler'[c] = r /\ \A d \in Clients \ {c} : handler'[d] = handler[d]
  BY DEF Become, Inv, TypeOK
<1> QED BY <1>1 DEF Failing, Calls

\* What a step can do to the record of a subject that is not being cleared.
LEMMA RecordStep ==
  ASSUME Inv, [Next]_vars, NEW s \in Subjects, ~Clearing(s)
  PROVE  \/ store'[s] = store[s] /\ ~Failing(s)
         \/ /\ Tick /\ ~Failing(s)
            /\ store'[s].failures = store[s].failures
            /\ store'[s].locked + 1 >= store[s].locked
         \/ /\ store'[s].locked >= store[s].locked
            /\ \/ store'[s].failures = AtMost(store[s].failures + 1, MaxCount)
               \/ Forgiven(s)
         \/ /\ store[s].locked = 0 /\ store[s].idle >= Decay
            /\ store'[s].locked = 0
<1>1. store \in [Subjects -> Stored] /\ handler \in [Clients -> Request]
  BY DEF Inv, TypeOK
<1>2. UNCHANGED handler => ~Failing(s)
  BY DEF Failing, Calls
<1>3. CASE Tick
  <2>1. UNCHANGED handler
    BY <1>3 DEF Tick
  <2> QED BY <1>2, <1>3, <2>1, TickFacts DEF Inv
<1>4. ASSUME NEW c \in Clients, NEW o \in Subjects, RecordFailure(c, o)
      PROVE  \/ store'[s] = store[s] /\ ~Failing(s)
             \/ /\ store'[s].locked >= store[s].locked
                /\ \/ store'[s].failures = AtMost(store[s].failures + 1, MaxCount)
                   \/ Forgiven(s)
  <2>1. PICK y : /\ store' = [store EXCEPT ![o] = y] /\ y.locked >= store[o].locked
                 /\ ~Forgiven(o) => y.failures = AtMost(store[o].failures + 1, MaxCount)
    BY <1>4, FailSuits DEF RecordFailure, Inv
  <2>2. CASE o = s
    BY <1>1, <2>1, <2>2
  <2>3. CASE o # s
    <3> PICK r : r = Answered(c, o, Idle)
      OBVIOUS
    <3>1. o \in handler[c].todo /\ Become(c, r)
      BY <1>4 DEF RecordFailure
    <3>2. r.todo = handler[c].todo \ {o}
      BY <3>1, AnsweredFacts
    <3>3. ~Failing(s)
      BY <2>3, <3>1, <3>2, OtherCalls
    <3> QED BY <1>1, <2>1, <2>3, <3>3
  <2> QED BY <2>2, <2>3
<1>5. ASSUME NEW c \in Clients, NEW o \in Subjects, ClearRateLimit(c, o)
      PROVE  store'[s] = store[s] /\ ~Failing(s)
  <2> PICK r : r = Answered(c, o, Idle)
    OBVIOUS
  <2>1. handler[c].pc = "reset" /\ o \in handler[c].todo /\ Wipe(o) /\ Become(c, r)
    BY <1>5 DEF ClearRateLimit
  <2>2. o \notin handler'[c].todo
    <3>1. r.todo = handler[c].todo \ {o}
      BY <2>1, AnsweredFacts
    <3> QED BY <1>1, <2>1, <3>1 DEF Become
  <2>3. o # s
    BY <2>1, <2>2 DEF Clearing, Calls
  <2>4. ~Failing(s)
    BY <2>1, OtherCalls
  <2> QED BY <1>1, <2>1, <2>3, <2>4 DEF Wipe
<1>6. ASSUME NEW o \in Subjects, Alarm(o)
      PROVE  \/ store'[s] = store[s] /\ ~Failing(s)
             \/ store[s].locked = 0 /\ store[s].idle >= Decay /\ store'[s].locked = 0
  <2>1. CASE o = s
    <3>1. /\ store[s].failures > 0 /\ alarm[s] = 0 /\ Fits(store[s], alarm[s], s)
          /\ store[s].locked \in Nat /\ store[s].idle \in Nat
      BY <1>1, <1>6, <2>1, Numbers DEF Alarm, Inv, ObjectsOK, Stored
    <3>2. store'[s].locked = 0
      BY <1>1, <1>6, <2>1, FreshSuits DEF Alarm, Wipe
    <3> QED BY <3>1, <3>2, Numbers DEF Fits
  <2>2. CASE o # s
    BY <1>1, <1>2, <1>6, <2>2 DEF Alarm, Wipe
  <2> QED BY <2>1, <2>2
<1>7. ASSUME NEW c \in Clients, NEW o \in Subjects, Attempt(c) \/ Verify(c) \/ Peek(c, o)
      PROVE  store'[s] = store[s] /\ ~Failing(s)
  <2>1. UNCHANGED store
    BY <1>7 DEF Attempt, Verify, Peek, objects
  <2>2. handler[c].pc # "fail" /\ \E r : Become(c, r)
    BY <1>7 DEF Attempt, Verify, Peek
  <2> QED BY <2>1, <2>2, OtherCalls
<1>8. CASE UNCHANGED vars
  BY <1>2, <1>8 DEF vars
<1>9. CASE Next
  BY <1>3, <1>4, <1>5, <1>6, <1>7, <1>9 DEF Next
<1> QED BY <1>8, <1>9

\* A lockout that is running is served in full: a further failure earns one that is
\* no shorter, and the alarm is set for after its end.
THEOREM LockoutsServed == Spec => LockoutServed
<1> DEFINE A == \A s \in Subjects :
                  store[s].locked > 0 /\ ~Clearing(s) =>
                    store'[s].locked + Elapsed >= store[s].locked
<1>1. ASSUME Inv, Inv', [Next]_vars PROVE A
  <2> SUFFICES ASSUME NEW s \in Subjects, store[s].locked > 0, ~Clearing(s)
               PROVE  store'[s].locked + Elapsed >= store[s].locked
    OBVIOUS
  <2>1. store[s].locked \in Nat /\ store'[s].locked \in Nat
    BY <1>1, Numbers DEF Inv, TypeOK, Stored
  <2>2. Elapsed \in {0, 1} /\ (Tick => Elapsed = 1)
    BY DEF Elapsed
  <2> QED BY <1>1, <2>1, <2>2, RecordStep
<1>2. Spec => [][A]_vars
  BY <1>1, Invariance, PTL DEF Spec
<1> QED BY <1>2 DEF LockoutServed

\* Failures are forgotten by a success, or after the lockout by a whole decay window
\* without another: fail() counts on from what is stored, unless that is so old.
THEOREM ForgivenessIsEarned == Spec => ForgivenOnlyIdle
<1> DEFINE A == \A s \in Subjects :
                  Forgets(s) /\ ~Clearing(s) =>
                    store[s].locked = 0 /\ store[s].idle >= Decay
<1>1. ASSUME Inv, Inv', [Next]_vars PROVE A
  <2> SUFFICES ASSUME NEW s \in Subjects, Forgets(s), ~Clearing(s)
               PROVE  store[s].locked = 0 /\ store[s].idle >= Decay
    OBVIOUS
  <2>1. /\ store[s].failures \in 0..MaxCount /\ store'[s].failures \in 0..MaxCount
        /\ store[s].idle \in Nat
    BY <1>1, Numbers DEF Inv, TypeOK, Stored
  <2>2. CASE Forgiven(s)
    BY <2>1, <2>2, Numbers DEF Forgiven
  <2>3. CASE ~Forgiven(s)
    <3>1. AtMost(store[s].failures + 1, MaxCount) >= store[s].failures
      BY <2>1, Numbers DEF AtMost
    <3>2. \/ store'[s].failures = store[s].failures /\ ~Failing(s)
          \/ store'[s].failures = AtMost(store[s].failures + 1, MaxCount)
          \/ store[s].locked = 0 /\ store[s].idle >= Decay
      BY <1>1, <2>3, RecordStep
    <3> QED BY <2>1, <3>1, <3>2, Numbers DEF Forgets, AtMost
  <2> QED BY <2>2, <2>3
<1>2. Spec => [][A]_vars
  BY <1>1, Invariance, PTL DEF Spec
<1> QED BY <1>2 DEF ForgivenOnlyIdle
=============================================================================
