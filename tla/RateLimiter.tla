---------------------------- MODULE RateLimiter ----------------------------
(***************************************************************************)
(* The Durable Objects of rateLimiter.ts and the handlers that consult     *)
(* them.  Each subject (an address, an account) has an object of its own,  *)
(* which handles one call at a time; a handler peeks at every subject of   *)
(* its request, verifies the credential, then records a failure with every *)
(* subject or clears them all.  The three are separate calls, one subject  *)
(* at a time in any order (Promise.all), and other handlers run between.   *)
(*                                                                         *)
(* Times are kept as differences to the present: locked is lockedUntil -   *)
(* now, idle is now - updatedAt, and alarm the time until the alarm is     *)
(* due.  One Tick is the unit that the durations are given in.             *)
(***************************************************************************)
EXTENDS Naturals, FiniteSets

CONSTANTS
  Subjects,    \* what is limited
  Clients,     \* handlers that guard a credential
  SubjectsOf,  \* the subjects of a handler's requests
  Threshold,   \* a subject's policy: failures tolerated before a lockout
  Base,        \* a subject's policy: the first lockout
  MaxLockout,  \* MAX_LOCKOUT_MS
  MaxSteps,    \* the clamp on the exponent
  Decay,       \* DECAY_MS
  MaxCount     \* bound on the failures told apart

ASSUME RateLimiterAssumption ==
  /\ IsFiniteSet(Clients)
  /\ SubjectsOf \in [Clients -> (SUBSET Subjects) \ {{}}]
  /\ Threshold \in [Subjects -> Nat \ {0}] /\ Base \in [Subjects -> Nat \ {0}]
  /\ MaxLockout \in Nat \ {0} /\ MaxSteps \in Nat /\ Decay \in Nat
  /\ MaxCount \in Nat \ {0}

VARIABLES
  store,    \* what each object has stored; failures = 0 for nothing
  alarm,    \* time until each object's alarm
  handler,  \* the request each handler is working on
  late      \* history: the failures recorded while the subject was locked out

objects == <<store, alarm, late>>
vars == <<store, alarm, handler, late>>

Stored == [failures: 0..MaxCount, locked: 0..MaxLockout, idle: 0..(Decay + 1)]
Fresh == [failures |-> 0, locked |-> 0, idle |-> 0]

Request == [pc: {"idle", "peek", "verify", "fail", "reset"},
            todo: SUBSET Subjects,  \* the subjects still to be called
            blocked: BOOLEAN]       \* what the verdicts so far come to

Idle == [pc |-> "idle", todo |-> {}, blocked |-> FALSE]

\* The types: lockouts and alarms stay within MAX_LOCKOUT_MS and DECAY_MS.
TypeOK ==
  /\ store \in [Subjects -> Stored]
  /\ alarm \in [Subjects -> 0..(MaxLockout + Decay)]
  /\ handler \in [Clients -> Request]
  /\ late \in [Subjects -> 0..MaxCount]

-----------------------------------------------------------------------------
(* The object of one subject.                                              *)

AtMost(x, y) == IF x < y THEN x ELSE y

\* 2 ** n.
PowerOfTwo[n \in Nat] == IF n = 0 THEN 1 ELSE 2 * PowerOfTwo[n - 1]

\* The lockout after n failures: none below the threshold, then doubling up to
\* the ceiling.  Mutant: without the ceiling.
Doubled(n, s) == Base[s] * PowerOfTwo[AtMost(n - Threshold[s], MaxSteps)]
UncappedLockoutFor(n, s) == IF n < Threshold[s] THEN 0 ELSE Doubled(n, s)
LockoutFor(n, s) == IF n < Threshold[s] THEN 0 ELSE AtMost(Doubled(n, s), MaxLockout)

\* A subject idle for longer than the decay window is forgiven, once no lockout
\* is active.  Mutants: never; also while one is.
NeverForgiven(s) == FALSE
ForgivenWhileLocked(s) == store[s].idle > Decay
Forgiven(s) == store[s].locked = 0 /\ store[s].idle > Decay

Load(s) == IF Forgiven(s) THEN Fresh ELSE store[s]

Locked(s) == Load(s).locked > 0

\* The wipe is due at the end of the decay window, which a lockout puts off.
\* Mutant: as if there were no lockout.
AlarmAfterDecay(lockout) == Decay
AlarmAfter(lockout) == lockout + Decay

\* fail(): one more failure, the lockout it earns, the alarm.
Fail(s) ==
  LET n == AtMost(Load(s).failures + 1, MaxCount)
      lockout == LockoutFor(n, s)
  IN /\ store' = [store EXCEPT ![s] = [failures |-> n, locked |-> lockout, idle |-> 0]]
     /\ alarm' = [alarm EXCEPT ![s] = AlarmAfter(lockout)]
     /\ late' = [late EXCEPT ![s] = IF Locked(s)
                                   THEN AtMost(late[s] + 1, MaxCount) ELSE 0]

\* reset() and alarm(): nothing is stored any more.
Wipe(s) ==
  /\ store' = [store EXCEPT ![s] = Fresh]
  /\ alarm' = [alarm EXCEPT ![s] = 0]
  /\ late' = [late EXCEPT ![s] = 0]

-----------------------------------------------------------------------------
(* The handlers.                                                           *)

Become(c, r) == handler' = [handler EXCEPT ![c] = r]

\* One subject has answered; the handler goes on when all have.
Answered(c, s, next) ==
  IF handler[c].todo = {s} THEN next
  ELSE [handler[c] EXCEPT !.todo = handler[c].todo \ {s}]

\* checkRateLimit over the subjects of the request.
Attempt(c) ==
  /\ handler[c].pc = "idle"
  /\ Become(c, [pc |-> "peek", todo |-> SubjectsOf[c], blocked |-> FALSE])
  /\ UNCHANGED objects

\* strictest: any subject that is locked out blocks the request.  Mutant: the
\* last to answer decides.
LastVerdict(c, s) == Locked(s)
Strictest(c, s) == handler[c].blocked \/ Locked(s)

\* A 429 counts for nothing.  Mutant: as one more failure.
RefusalCounts(c) == [pc |-> "fail", todo |-> SubjectsOf[c], blocked |-> FALSE]
Refusal(c) == Idle

Peek(c, s) ==
  /\ handler[c].pc = "peek" /\ s \in handler[c].todo
  /\ LET blocked == Strictest(c, s)
     IN Become(c, [Answered(c, s, IF blocked THEN Refusal(c)
                                  ELSE [pc |-> "verify", todo |-> {}, blocked |-> FALSE])
                   EXCEPT !.blocked = handler[c].todo # {s} /\ blocked])
  /\ UNCHANGED objects

\* The credential is wrong, or right, or the handler fails before it knows.
Verify(c) ==
  /\ handler[c].pc = "verify"
  /\ \/ \E pc \in {"fail", "reset"} :
          Become(c, [pc |-> pc, todo |-> SubjectsOf[c], blocked |-> FALSE])
     \/ Become(c, Idle)
  /\ UNCHANGED objects

RecordFailure(c, s) ==
  /\ handler[c].pc = "fail" /\ s \in handler[c].todo
  /\ Fail(s)
  /\ Become(c, Answered(c, s, Idle))

ClearRateLimit(c, s) ==
  /\ handler[c].pc = "reset" /\ s \in handler[c].todo
  /\ Wipe(s)
  /\ Become(c, Answered(c, s, Idle))

-----------------------------------------------------------------------------
(* Time.                                                                   *)

Less(x) == IF x = 0 THEN 0 ELSE x - 1

\* An absent record does not age.
Tick ==
  /\ store' = [s \in Subjects |->
       IF store[s].failures = 0 THEN store[s]
       ELSE [store[s] EXCEPT !.locked = Less(@), !.idle = AtMost(@ + 1, Decay + 1)]]
  /\ alarm' = [s \in Subjects |-> Less(alarm[s])]
  /\ UNCHANGED <<handler, late>>

\* An alarm goes off when it is due, or some time after.
Alarm(s) ==
  /\ store[s].failures > 0 /\ alarm[s] = 0
  /\ Wipe(s)
  /\ UNCHANGED handler

-----------------------------------------------------------------------------

Init ==
  /\ store = [s \in Subjects |-> Fresh]
  /\ alarm = [s \in Subjects |-> 0]
  /\ handler = [c \in Clients |-> Idle]
  /\ late = [s \in Subjects |-> 0]

Next ==
  \/ \E c \in Clients : Attempt(c) \/ Verify(c)
  \/ \E c \in Clients, s \in Subjects :
       Peek(c, s) \/ RecordFailure(c, s) \/ ClearRateLimit(c, s)
  \/ Tick
  \/ \E s \in Subjects : Alarm(s)

Spec == Init /\ [][Next]_vars

\* Time passes.
FairSpec == Spec /\ WF_vars(Tick)

-----------------------------------------------------------------------------
(* Properties.                                                             *)

\* The call that a handler makes of the object in this step.
Calls(pc, s) ==
  \E c \in Clients : /\ handler[c].pc = pc /\ s \in handler[c].todo
                     /\ s \notin handler'[c].todo
Clearing(s) == Calls("reset", s)
Failing(s) == Calls("fail", s)

Elapsed == IF Tick THEN 1 ELSE 0

\* A lockout that is running is served in full: until a success clears it no
\* call, alarm or decay makes it shorter, only the passing of time.  The comment
\* in load() warns of a lockout that forgives itself.
LockoutServed ==
  [][\A s \in Subjects :
       store[s].locked > 0 /\ ~Clearing(s) =>
         store'[s].locked + Elapsed >= store[s].locked]_vars

\* Failures are lost: there are fewer than before, or one more has been recorded and
\* there are not as many more.
Forgets(s) ==
  \/ store'[s].failures < store[s].failures
  \/ Failing(s) /\ store'[s].failures < AtMost(store[s].failures + 1, MaxCount)

\* Failures are forgotten by a success, or when the lockout is over and a whole decay
\* window has passed since the last of them: neither the fail() that starts to count
\* again nor the alarm does it earlier.
ForgivenOnlyIdle ==
  [][\A s \in Subjects :
       Forgets(s) /\ ~Clearing(s) => store[s].locked = 0 /\ store[s].idle >= Decay]_vars

ClientsOf(s) == {c \in Clients : s \in SubjectsOf[c]}

\* A lockout stops everyone but the requests that were past the check when it
\* began: the gap between peek and fail lets in one guess per handler, no more.
LateAttemptsBounded ==
  \A s \in Subjects :
    late[s] > 0 => late[s] < Cardinality(ClientsOf(s))

\* The backoff tops out: a lockout longer than the decay window is forgiven the
\* moment it ends, so apart from late failures the count goes no further than
\* the first such lockout.
BackoffTopsOut ==
  \A s \in Subjects :
    LET n == store[s].failures
    IN n > late[s] + 1 => LockoutFor(n - late[s] - 1, s) <= Decay

\* A lockout is never permanent: whoever keeps trying gets through again, since a
\* blocked attempt does not count as a failure.
LockoutEnds ==
  \A s \in Subjects : Locked(s) ~> ~Locked(s)
=============================================================================
