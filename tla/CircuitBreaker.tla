--------------------------- MODULE CircuitBreaker ---------------------------
(***************************************************************************)
(* The per-provider circuit breaker of @cid/platform, as operators on one  *)
(* circuit entry.  The class keeps one entry per provider key and entries  *)
(* never touch each other, so one entry is the whole state that matters.   *)
(*                                                                         *)
(* Time.  The code only ever reads now - openedAt, and only while OPEN.    *)
(* An entry therefore carries that difference, "elapsed", in ticks; it     *)
(* stops at MaxCooldown because no cooldown is longer.  "failures" stops   *)
(* at FailureCap: beyond the threshold no branch reads its exact value.    *)
(***************************************************************************)
EXTENDS Integers

CONSTANTS
  FailureThreshold,  \* consecutive failures before opening
  SuccessThreshold,  \* successes in HALF_OPEN before closing
  BaseCooldown,      \* ticks an opened circuit fails fast
  MaxCooldown,       \* cap on the doubling of the cooldown
  FailureCap         \* bound: the failure count saturates here

ASSUME BreakerAssumption ==
  /\ FailureThreshold \in Nat \ {0}
  /\ SuccessThreshold \in Nat \ {0}
  /\ BaseCooldown \in Nat \ {0}
  /\ MaxCooldown \in Nat
  /\ BaseCooldown <= MaxCooldown
  /\ FailureCap \in Nat
  /\ FailureThreshold <= FailureCap

CircuitState == {"CLOSED", "OPEN", "HALF_OPEN"}

CircuitEntry ==
  [state: CircuitState, failures: 0..FailureCap, successes: Nat,
   elapsed: 0..MaxCooldown, cooldown: 1..MaxCooldown, probeInFlight: BOOLEAN]

NewEntry ==
  [state |-> "CLOSED", failures |-> 0, successes |-> 0, elapsed |-> 0,
   cooldown |-> BaseCooldown, probeInFlight |-> FALSE]

Lesser(a, b) == IF a <= b THEN a ELSE b

(***************************************************************************)
(* canRequest: whether a call is let through, and the entry it leaves.     *)
(***************************************************************************)
\* Mutant of Admits: no probe gate.
AdmitsAnyTrial(c) ==
  c.state \in {"CLOSED", "HALF_OPEN"} \/ (c.state = "OPEN" /\ c.elapsed >= c.cooldown)

Admits(c) ==
  \/ c.state = "CLOSED"
  \/ c.state = "OPEN" /\ c.elapsed >= c.cooldown
  \/ c.state = "HALF_OPEN" /\ ~c.probeInFlight

\* Mutant of AfterAdmit: every trial starts the count of successes afresh.
AfterAdmitRestarting(c) ==
  IF c.state = "CLOSED" THEN c
  ELSE [c EXCEPT !.state = "HALF_OPEN", !.successes = 0, !.probeInFlight = TRUE]

AfterAdmit(c) ==
  CASE c.state = "CLOSED" -> c
    [] c.state = "OPEN" -> [c EXCEPT !.state = "HALF_OPEN", !.successes = 0,
                                     !.probeInFlight = TRUE]
    [] OTHER -> [c EXCEPT !.probeInFlight = TRUE]

(***************************************************************************)
(* recordSuccess and recordFailure.  Neither asks which call reports: the  *)
(* entry is all they see.                                                  *)
(***************************************************************************)
AfterSuccess(c) ==
  IF c.state # "HALF_OPEN"
  THEN [c EXCEPT !.probeInFlight = FALSE, !.failures = 0]
  ELSE IF c.successes + 1 >= SuccessThreshold
       THEN NewEntry
       ELSE [c EXCEPT !.probeInFlight = FALSE, !.successes = @ + 1]

\* Mutant of AfterFailure: a late failure opens an OPEN circuit afresh.
Reopened(c, cooldown) ==
  [c EXCEPT !.state = "OPEN", !.elapsed = 0, !.successes = 0, !.probeInFlight = FALSE,
            !.failures = Lesser(@ + 1, FailureCap), !.cooldown = cooldown]

AfterFailureWhileOpen(c) ==
  IF c.state = "HALF_OPEN"
  THEN Reopened(c, Lesser(2 * c.cooldown, MaxCooldown))
  ELSE IF c.failures + 1 >= FailureThreshold
  THEN Reopened(c, BaseCooldown)
  ELSE [c EXCEPT !.probeInFlight = FALSE, !.failures = @ + 1]

AfterFailure(c) ==
  LET counted == [c EXCEPT !.probeInFlight = FALSE,
                           !.failures = Lesser(@ + 1, FailureCap)]
  IN CASE c.state = "HALF_OPEN" ->
            [counted EXCEPT !.state = "OPEN", !.elapsed = 0, !.successes = 0,
                            !.cooldown = Lesser(2 * @, MaxCooldown)]
       [] c.state = "CLOSED" /\ counted.failures >= FailureThreshold ->
            [counted EXCEPT !.state = "OPEN", !.elapsed = 0]
       [] OTHER -> counted

\* One tick of the clock, as an OPEN circuit sees it.
AfterTick(c) ==
  IF c.state = "OPEN" THEN [c EXCEPT !.elapsed = Lesser(@ + 1, MaxCooldown)] ELSE c
=============================================================================
