----------------------------- MODULE HttpClient -----------------------------
(***************************************************************************)
(* ResilientHttpClient.request for one provider: several calls in flight   *)
(* at once, each cut at its awaits, sharing one circuit-breaker entry.     *)
(*                                                                         *)
(*   idle -> acquire -> fetch -> (backoff -> reacquire -> fetch)* -> idle  *)
(*                                                                         *)
(* What comes before the breaker (the response cache) and what it answers  *)
(* when it refuses leave all of this state alone, so a cache hit and a     *)
(* CircuitOpenError are stuttering steps.  An abort signal, a timeout and  *)
(* a limiter that cannot reach Redis can strike at any await.              *)
(*                                                                         *)
(* Ghosts: era[r] says under which rule call r was admitted, and strays    *)
(* counts the reports that did not come from the current half-open         *)
(* period's trials.                                                        *)
(***************************************************************************)
EXTENDS CircuitBreaker, FiniteSets

CONSTANTS
  Requests,        \* the calls that can be in flight to the provider
  MaxRetries,      \* options.maxRetries
  LimiterMayFail   \* whether waiting for the first permit can throw

ASSUME ClientAssumption ==
  /\ IsFiniteSet(Requests)
  /\ MaxRetries \in Nat
  /\ LimiterMayFail \in BOOLEAN

VARIABLES
  circuit,       \* the provider's entry in the breaker
  phase,         \* phase[r]: the await call r stands at
  attempt,       \* attempt[r]: the loop variable of the retry loop
  up,            \* environment: the provider answers properly
  era, strays

vars == <<circuit, phase, attempt, up, era, strays>>

Phases == {"idle", "acquire", "fetch", "backoff", "reacquire"}
Eras == {"none", "closed", "trial", "old"}

\* Calls past the breaker whose outcome it has not been told.
InFlight == {r \in Requests : phase[r] # "idle"}

\* The trial calls of the current (or last) half-open period.
Trials == {r \in Requests : era[r] = "trial"}

Init ==
  /\ circuit = NewEntry
  /\ phase = [r \in Requests |-> "idle"]
  /\ attempt = [r \in Requests |-> 0]
  /\ up \in BOOLEAN
  /\ era = [r \in Requests |-> "none"]
  /\ strays = 0

(***************************************************************************)
(* The breaker lets call r through.  The call that turns OPEN into         *)
(* HALF_OPEN starts a new period: every other call in flight is now old.   *)
(***************************************************************************)
Admit(r) ==
  /\ phase[r] = "idle"
  /\ Admits(circuit)
  /\ circuit' = AfterAdmit(circuit)
  /\ phase' = [phase EXCEPT ![r] = "acquire"]
  /\ attempt' = [attempt EXCEPT ![r] = 0]
  /\ era' = [q \in Requests |->
               IF q = r
               THEN IF circuit.state = "CLOSED" THEN "closed" ELSE "trial"
               ELSE IF circuit.state = "OPEN" /\ era[q] # "none" THEN "old" ELSE era[q]]
  /\ strays' = IF circuit.state = "OPEN" THEN 0 ELSE strays
  /\ UNCHANGED up

AcquirePermit(r) ==
  /\ phase[r] \in {"acquire", "reacquire"}
  /\ phase' = [phase EXCEPT ![r] = "fetch"]
  /\ UNCHANGED <<circuit, attempt, up, era, strays>>

\* rateLimiter.acquire throws before the first attempt: the error is
\* returned at once, and the breaker that admitted the call hears nothing.
AbandonUnrecorded(r) ==
  /\ LimiterMayFail
  /\ phase[r] = "acquire"
  /\ phase' = [phase EXCEPT ![r] = "idle"]
  /\ era' = [era EXCEPT ![r] = "none"]
  /\ UNCHANGED <<circuit, attempt, up, strays>>

\* Call r tells the breaker its outcome and returns.
Report(r, newCircuit) ==
  /\ circuit' = newCircuit
  /\ phase' = [phase EXCEPT ![r] = "idle"]
  /\ era' = [era EXCEPT ![r] = "none"]
  /\ strays' = IF circuit.state = "HALF_OPEN" /\ era[r] # "trial"
               THEN strays + 1 ELSE strays
  /\ UNCHANGED <<attempt, up>>

Succeed(r) ==
  /\ phase[r] = "fetch"
  /\ Report(r, AfterSuccess(circuit))

\* A non-retryable answer, or a retryable one on the last attempt.
FailForGood(r) ==
  /\ phase[r] = "fetch"
  /\ ~up
  /\ Report(r, AfterFailure(circuit))

\* Mutant of FailRetryably: the loop variable is never advanced.
FailRetryablyForever(r) ==
  /\ phase[r] = "fetch" /\ ~up
  /\ attempt[r] < MaxRetries
  /\ phase' = [phase EXCEPT ![r] = "backoff"]
  /\ UNCHANGED <<circuit, attempt, up, era, strays>>

FailRetryably(r) ==
  /\ phase[r] = "fetch"
  /\ ~up
  /\ attempt[r] < MaxRetries
  /\ phase' = [phase EXCEPT ![r] = "backoff"]
  /\ attempt' = [attempt EXCEPT ![r] = @ + 1]
  /\ UNCHANGED <<circuit, up, era, strays>>

BackoffOver(r) ==
  /\ phase[r] = "backoff"
  /\ phase' = [phase EXCEPT ![r] = "reacquire"]
  /\ UNCHANGED <<circuit, attempt, up, era, strays>>

\* An abort during the backoff, or a limiter that throws before a retry,
\* breaks out of the loop and does count as a failure.
AbortRetry(r) ==
  /\ phase[r] \in {"backoff", "reacquire"}
  /\ Report(r, AfterFailure(circuit))

Tick ==
  /\ circuit' = AfterTick(circuit)
  /\ UNCHANGED <<phase, attempt, up, era, strays>>

ProviderChanges ==
  /\ up' = ~up
  /\ UNCHANGED <<circuit, phase, attempt, era, strays>>

Next ==
  \/ \E r \in Requests :
       \/ Admit(r) \/ AcquirePermit(r) \/ AbandonUnrecorded(r) \/ Succeed(r)
       \/ FailForGood(r) \/ FailRetryably(r) \/ BackoffOver(r) \/ AbortRetry(r)
  \/ Tick
  \/ ProviderChanges

Spec == Init /\ [][Next]_vars

(***************************************************************************)
(* Fairness.  A permit is granted in time (the bucket refills), a fetch is *)
(* ended by its timeout, a backoff by its timer, time passes, and the      *)
(* scheduler keeps calling.  Nothing makes the provider change, a limiter  *)
(* fail or a signal abort.                                                 *)
(***************************************************************************)
Progress(r) ==
  AcquirePermit(r) \/ Succeed(r) \/ FailForGood(r) \/ FailRetryably(r) \/ BackoffOver(r)

Fairness ==
  /\ \A r \in Requests : WF_vars(Progress(r)) /\ WF_vars(Admit(r))
  /\ WF_vars(Tick)

FairSpec == Spec /\ Fairness
-----------------------------------------------------------------------------
TypeOK ==
  /\ circuit \in CircuitEntry
  /\ phase \in [Requests -> Phases]
  /\ attempt \in [Requests -> 0..MaxRetries]
  /\ up \in BOOLEAN
  /\ era \in [Requests -> Eras]
  /\ strays \in Nat

(***************************************************************************)
(* What the three states promise, whatever order late reports arrive in:   *)
(* a CLOSED circuit is below the threshold with its cooldown back at the   *)
(* base, a HALF_OPEN one still lacks a success, and only a HALF_OPEN one   *)
(* can be holding a probe (CircuitEntry of circuit-breaker.ts).            *)
(***************************************************************************)
ClosedIsClean ==
  circuit.state = "CLOSED" =>
    circuit.failures < FailureThreshold /\ circuit.cooldown = BaseCooldown
HalfOpenIsUndecided ==
  circuit.state = "HALF_OPEN" => circuit.successes < SuccessThreshold
ProbeOnlyHalfOpen ==
  circuit.probeInFlight => circuit.state = "HALF_OPEN"
StatesConsistent == ClosedIsClean /\ HalfOpenIsUndecided /\ ProbeOnlyHalfOpen

(***************************************************************************)
(* How far the probe gate can leak.  Trial calls in flight never outnumber *)
(* the one probe the gate admits plus the reports, in the same half-open   *)
(* period, of calls admitted before it: each such late report clears       *)
(* probeInFlight once although the probe is still out.                     *)
(***************************************************************************)
TrialsBounded ==
  Cardinality(Trials) <= strays + (IF circuit.probeInFlight THEN 1 ELSE 0)

(***************************************************************************)
(* The cooldown never shrinks except by closing the circuit, so a longer   *)
(* outage is polled no more often: a failed trial, a late failure and a    *)
(* late success can all reach recordSuccess and recordFailure while OPEN.  *)
(***************************************************************************)
CooldownEscalates ==
  [][circuit'.state # "CLOSED" => circuit'.cooldown >= circuit.cooldown]_vars

\* Every admitted call returns: retries, backoffs and late answers end.
CallsReturn == \A r \in Requests : phase[r] # "idle" ~> phase[r] = "idle"

(***************************************************************************)
(* circuit-breaker.ts:37, "True while a HALF_OPEN trial request is in      *)
(* flight": the flag is held only while some call that can clear it is in  *)
(* flight.  The code does not keep this (probe_leak): AbandonUnrecorded of *)
(* the probe leaves the flag up with nobody to clear it, and the gate shut *)
(* for good.                                                               *)
(***************************************************************************)
ProbeFlagIsHeldByACall == circuit.probeInFlight => InFlight # {}

\* As long as no probe is abandoned that way, a provider that stays healthy
\* sees its circuit come back to CLOSED, again and again.
Recovers ==
  []ProbeFlagIsHeldByACall /\ <>[]up => []<>(circuit.state = "CLOSED")
=============================================================================
