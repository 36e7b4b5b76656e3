-------------------------- MODULE HttpClientProofs --------------------------
(***************************************************************************)
(* Theorems about HttpClient, for any number of concurrent calls and any   *)
(* values of the thresholds and cooldowns allowed by the assumptions.      *)
(***************************************************************************)
EXTENDS HttpClient, FiniteSetTheorems, TLAPS

USE DEF CircuitState, Phases, Eras

(***************************************************************************)
(* The breaker's operators.                                                *)
(***************************************************************************)
LEMMA ReopenedTyped ==
  ASSUME NEW c \in CircuitEntry, NEW k \in 1..MaxCooldown
  PROVE  [c EXCEPT !.state = "OPEN", !.elapsed = 0, !.successes = 0, !.cooldown = k]
           \in CircuitEntry
<1>1. 0 \in 0..MaxCooldown /\ 0 \in Nat
  BY BreakerAssumption
<1>2. QED
  BY <1>1 DEF CircuitEntry

LEMMA EntryOperatorsTyped ==
  ASSUME NEW c \in CircuitEntry
  PROVE  /\ NewEntry \in CircuitEntry
         /\ AfterAdmit(c) \in CircuitEntry
         /\ AfterSuccess(c) \in CircuitEntry
         /\ AfterFailure(c) \in CircuitEntry
         /\ AfterTick(c) \in CircuitEntry
<1> USE BreakerAssumption DEF CircuitEntry, Lesser
<1>1. NewEntry \in CircuitEntry
  BY DEF NewEntry
<1>2. AfterAdmit(c) \in CircuitEntry
  BY DEF AfterAdmit
<1>3. AfterSuccess(c) \in CircuitEntry
  <2>1. 0 \in 0..FailureCap /\ c.successes + 1 \in Nat
    OBVIOUS
  <2>2. CASE c.state # "HALF_OPEN"
    BY <2>1, <2>2 DEF AfterSuccess
  <2>3. CASE c.state = "HALF_OPEN" /\ c.successes + 1 >= SuccessThreshold
    BY <1>1, <2>3 DEF AfterSuccess
  <2>4. CASE c.state = "HALF_OPEN" /\ ~(c.successes + 1 >= SuccessThreshold)
    BY <2>1, <2>4 DEF AfterSuccess
  <2>5. QED
    BY <2>2, <2>3, <2>4
<1>4. AfterFailure(c) \in CircuitEntry
  <2> DEFINE counted == [c EXCEPT !.probeInFlight = FALSE,
                                  !.failures = Lesser(@ + 1, FailureCap)]
  <2>1. counted \in CircuitEntry
    <3>1. Lesser(c.failures + 1, FailureCap) \in 0..FailureCap
      OBVIOUS
    <3>2. QED
      BY <3>1
  <2>2. counted.state = c.state
    OBVIOUS
  <2>3. AfterFailure(c) =
          CASE c.state = "HALF_OPEN" ->
                 [counted EXCEPT !.state = "OPEN", !.elapsed = 0, !.successes = 0,
                                 !.cooldown = Lesser(2 * @, MaxCooldown)]
            [] c.state = "CLOSED" /\ counted.failures >= FailureThreshold ->
                 [counted EXCEPT !.state = "OPEN", !.elapsed = 0]
            [] OTHER -> counted
    BY DEF AfterFailure
  <2> HIDE DEF counted
  <2>4. 0 \in 0..MaxCooldown /\ Lesser(2 * counted.cooldown, MaxCooldown) \in 1..MaxCooldown
    <3>1. counted.cooldown \in 1..MaxCooldown
      BY <2>1
    <3>2. \A k \in 1..MaxCooldown : Lesser(2 * k, MaxCooldown) \in 1..MaxCooldown
      OBVIOUS
    <3>3. 0 \in 0..MaxCooldown
      OBVIOUS
    <3>4. QED
      BY <3>1, <3>2, <3>3
  <2>5. CASE c.state = "HALF_OPEN"
    <3> DEFINE longer == Lesser(2 * counted.cooldown, MaxCooldown)
    <3>1. AfterFailure(c) = [counted EXCEPT !.state = "OPEN", !.elapsed = 0, !.successes = 0,
                                            !.cooldown = longer]
      BY <2>3, <2>5
    <3>2. longer \in 1..MaxCooldown
      BY <2>4
    <3> HIDE DEF longer
    <3>3. QED
      BY <2>1, <3>1, <3>2, ReopenedTyped
  <2>6. CASE c.state = "CLOSED" /\ counted.failures >= FailureThreshold
    BY <2>1, <2>3, <2>4, <2>6
  <2>7. CASE c.state # "HALF_OPEN" /\ ~(c.state = "CLOSED" /\ counted.failures >= FailureThreshold)
    BY <2>1, <2>3, <2>7
  <2>8. QED
    BY <2>5, <2>6, <2>7
<1>5. AfterTick(c) \in CircuitEntry
  BY DEF AfterTick
<1>6. QED
  BY <1>1, <1>2, <1>3, <1>4, <1>5

\* The part of StatesConsistent that speaks of one entry.
Consistent(c) ==
  /\ c.state = "CLOSED" => c.failures < FailureThreshold /\ c.cooldown = BaseCooldown
  /\ c.state = "HALF_OPEN" => c.successes < SuccessThreshold
  /\ c.probeInFlight => c.state = "HALF_OPEN"

LEMMA EntryOperatorsConsistent ==
  ASSUME NEW c \in CircuitEntry, Consistent(c)
  PROVE  /\ Consistent(NewEntry)
         /\ Admits(c) => Consistent(AfterAdmit(c))
         /\ Consistent(AfterSuccess(c))
         /\ Consistent(AfterFailure(c))
         /\ Consistent(AfterTick(c))
<1> USE BreakerAssumption DEF CircuitEntry, Lesser, Consistent
<1>1. Consistent(NewEntry)
  BY DEF NewEntry
<1>2. Admits(c) => Consistent(AfterAdmit(c))
  BY DEF AfterAdmit, Admits
<1>3. Consistent(AfterSuccess(c))
  BY DEF AfterSuccess, NewEntry
<1>4. Consistent(AfterFailure(c))
  <2>1. CASE c.state = "HALF_OPEN"
    <3>1. AfterFailure(c).state = "OPEN" /\ ~AfterFailure(c).probeInFlight
      BY <2>1 DEF AfterFailure
    <3>2. QED
      BY <3>1
  <2>2. CASE c.state = "CLOSED"
    <3>1. ~AfterFailure(c).probeInFlight
      BY <2>2 DEF AfterFailure
    <3>2. AfterFailure(c).state \in {"CLOSED", "OPEN"}
      BY <2>2 DEF AfterFailure
    <3>3. AfterFailure(c).state = "CLOSED" =>
            AfterFailure(c).failures < FailureThreshold /\ AfterFailure(c).cooldown = BaseCooldown
      BY <2>2 DEF AfterFailure
    <3>4. QED
      BY <3>1, <3>2, <3>3
  <2>3. CASE c.state = "OPEN"
    <3>1. AfterFailure(c).state = "OPEN" /\ ~AfterFailure(c).probeInFlight
      BY <2>3 DEF AfterFailure
    <3>2. QED
      BY <3>1
  <2>4. QED
    BY <2>1, <2>2, <2>3
<1>5. Consistent(AfterTick(c))
  BY DEF AfterTick
<1>6. QED
  BY <1>1, <1>2, <1>3, <1>4, <1>5

\* Only closing may lower the cooldown.
LEMMA EntryOperatorsEscalate ==
  ASSUME NEW c \in CircuitEntry
  PROVE  /\ AfterAdmit(c).cooldown = c.cooldown
         /\ AfterTick(c).cooldown = c.cooldown
         /\ AfterSuccess(c).state # "CLOSED" => AfterSuccess(c).cooldown = c.cooldown
         /\ AfterFailure(c).cooldown >= c.cooldown
<1> USE BreakerAssumption DEF CircuitEntry
<1>1. AfterAdmit(c).cooldown = c.cooldown
  BY DEF AfterAdmit
<1>2. AfterTick(c).cooldown = c.cooldown
  BY DEF AfterTick
<1>3. AfterSuccess(c).state # "CLOSED" => AfterSuccess(c).cooldown = c.cooldown
  BY DEF AfterSuccess, NewEntry
<1>4. AfterFailure(c).cooldown >= c.cooldown
  <2>1. c.cooldown \in 1..MaxCooldown
    OBVIOUS
  <2>2. Lesser(2 * c.cooldown, MaxCooldown) >= c.cooldown
    BY <2>1 DEF Lesser
  <2>3. CASE c.state = "HALF_OPEN"
    <3>1. AfterFailure(c).cooldown = Lesser(2 * c.cooldown, MaxCooldown)
      BY <2>3 DEF AfterFailure
    <3>2. QED
      BY <2>2, <3>1
  <2>4. CASE c.state # "HALF_OPEN"
    <3>1. AfterFailure(c).cooldown = c.cooldown
      BY <2>4 DEF AfterFailure
    <3>2. QED
      BY <2>1, <3>1
  <2>5. QED
    BY <2>3, <2>4
<1>5. QED
  BY <1>1, <1>2, <1>3, <1>4

(***************************************************************************)
(* How each step treats the circuit: the case analysis of Next, once.      *)
(***************************************************************************)
LEMMA CircuitSteps ==
  ASSUME [Next]_vars
  PROVE  \/ UNCHANGED circuit
         \/ Admits(circuit) /\ circuit' = AfterAdmit(circuit)
         \/ circuit' = AfterSuccess(circuit)
         \/ circuit' = AfterFailure(circuit)
         \/ circuit' = AfterTick(circuit)
  BY DEF Next, vars, Admit, AcquirePermit, AbandonUnrecorded, Succeed, FailForGood,
         FailRetryably, BackoffOver, AbortRetry, Report, Tick, ProviderChanges

(***************************************************************************)
(* Type correctness.                                                       *)
(***************************************************************************)
THEOREM TypeCorrect == Spec => []TypeOK
<1>1. Init => TypeOK
  BY EntryOperatorsTyped, BreakerAssumption, ClientAssumption
  DEF Init, TypeOK, NewEntry, CircuitEntry
<1>2. TypeOK /\ [Next]_vars => TypeOK'
  <2> SUFFICES ASSUME TypeOK, [Next]_vars PROVE TypeOK'
    OBVIOUS
  <2> USE DEF TypeOK
  <2>1. circuit' \in CircuitEntry
    BY CircuitSteps, EntryOperatorsTyped
  <2>2. ASSUME NEW r \in Requests, Admit(r) PROVE TypeOK'
    BY <2>1, <2>2, ClientAssumption DEF Admit
  <2>3. ASSUME NEW r \in Requests, AcquirePermit(r) PROVE TypeOK'
    BY <2>1, <2>3 DEF AcquirePermit
  <2>4. ASSUME NEW r \in Requests, AbandonUnrecorded(r) PROVE TypeOK'
    BY <2>1, <2>4 DEF AbandonUnrecorded
  <2>5. ASSUME NEW r \in Requests, Succeed(r) PROVE TypeOK'
    BY <2>1, <2>5 DEF Succeed, Report
  <2>6. ASSUME NEW r \in Requests, FailForGood(r) PROVE TypeOK'
    BY <2>1, <2>6 DEF FailForGood, Report
  <2>7. ASSUME NEW r \in Requests, FailRetryably(r) PROVE TypeOK'
    BY <2>1, <2>7, ClientAssumption DEF FailRetryably
  <2>8. ASSUME NEW r \in Requests, BackoffOver(r) PROVE TypeOK'
    BY <2>1, <2>8 DEF BackoffOver
  <2>9. ASSUME NEW r \in Requests, AbortRetry(r) PROVE TypeOK'
    BY <2>1, <2>9 DEF AbortRetry, Report
  <2>10. CASE Tick
    BY <2>1, <2>10 DEF Tick
  <2>11. CASE ProviderChanges
    BY <2>1, <2>11 DEF ProviderChanges
  <2>12. CASE UNCHANGED vars
    BY <2>12 DEF vars
  <2>13. QED
    BY <2>2, <2>3, <2>4, <2>5, <2>6, <2>7, <2>8, <2>9, <2>10, <2>11, <2>12 DEF Next
<1>3. QED
  BY <1>1, <1>2, PTL DEF Spec

(***************************************************************************)
(* The three breaker states keep their promises.                           *)
(***************************************************************************)
THEOREM StatesStayConsistent == Spec => []StatesConsistent
<1> USE DEF StatesConsistent, ClosedIsClean, HalfOpenIsUndecided, ProbeOnlyHalfOpen
<1>1. Init => StatesConsistent
  BY BreakerAssumption DEF Init, NewEntry
<1>2. TypeOK /\ StatesConsistent /\ [Next]_vars => StatesConsistent'
  <2> SUFFICES ASSUME TypeOK, StatesConsistent, [Next]_vars PROVE StatesConsistent'
    OBVIOUS
  <2>1. circuit \in CircuitEntry /\ Consistent(circuit)
    BY DEF TypeOK, Consistent
  <2>2. Consistent(circuit')
    BY <2>1, CircuitSteps, EntryOperatorsConsistent
  <2>3. QED
    BY <2>2 DEF Consistent
<1>3. QED
  BY <1>1, <1>2, TypeCorrect, PTL DEF Spec

(***************************************************************************)
(* The cooldown only grows until the circuit closes.                       *)
(***************************************************************************)
THEOREM CooldownOnlyEscalates == Spec => CooldownEscalates
<1>1. TypeOK /\ [Next]_vars
        => [circuit'.state # "CLOSED" => circuit'.cooldown >= circuit.cooldown]_vars
  <2> SUFFICES ASSUME TypeOK, [Next]_vars
               PROVE  circuit'.state # "CLOSED" => circuit'.cooldown >= circuit.cooldown
    OBVIOUS
  <2>1. circuit \in CircuitEntry
    BY DEF TypeOK
  <2>2. circuit.cooldown >= circuit.cooldown
    BY <2>1 DEF CircuitEntry
  <2>3. QED
    BY <2>1, <2>2, CircuitSteps, EntryOperatorsEscalate
<1>2. QED
  BY <1>1, TypeCorrect, PTL DEF Spec, CooldownEscalates

(***************************************************************************)
(* The leak of the probe gate is bounded by the late reports.              *)
(***************************************************************************)
Held(c) == IF c.probeInFlight THEN 1 ELSE 0

\* A call that leaves takes itself, and nothing else, out of Trials.
LEMMA TrialsWithout ==
  ASSUME TypeOK, NEW r \in Requests, era' = [era EXCEPT ![r] = "none"]
  PROVE  Trials' = Trials \ {r}
  BY DEF Trials, TypeOK

LEMMA CardinalityWithout ==
  ASSUME NEW S, NEW x, IsFiniteSet(S)
  PROVE  Cardinality(S \ {x}) \in Nat /\ Cardinality(S \ {x}) <= Cardinality(S)
  BY FS_Subset, FS_CardinalityType, S \ {x} \in SUBSET S

LEMMA TrialsFinite == IsFiniteSet(Trials) /\ Cardinality(Trials) \in Nat
<1>1. IsFiniteSet(Trials)
  BY ClientAssumption, FS_Subset DEF Trials
<1>2. QED
  BY <1>1, FS_CardinalityType

\* recordSuccess and recordFailure both release the gate.
LEMMA ReportReleases ==
  ASSUME NEW c \in CircuitEntry
  PROVE  Held(AfterSuccess(c)) = 0 /\ Held(AfterFailure(c)) = 0
  BY DEF CircuitEntry, AfterSuccess, AfterFailure, NewEntry, Held

LEMMA ReportKeepsBound ==
  ASSUME TypeOK, StatesConsistent, TrialsBounded, NEW r \in Requests,
         phase[r] # "idle",
         NEW c, c \in {AfterSuccess(circuit), AfterFailure(circuit)}, Report(r, c)
  PROVE  TrialsBounded'
<1> DEFINE T == Cardinality(Trials)
<1>1. Trials' = Trials \ {r}
  BY TrialsWithout DEF Report
<1>2. T \in Nat /\ strays \in Nat /\ circuit \in CircuitEntry
  BY TrialsFinite DEF TypeOK
<1>3. Held(circuit') = 0
  BY <1>2, ReportReleases DEF Report
<1>4. T <= strays + Held(circuit)
  BY DEF TrialsBounded, Held
<1>5. Cardinality(Trials') = IF r \in Trials THEN T - 1 ELSE T
  BY <1>1, TrialsFinite, FS_RemoveElement
<1>6. CASE r \in Trials
  BY <1>2, <1>3, <1>4, <1>5, <1>6 DEF TrialsBounded, Held, Report
<1>7. CASE r \notin Trials
  <2>1. era[r] # "trial"
    BY <1>7 DEF Trials
  <2>2. strays' = strays + (IF circuit.state = "HALF_OPEN" THEN 1 ELSE 0)
    BY <1>2, <2>1 DEF Report
  <2>3. Held(circuit) = 1 => circuit.state = "HALF_OPEN"
    BY DEF Held, StatesConsistent, ProbeOnlyHalfOpen
  <2>4. T <= strays'
    BY <1>2, <1>4, <2>2, <2>3 DEF Held
  <2>5. QED
    BY <1>2, <1>3, <1>5, <1>7, <2>2, <2>4 DEF TrialsBounded, Held
<1>8. QED
  BY <1>6, <1>7

\* Trials in flight never outnumber the probe plus the late reports.
THEOREM TrialsStayBounded == Spec => []TrialsBounded
<1>1. Init => TrialsBounded
  <2> SUFFICES ASSUME Init PROVE TrialsBounded
    OBVIOUS
  <2>1. Trials = {}
    BY DEF Init, Trials
  <2>2. QED
    BY <2>1, FS_EmptySet DEF Init, TrialsBounded, NewEntry
<1>2. TypeOK /\ StatesConsistent /\ TrialsBounded /\ [Next]_vars => TrialsBounded'
  <2> SUFFICES ASSUME TypeOK, StatesConsistent, TrialsBounded, [Next]_vars
               PROVE  TrialsBounded'
    OBVIOUS
  <2>1. ASSUME NEW r \in Requests, Admit(r) PROVE TrialsBounded'
    <3>1. CASE circuit.state = "CLOSED"
      <4>1. Trials' = Trials \ {r}
        BY <2>1, <3>1 DEF Admit, Trials, TypeOK
      <4>2. Cardinality(Trials') <= Cardinality(Trials) 
        BY <4>1, TrialsFinite, CardinalityWithout
      <4>3. circuit' = circuit /\ strays' = strays
        BY <2>1, <3>1 DEF Admit, AfterAdmit
      <4>4. Cardinality(Trials') \in Nat
        BY <4>1, TrialsFinite, CardinalityWithout
      <4>5. QED
        BY <4>2, <4>3, <4>4, TrialsFinite DEF TrialsBounded, TypeOK
    <3>2. CASE circuit.state = "OPEN"
      <4>1. Trials' = {r}
        BY <2>1, <3>2 DEF Admit, Trials, TypeOK
      <4>2. circuit'.probeInFlight /\ strays' = 0
        BY <2>1, <3>2 DEF Admit, AfterAdmit, TypeOK, CircuitEntry
      <4>3. Cardinality(Trials') = 1
        BY <4>1, FS_Singleton
      <4>4. QED
        BY <4>2, <4>3 DEF TrialsBounded
    <3>3. CASE circuit.state = "HALF_OPEN"
      <4>1. Trials' = Trials \cup {r}
        BY <2>1, <3>3 DEF Admit, Trials, TypeOK
      <4>2. ~circuit.probeInFlight /\ circuit'.probeInFlight /\ strays' = strays
        BY <2>1, <3>3 DEF Admit, Admits, AfterAdmit, TypeOK, CircuitEntry
      <4>3. Cardinality(Trials') <= Cardinality(Trials) + 1 /\ Cardinality(Trials') \in Nat
        BY <4>1, TrialsFinite, FS_AddElement, FS_CardinalityType
      <4>4. QED
        BY <4>2, <4>3, TrialsFinite DEF TrialsBounded, TypeOK
    <3>4. QED
      BY <3>1, <3>2, <3>3 DEF TypeOK, CircuitEntry
  <2>2. ASSUME NEW r \in Requests, AbandonUnrecorded(r) PROVE TrialsBounded'
    <3>1. Trials' = Trials \ {r}
      BY <2>2, TrialsWithout DEF AbandonUnrecorded
    <3>2. Cardinality(Trials') <= Cardinality(Trials) 
      BY <3>1, TrialsFinite, CardinalityWithout
    <3>3. Cardinality(Trials') \in Nat
      BY <3>1, TrialsFinite, CardinalityWithout
    <3>4. QED
      BY <2>2, <3>2, <3>3, TrialsFinite DEF AbandonUnrecorded, TrialsBounded, TypeOK
  <2>3. ASSUME NEW r \in Requests, Succeed(r) PROVE TrialsBounded'
    BY <2>3, ReportKeepsBound DEF Succeed
  <2>4. ASSUME NEW r \in Requests, FailForGood(r) PROVE TrialsBounded'
    BY <2>4, ReportKeepsBound DEF FailForGood
  <2>5. ASSUME NEW r \in Requests, AbortRetry(r) PROVE TrialsBounded'
    BY <2>5, ReportKeepsBound DEF AbortRetry
  <2>6. CASE Tick
    BY <2>6 DEF Tick, AfterTick, TrialsBounded, Trials, TypeOK, CircuitEntry
  <2>7. ASSUME UNCHANGED <<circuit, era, strays>> PROVE TrialsBounded'
    BY <2>7 DEF TrialsBounded, Trials
  <2>8. QED
    BY <2>1, <2>2, <2>3, <2>4, <2>5, <2>6, <2>7
    DEF Next, vars, AcquirePermit, FailRetryably, BackoffOver, ProviderChanges
<1>3. QED
  BY <1>1, <1>2, TypeCorrect, StatesStayConsistent, PTL DEF Spec
=============================================================================
