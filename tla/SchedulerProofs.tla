--------------------------- MODULE SchedulerProofs ---------------------------
(***************************************************************************)
(* The scheduler, for any number of timers and invocations and any         *)
(* intervals the assumptions allow; the container, for any graphs of       *)
(* tokens; the worker, which starts and stops both; and what the           *)
(* repositories keep of its runs, for any replicas and requests, any       *)
(* pairs, coins and reports, any similarity of headlines and any crashes:  *)
(* the dates of the listings, the watchlist's order, the clusters.         *)
(***************************************************************************)
EXTENDS Scheduler, Worker, Listings, Roster, Clustering, FiniteSetTheorems,
        FunctionTheorems, SequenceTheorems, WellFoundedInduction, TLAPS

USE DEF MaxExponent, InTry, PCs

LEMMA PowersOfTwo == \A f \in 0..MaxExponent : 2^f \in Nat /\ 2^f >= 1
<1>1. 2^0 = 1 /\ 2^1 = 2 /\ 2^2 = 4 /\ 2^3 = 8
  OBVIOUS
<1>2. 2^4 = 16 /\ 2^5 = 32 /\ 2^6 = 64
  OBVIOUS
<1>3. ASSUME NEW f \in 0..MaxExponent PROVE 2^f \in Nat /\ 2^f >= 1
  <2>1. CASE f = 0
    BY <1>1, <2>1
  <2>2. CASE f = 1
    BY <1>1, <2>2
  <2>3. CASE f = 2
    BY <1>1, <2>3
  <2>4. CASE f = 3
    BY <1>1, <2>4
  <2>5. CASE f = 4
    BY <1>2, <2>5
  <2>6. CASE f = 5
    BY <1>2, <2>6
  <2>7. CASE f = 6
    BY <1>2, <2>7
  <2>8. QED
    BY <2>1, <2>2, <2>3, <2>4, <2>5, <2>6, <2>7
<1>4. QED
  BY <1>3

\* The delay #reschedule computes: a number, not below the declared cadence
\* but where the cap after a failure is, and then not above the cap.
Floored(d, i, f) ==
  /\ d >= IF f = 0 THEN i ELSE Lesser(i, BackoffCap)
  /\ f > 0 => d <= BackoffCap

LEMMA DelayBounds ==
  ASSUME NEW i \in Cadences, NEW f \in 0..MaxExponent
  PROVE  NextDelay(i, f) \in Nat /\ Floored(NextDelay(i, f), i, f)
<1>1. i \in Nat /\ BackoffCap \in Nat /\ Interval(i) \in Nat /\ Interval(i) >= i
  BY SchedulerAssumption DEF Interval, Larger
<1>2. \A n \in Nat, p \in Nat : p >= 1 => n * p \in Nat /\ n * p >= n
  <2>1. ASSUME NEW n \in Nat, NEW p \in Nat, p >= 1
        PROVE  n * p \in Nat /\ n * p >= n
    <3>1. PICK q \in Nat : p = q + 1
      BY <2>1
    <3>2. n * p = n * q + n /\ n * q \in Nat
      BY <3>1
    <3>3. QED
      BY <3>2
  <2>2. QED
    BY <2>1
<1>3. Interval(i) * 2^f \in Nat /\ Interval(i) * 2^f >= Interval(i)
  BY <1>1, <1>2, PowersOfTwo
<1> DEFINE product == Interval(i) * 2^f
<1>4. product \in Nat /\ product >= Interval(i)
  BY <1>3
<1>5. NextDelay(i, f) = IF f = 0 THEN Interval(i) ELSE Lesser(product, BackoffCap)
  BY DEF NextDelay
<1> HIDE DEF product
<1>6. QED
  BY <1>1, <1>4, <1>5 DEF Lesser, Floored

LEMMA DelaysTyped ==
  ASSUME NEW f \in 0..MaxExponent
  PROVE  [i \in Cadences |-> NextDelay(i, f)] \in [Cadences -> Nat]
BY DelayBounds

LEMMA ArmTyped ==
  ASSUME NEW others \in SUBSET Timers, Arm(others)
  PROVE  /\ armed' \in SUBSET Timers /\ handle' \in Timers
         /\ armed' # {}
BY DEF Arm

LEMMA RescheduleTyped ==
  ASSUME TypeOK, NEW others \in SUBSET Timers, Reschedule(others)
  PROVE  /\ armed' \in SUBSET Timers
         /\ handle' \in Timers \cup {NoTimer}
         /\ delay' \in [Cadences -> Nat]
         /\ ~stopped => armed' # {}
<1>1. CASE stopped
  BY <1>1 DEF Reschedule, TypeOK
<1>2. CASE ~stopped
  <2>1. Arm(others) /\ delay' = [i \in Cadences |-> NextDelay(i, failures)]
    BY <1>2 DEF Reschedule
  <2>2. QED
    BY <2>1, ArmTyped, DelaysTyped DEF TypeOK
<1>3. QED
  BY <1>1, <1>2

LEMMA EnterTickTyped ==
  ASSUME TypeOK, NEW k \in Ticks, NEW others \in SUBSET Timers, EnterTick(k, others)
  PROVE  /\ armed' \in SUBSET Timers
         /\ handle' \in Timers \cup {NoTimer}
         /\ delay' \in [Cadences -> Nat]
         /\ running' \in BOOLEAN
         /\ pc' \in [Ticks -> PCs]
<1>1. CASE stopped
  BY <1>1 DEF EnterTick, TypeOK
<1>2. CASE ~stopped /\ running
  BY <1>2, RescheduleTyped DEF EnterTick, TypeOK
<1>3. CASE ~stopped /\ ~running
  BY <1>3 DEF EnterTick, TypeOK
<1>4. QED
  BY <1>1, <1>2, <1>3 DEF TypeOK

LEMMA LeaveTryTyped ==
  ASSUME TypeOK, NEW k \in Ticks, LeaveTry(k), failures' \in 0..MaxExponent
  PROVE  TypeOK'
BY DEF LeaveTry, TypeOK

(***************************************************************************)
(* Type correctness.                                                       *)
(***************************************************************************)
LEMMA TypeKept ==
  ASSUME TypeOK, [Next]_vars
  PROVE  TypeOK'
<1>1. CASE Start
  BY <1>1 DEF Start, TypeOK
<1>2. CASE FinishStart
  BY <1>2, ArmTyped DEF FinishStart, TypeOK
<1>3. CASE Stop
  BY <1>3 DEF Stop, TypeOK
<1>4. ASSUME NEW t \in Timers, NEW k \in Ticks, TimerFires(t, k) PROVE TypeOK'
  <2>1. armed \ {t} \in SUBSET Timers
    BY DEF TypeOK
  <2>2. QED
    BY <1>4, <2>1, EnterTickTyped DEF TimerFires, TypeOK
<1>5. ASSUME NEW k \in Ticks, RunNow(k) PROVE TypeOK'
  <2>1. armed \ {handle} \in SUBSET Timers
    BY DEF TypeOK
  <2>2. QED
    BY <1>5, <2>1, EnterTickTyped DEF RunNow, TypeOK
<1>6. ASSUME NEW k \in Ticks, Advance(k) PROVE TypeOK'
  BY <1>6 DEF Advance, TypeOK
<1>7. ASSUME NEW k \in Ticks, MarkStored(k) PROVE TypeOK'
  BY <1>7, LeaveTryTyped DEF MarkStored, TypeOK
<1>8. ASSUME NEW k \in Ticks, RunFails(k) PROVE TypeOK'
  <2>1. Lesser(failures + 1, MaxExponent) \in 0..MaxExponent
    BY DEF Lesser, TypeOK
  <2>2. QED
    BY <1>8, <2>1, LeaveTryTyped DEF RunFails
<1>9. ASSUME NEW k \in Ticks, Recorded(k) PROVE TypeOK'
  BY <1>9, RescheduleTyped DEF Recorded, TypeOK
<1>10. CASE UNCHANGED vars
  BY <1>10 DEF vars, TypeOK
<1>11. QED
  BY <1>1, <1>2, <1>3, <1>4, <1>5, <1>6, <1>7, <1>8, <1>9, <1>10 DEF Next

\* The scheduler keeps its types, for any invocations, timers and intervals.
THEOREM TypeCorrect == Spec => []TypeOK
<1>1. Init => TypeOK
  <2> SUFFICES ASSUME Init PROVE TypeOK
    OBVIOUS
  <2>1. pc \in [Ticks -> PCs]
    BY DEF Init
  <2>2. failures \in 0..MaxExponent /\ delay \in [Cadences -> Nat] /\ runNows \in Nat
    BY DEF Init
  <2>3. armed \in SUBSET Timers /\ handle \in Timers \cup {NoTimer}
    BY DEF Init
  <2>4. QED
    BY <2>1, <2>2, <2>3 DEF Init, TypeOK
<1>2. QED
  BY <1>1, TypeKept, PTL DEF Spec

(***************************************************************************)
(* Overlap prevention.  NoOverlap is inductive as it stands: the flag is   *)
(* taken in the turn that tests it and dropped by the only run that is in  *)
(* its try block.                                                          *)
(***************************************************************************)
LEMMA LeaveTryKeepsNoOverlap ==
  ASSUME TypeOK, NoOverlap, NEW k \in Ticks, pc[k] \in InTry, LeaveTry(k)
  PROVE  NoOverlap'
BY DEF LeaveTry, NoOverlap, Collecting, TypeOK

LEMMA EnterTickKeepsNoOverlap ==
  ASSUME TypeOK, NoOverlap, NEW k \in Ticks, NEW others, EnterTick(k, others)
  PROVE  NoOverlap'
<1>1. CASE UNCHANGED <<running, pc>>
  BY <1>1 DEF NoOverlap, Collecting
<1>2. CASE ~running /\ running' = TRUE /\ pc' = [pc EXCEPT ![k] = "read"]
  BY <1>2 DEF NoOverlap, Collecting, TypeOK
<1>3. QED
  BY <1>1, <1>2 DEF EnterTick

\* A connector never has two runs in progress, whoever started them.
THEOREM RunsNeverOverlap == Spec => []NoOverlap
<1>1. Init => NoOverlap
  BY DEF Init, NoOverlap, Collecting
<1>2. TypeOK /\ NoOverlap /\ [Next]_vars => NoOverlap'
  <2> SUFFICES ASSUME TypeOK, NoOverlap, [Next]_vars PROVE NoOverlap'
    OBVIOUS
  <2>1. ASSUME NEW t \in Timers, NEW k \in Ticks, TimerFires(t, k) PROVE NoOverlap'
    BY <2>1, EnterTickKeepsNoOverlap DEF TimerFires
  <2>2. ASSUME NEW k \in Ticks, RunNow(k) PROVE NoOverlap'
    BY <2>2, EnterTickKeepsNoOverlap DEF RunNow
  <2>3. ASSUME NEW k \in Ticks, Advance(k) PROVE NoOverlap'
    <3>1. pc'[k] \in InTry /\ pc[k] \in InTry /\ \A j \in Ticks \ {k} : pc'[j] = pc[j]
      BY <2>3 DEF Advance, TypeOK
    <3>2. Collecting' = Collecting /\ running' = running
      BY <2>3, <3>1 DEF Collecting, Advance
    <3>3. QED
      BY <3>2 DEF NoOverlap
  <2>4. ASSUME NEW k \in Ticks, MarkStored(k) \/ RunFails(k) PROVE NoOverlap'
    BY <2>4, LeaveTryKeepsNoOverlap DEF MarkStored, RunFails
  <2>5. ASSUME NEW k \in Ticks, Recorded(k) PROVE NoOverlap'
    BY <2>5 DEF Recorded, NoOverlap, Collecting, TypeOK
  <2>6. CASE UNCHANGED <<running, pc>>
    BY <2>6 DEF NoOverlap, Collecting
  <2>7. QED
    BY <2>1, <2>2, <2>3, <2>4, <2>5, <2>6 DEF Next, vars, Start, FinishStart, Stop
<1>3. QED
  BY <1>1, <1>2, TypeCorrect, PTL DEF Spec

(***************************************************************************)
(* Survival: every way out of a tick arms the next timer.                  *)
(***************************************************************************)
LEMMA EnterTickRemembers ==
  ASSUME TypeOK, NEW k \in Ticks, NEW others \in SUBSET Timers,
         EnterTick(k, others), ~stopped
  PROVE  armed' # {} \/ Alive' # {}
<1>1. CASE running
  BY <1>1, RescheduleTyped DEF EnterTick
<1>2. CASE ~running
  <2>1. pc'[k] = "read"
    BY <1>2 DEF EnterTick, TypeOK
  <2>2. QED
    BY <2>1 DEF Alive
<1>3. QED
  BY <1>1, <1>2

\* A started connector always has a timer armed or a run that will arm one.
THEOREM ConnectorsNeverForgotten == Spec => []NeverForgotten
<1>1. Init => NeverForgotten
  BY DEF Init, NeverForgotten
<1>2. TypeOK /\ NeverForgotten /\ [Next]_vars => NeverForgotten'
  <2> SUFFICES ASSUME TypeOK, NeverForgotten, [Next]_vars PROVE NeverForgotten'
    OBVIOUS
  <2>1. CASE Start \/ Stop
    BY <2>1 DEF Start, Stop, NeverForgotten
  <2>2. CASE FinishStart
    BY <2>2, ArmTyped DEF FinishStart, NeverForgotten, TypeOK
  <2>3. ASSUME NEW t \in Timers, NEW k \in Ticks, TimerFires(t, k) PROVE NeverForgotten'
    BY <2>3, EnterTickRemembers DEF TimerFires, NeverForgotten, TypeOK
  <2>4. ASSUME NEW k \in Ticks, RunNow(k) PROVE NeverForgotten'
    BY <2>4, EnterTickRemembers DEF RunNow, NeverForgotten, TypeOK
  <2>5. ASSUME NEW k \in Ticks, Advance(k) \/ MarkStored(k) \/ RunFails(k)
        PROVE  NeverForgotten'
    <3>1. pc'[k] # "idle"
      BY <2>5 DEF Advance, MarkStored, RunFails, LeaveTry, TypeOK
    <3>2. QED
      BY <3>1 DEF NeverForgotten, Alive
  <2>6. ASSUME NEW k \in Ticks, Recorded(k) PROVE NeverForgotten'
    BY <2>6, RescheduleTyped DEF Recorded, NeverForgotten, TypeOK
  <2>7. CASE UNCHANGED vars
    BY <2>7 DEF vars, NeverForgotten, Alive
  <2>8. QED
    BY <2>1, <2>2, <2>3, <2>4, <2>5, <2>6, <2>7 DEF Next
<1>3. QED
  BY <1>1, <1>2, TypeCorrect, PTL DEF Spec

(***************************************************************************)
(* No setting makes a connector poll faster than it declares, and the      *)
(* ten-minute cap of the backoff alone may: for cadences on either side.   *)
(***************************************************************************)
Rescheduled == \A i \in Cadences : delay'[i] # delay[i] => Floored(delay'[i], i, failures)

LEMMA RescheduleKeepsFloor ==
  ASSUME TypeOK, NEW others, Reschedule(others)
  PROVE  Rescheduled
<1>1. CASE stopped
  BY <1>1 DEF Reschedule, Rescheduled
<1>2. CASE ~stopped
  <2>1. delay' = [i \in Cadences |-> NextDelay(i, failures)] /\ failures \in 0..MaxExponent
    BY <1>2 DEF Reschedule, TypeOK
  <2>2. QED
    BY <2>1, DelayBounds DEF Rescheduled
<1>3. QED
  BY <1>1, <1>2

\* A declared cadence is a floor under every delay, whatever the settings, unless
\* failures bring it down to the cap; and the cap holds through every outage.
THEOREM DeclaredCadenceIsAFloor == Spec => CadenceFloor
<1>1. TypeOK /\ [Next]_vars => [Rescheduled]_vars
  <2> SUFFICES ASSUME TypeOK, [Next]_vars PROVE Rescheduled
    OBVIOUS
  <2>1. CASE delay' = delay
    BY <2>1 DEF Rescheduled
  <2>2. ASSUME NEW t \in Timers, NEW k \in Ticks, TimerFires(t, k), delay' # delay
        PROVE  Rescheduled
    BY <2>2, RescheduleKeepsFloor DEF TimerFires, EnterTick
  <2>3. ASSUME NEW k \in Ticks, RunNow(k), delay' # delay
        PROVE  Rescheduled
    BY <2>3, RescheduleKeepsFloor DEF RunNow, EnterTick
  <2>4. ASSUME NEW k \in Ticks, Recorded(k)
        PROVE  Rescheduled
    BY <2>4, RescheduleKeepsFloor DEF Recorded
  <2>5. QED
    BY <2>1, <2>2, <2>3, <2>4
    DEF Next, vars, Start, FinishStart, Stop, Advance, MarkStored, RunFails, LeaveTry
<1>2. Spec => [][Rescheduled]_vars
  BY <1>1, TypeCorrect, PTL DEF Spec
<1>3. QED
  BY <1>2 DEF CadenceFloor, Rescheduled, Floored

(***************************************************************************)
(* Chains.  A timer that fires is spent before another is armed or a run   *)
(* begins, and a run ends before it arms; runNow alone spends nothing.     *)
(***************************************************************************)
LEMMA SetsFinite ==
  ASSUME TypeOK
  PROVE  /\ \A S \in SUBSET Timers : IsFiniteSet(S) /\ Cardinality(S) \in Nat
         /\ IsFiniteSet(Alive) /\ Cardinality(Alive) \in Nat
<1>1. IsFiniteSet(Timers) /\ IsFiniteSet(Ticks) /\ Alive \in SUBSET Ticks
  BY SchedulerAssumption DEF Alive
<1>2. \A S \in SUBSET Timers : IsFiniteSet(S)
  BY <1>1, FS_Subset
<1>3. IsFiniteSet(Alive)
  BY <1>1, FS_Subset
<1>4. QED
  BY <1>2, <1>3, FS_CardinalityType

LEMMA AddOne ==
  ASSUME NEW S, IsFiniteSet(S), NEW x
  PROVE  /\ Cardinality(S) \in Nat /\ Cardinality(S \cup {x}) \in Nat
         /\ Cardinality(S \cup {x}) <= Cardinality(S) + 1
<1>1. Cardinality(S) \in Nat
  BY FS_CardinalityType
<1>2. QED
  BY <1>1, FS_AddElement

LEMMA ArmCosts ==
  ASSUME TypeOK, NEW others \in SUBSET Timers, Arm(others)
  PROVE  Cardinality(armed') <= Cardinality(others) + 1
<1>1. PICK t \in Timers : armed' = others \cup {t}
  BY DEF Arm
<1>2. QED
  BY <1>1, SetsFinite, AddOne

LEMMA RescheduleCosts ==
  ASSUME TypeOK, NEW others \in SUBSET Timers, Reschedule(others)
  PROVE  Cardinality(armed') <= Cardinality(others) + 1
<1>1. CASE stopped
  BY <1>1, SetsFinite DEF Reschedule
<1>2. CASE ~stopped
  BY <1>2, ArmCosts DEF Reschedule
<1>3. QED
  BY <1>1, <1>2

\* A tick adds one timer or one run to the timers it was given, or nothing.
LEMMA EnterTickCosts ==
  ASSUME TypeOK, NEW k \in Ticks, NEW others \in SUBSET Timers, EnterTick(k, others)
  PROVE  Cardinality(armed') + Cardinality(Alive') <= Cardinality(others) + Cardinality(Alive) + 1
<1>1. Cardinality(others) \in Nat /\ IsFiniteSet(Alive) /\ Cardinality(Alive) \in Nat
  BY SetsFinite
<1>2. CASE armed' = others /\ pc' = pc
  BY <1>1, <1>2 DEF Alive
<1>3. CASE Reschedule(others) /\ pc' = pc
  <2>1. armed' \in SUBSET Timers
    BY <1>3, RescheduleTyped
  <2>2. Cardinality(armed') \in Nat /\ Alive' = Alive
    BY <1>3, <2>1, SetsFinite DEF Alive
  <2>3. QED
    BY <1>1, <1>3, <2>2, RescheduleCosts
<1>4. CASE armed' = others /\ pc' = [pc EXCEPT ![k] = "read"]
  <2>1. Alive' = Alive \cup {k}
    BY <1>4 DEF Alive, TypeOK
  <2>2. Cardinality(Alive') \in Nat /\ Cardinality(Alive') <= Cardinality(Alive) + 1
    BY <1>1, <2>1, AddOne
  <2>3. QED
    BY <1>1, <1>4, <2>2
<1>5. QED
  BY <1>2, <1>3, <1>4 DEF EnterTick

NothingBeforeStart == boot # "started" => armed = {} /\ Alive = {} /\ ~listed

LEMMA NothingBeforeStartKept ==
  ASSUME TypeOK, NothingBeforeStart, [Next]_vars
  PROVE  NothingBeforeStart'
<1> USE DEF NothingBeforeStart
<1>1. CASE Start
  BY <1>1 DEF Start, Alive
<1>2. CASE FinishStart \/ Stop
  BY <1>2 DEF FinishStart, Stop
<1>3. ASSUME NEW t \in Timers, NEW k \in Ticks, TimerFires(t, k) PROVE NothingBeforeStart'
  BY <1>3 DEF TimerFires
<1>4. ASSUME NEW k \in Ticks, RunNow(k) PROVE NothingBeforeStart'
  BY <1>4 DEF RunNow
<1>5. ASSUME NEW k \in Ticks, Advance(k) \/ MarkStored(k) \/ RunFails(k) \/ Recorded(k)
      PROVE  NothingBeforeStart'
  <2>1. k \in Alive /\ boot' = boot
    BY <1>5 DEF Advance, MarkStored, RunFails, Recorded, LeaveTry, Alive
  <2>2. QED
    BY <2>1
<1>6. CASE UNCHANGED vars
  BY <1>6 DEF vars, Alive
<1>7. QED
  BY <1>1, <1>2, <1>3, <1>4, <1>5, <1>6 DEF Next

LEMMA ChainsKept ==
  ASSUME TypeOK, NothingBeforeStart, ChainsBounded, [Next]_vars
  PROVE  ChainsBounded'
<1>1. /\ armed \in SUBSET Timers /\ IsFiniteSet(armed) /\ Cardinality(armed) \in Nat
      /\ IsFiniteSet(Alive) /\ Cardinality(Alive) \in Nat /\ runNows \in Nat
  BY SetsFinite DEF TypeOK
<1>2. TypeOK'
  BY TypeKept
<1>3. /\ Cardinality(armed') \in Nat /\ Cardinality(Alive') \in Nat
  <2>1. armed' \in SUBSET Timers /\ Alive' \in SUBSET Ticks
    BY <1>2 DEF TypeOK, Alive
  <2>2. \A T \in SUBSET Ticks : IsFiniteSet(T)
    BY SchedulerAssumption, FS_Subset
  <2>3. QED
    BY <2>1, <2>2, SetsFinite, FS_CardinalityType
<1>4. CASE FinishStart
  <2>1. armed = {} /\ Alive = {} /\ Alive' = Alive /\ runNows' = runNows /\ Arm({})
    BY <1>4 DEF FinishStart, NothingBeforeStart, Alive
  <2>2. Cardinality(armed') <= 1
    BY <2>1, ArmCosts, FS_EmptySet
  <2>3. QED
    BY <1>1, <1>3, <2>1, <2>2, FS_EmptySet DEF ChainsBounded
<1>5. ASSUME NEW t \in Timers, NEW k \in Ticks, TimerFires(t, k) PROVE ChainsBounded'
  <2>1. armed \ {t} \in SUBSET Timers /\ t \in armed /\ runNows' = runNows
    BY <1>1, <1>5 DEF TimerFires
  <2>2. Cardinality(armed \ {t}) = Cardinality(armed) - 1
    BY <1>1, <2>1, FS_RemoveElement
  <2>3. Cardinality(armed') + Cardinality(Alive')
          <= Cardinality(armed \ {t}) + Cardinality(Alive) + 1
    BY <1>5, <2>1, EnterTickCosts DEF TimerFires
  <2>4. QED
    BY <1>1, <1>3, <2>1, <2>2, <2>3 DEF ChainsBounded
<1>6. ASSUME NEW k \in Ticks, RunNow(k) PROVE ChainsBounded'
  <2>1. armed \ {handle} \in SUBSET armed /\ armed \ {handle} \in SUBSET Timers
        /\ runNows' = runNows + 1
    BY <1>1, <1>6 DEF RunNow
  <2>2. /\ Cardinality(armed \ {handle}) \in Nat
        /\ Cardinality(armed \ {handle}) <= Cardinality(armed)
    BY <1>1, <2>1, FS_Subset, FS_CardinalityType
  <2>3. Cardinality(armed') + Cardinality(Alive')
          <= Cardinality(armed \ {handle}) + Cardinality(Alive) + 1
    BY <1>6, <2>1, EnterTickCosts DEF RunNow
  <2>4. QED
    BY <1>1, <1>3, <2>1, <2>2, <2>3 DEF ChainsBounded
<1>7. ASSUME NEW k \in Ticks, Advance(k) \/ MarkStored(k) \/ RunFails(k) PROVE ChainsBounded'
  <2>1. armed' = armed /\ runNows' = runNows
    BY <1>7 DEF Advance, MarkStored, RunFails, LeaveTry
  <2>2. pc[k] # "idle" /\ pc'[k] # "idle" /\ \A j \in Ticks \ {k} : pc'[j] = pc[j]
    BY <1>7 DEF Advance, MarkStored, RunFails, LeaveTry, TypeOK
  <2>3. Alive' = Alive
    BY <2>2 DEF Alive
  <2>4. QED
    BY <2>1, <2>3 DEF ChainsBounded
<1>8. ASSUME NEW k \in Ticks, Recorded(k) PROVE ChainsBounded'
  <2>1. k \in Alive /\ Alive' = Alive \ {k} /\ runNows' = runNows
    BY <1>8 DEF Recorded, Alive, TypeOK
  <2>2. Cardinality(Alive') = Cardinality(Alive) - 1
    BY <1>1, <2>1, FS_RemoveElement
  <2>3. Cardinality(armed') <= Cardinality(armed) + 1
    BY <1>1, <1>8, RescheduleCosts DEF Recorded
  <2>4. QED
    BY <1>1, <1>3, <2>1, <2>2, <2>3 DEF ChainsBounded
<1>9. CASE Stop
  <2>1. armed' \in SUBSET armed /\ Alive' = Alive /\ runNows' = runNows
    BY <1>9 DEF Stop, Alive
  <2>2. Cardinality(armed') <= Cardinality(armed)
    BY <1>1, <2>1, FS_Subset
  <2>3. QED
    BY <1>1, <1>3, <2>1, <2>2 DEF ChainsBounded
<1>10. CASE Start \/ UNCHANGED vars
  BY <1>10 DEF Start, vars, ChainsBounded, Alive
<1>11. QED
  BY <1>4, <1>5, <1>6, <1>7, <1>8, <1>9, <1>10 DEF Next

\* Chains of timer and run never outnumber one plus the runNow calls.
THEOREM ChainsStayBounded == Spec => []ChainsBounded
<1>1. Init => NothingBeforeStart
  BY DEF Init, NothingBeforeStart, Alive
<1>2. Init => ChainsBounded
  <2> SUFFICES ASSUME Init PROVE ChainsBounded
    OBVIOUS
  <2>1. armed = {} /\ Alive = {} /\ runNows = 0
    BY DEF Init, Alive
  <2>2. QED
    BY <2>1, FS_EmptySet DEF ChainsBounded
<1>3. QED
  BY <1>1, <1>2, NothingBeforeStartKept, ChainsKept, TypeCorrect, PTL DEF Spec

(***************************************************************************)
(* Refinement.  The tick that takes the flag begins a run, the finally     *)
(* block ends it, start opens, stop halts, and every other step stutters.  *)
(* NoOverlap gives Begin its guard and End its only run; NothingBeforeStart*)
(* puts every timer and every runNow inside the open phase.                *)
(***************************************************************************)
LEMMA EnterTickImplements ==
  ASSUME TypeOK, NoOverlap, NEW k \in Ticks, NEW others, EnterTick(k, others),
         boot = "started", UNCHANGED <<boot, stopped>>
  PROVE  Contract!Begin(k) \/ UNCHANGED Contract!vars
<1>1. Phase' = Phase
  BY DEF Phase
<1>2. CASE UNCHANGED <<running, pc>>
  BY <1>1, <1>2 DEF Contract!vars, Collecting
<1>3. CASE ~stopped /\ ~running /\ pc[k] = "idle" /\ pc' = [pc EXCEPT ![k] = "read"]
  <2>1. Phase = "open"
    BY <1>3 DEF Phase
  <2>2. Collecting = {}
    BY <1>3 DEF NoOverlap
  <2>3. pc'[k] = "read" /\ \A j \in Ticks \ {k} : pc'[j] = pc[j]
    BY <1>3 DEF TypeOK
  <2>4. Collecting' = {k}
    BY <2>2, <2>3 DEF Collecting
  <2>5. QED
    BY <1>1, <2>1, <2>2, <2>4 DEF Contract!Begin
<1>4. QED
  BY <1>2, <1>3 DEF EnterTick

LEMMA LeaveTryImplements ==
  ASSUME TypeOK, NoOverlap, NEW k \in Ticks, pc[k] \in InTry, LeaveTry(k)
  PROVE  Contract!End(k)
<1>1. Phase' = Phase
  BY DEF Phase, LeaveTry
<1>2. k \in Collecting
  BY DEF Collecting
<1>3. Collecting = {k}
  BY <1>2 DEF NoOverlap, Collecting
<1>4. pc'[k] = "record" /\ \A j \in Ticks \ {k} : pc'[j] = pc[j]
  BY DEF LeaveTry, TypeOK
<1>5. Collecting' = {}
  BY <1>3, <1>4 DEF Collecting
<1>6. QED
  BY <1>1, <1>3, <1>5 DEF Contract!End

LEMMA StepImplements ==
  ASSUME TypeOK, NoOverlap, NothingBeforeStart, [Next]_vars
  PROVE  [Contract!Next]_(Contract!vars)
<1>1. CASE Start
  <2>1. Phase' = Phase /\ Collecting' = Collecting
    BY <1>1 DEF Start, Phase, Collecting
  <2>2. QED
    BY <2>1 DEF Contract!vars
<1>2. CASE FinishStart
  <2>1. Collecting' = Collecting
    BY <1>2 DEF FinishStart, Collecting
  <2>2. CASE stopped
    <3>1. Phase' = Phase
      BY <1>2, <2>2 DEF FinishStart, Phase
    <3>2. QED
      BY <2>1, <3>1 DEF Contract!vars
  <2>3. CASE ~stopped
    <3>1. Phase = "closed" /\ Phase' = "open"
      BY <1>2, <2>3 DEF FinishStart, Phase
    <3>2. QED
      BY <2>1, <3>1 DEF Contract!Open, Contract!Next
  <2>4. QED
    BY <2>2, <2>3
<1>3. CASE Stop
  <2>1. Phase = "open" /\ Phase' = "halted" /\ Collecting' = Collecting
    BY <1>3 DEF Stop, Phase, Collecting
  <2>2. QED
    BY <2>1 DEF Contract!Halt, Contract!Next
<1>4. ASSUME NEW t \in Timers, NEW k \in Ticks, TimerFires(t, k)
      PROVE  [Contract!Next]_(Contract!vars)
  <2>1. boot = "started" /\ UNCHANGED <<boot, stopped>>
    BY <1>4 DEF TimerFires, NothingBeforeStart
  <2>2. QED
    BY <1>4, <2>1, EnterTickImplements DEF TimerFires, Contract!Next
<1>5. ASSUME NEW k \in Ticks, RunNow(k)
      PROVE  [Contract!Next]_(Contract!vars)
  <2>1. boot = "started" /\ UNCHANGED <<boot, stopped>>
    BY <1>5 DEF RunNow, NothingBeforeStart
  <2>2. QED
    BY <1>5, <2>1, EnterTickImplements DEF RunNow, Contract!Next
<1>6. ASSUME NEW k \in Ticks, Advance(k)
      PROVE  [Contract!Next]_(Contract!vars)
  <2>1. pc'[k] \in InTry /\ pc[k] \in InTry /\ \A j \in Ticks \ {k} : pc'[j] = pc[j]
    BY <1>6 DEF Advance, TypeOK
  <2>2. Collecting' = Collecting /\ Phase' = Phase
    BY <1>6, <2>1 DEF Collecting, Phase, Advance
  <2>3. QED
    BY <2>2 DEF Contract!vars
<1>7. ASSUME NEW k \in Ticks, MarkStored(k) \/ RunFails(k)
      PROVE  [Contract!Next]_(Contract!vars)
  <2>1. pc[k] \in InTry /\ LeaveTry(k)
    BY <1>7 DEF MarkStored, RunFails
  <2>2. QED
    BY <2>1, LeaveTryImplements DEF Contract!Next
<1>8. ASSUME NEW k \in Ticks, Recorded(k)
      PROVE  [Contract!Next]_(Contract!vars)
  <2>1. Phase' = Phase /\ Collecting' = Collecting
    BY <1>8 DEF Recorded, Phase, Collecting, TypeOK
  <2>2. QED
    BY <2>1 DEF Contract!vars
<1>9. CASE UNCHANGED vars
  BY <1>9 DEF vars, Contract!vars, Phase, Collecting
<1>10. QED
  BY <1>1, <1>2, <1>3, <1>4, <1>5, <1>6, <1>7, <1>8, <1>9 DEF Next

\* The scheduler implements the polling contract, for any timers, invocations
\* and intervals.
THEOREM SchedulerImplementsPolling == Spec => ImplementsPolling
<1>1. Init => Contract!Init
  BY DEF Init, Contract!Init, Phase, Collecting
<1>2. Init => NothingBeforeStart
  BY DEF Init, NothingBeforeStart, Alive
<1>3. QED
  BY <1>1, <1>2, NothingBeforeStartKept, StepImplements, TypeCorrect, RunsNeverOverlap, PTL
  DEF Spec, ImplementsPolling, Contract!Spec

------------------------------------------------------------------------------
\* The container (Container).

\* How many of #created dispose has still to come to: the first ones created.
Depth == IF disposing = <<>> THEN Len(created) ELSE Len(disposing)
First(list, n) == {list[j] : j \in 1..n}

DisposalSound ==
  /\ IsInjective(created) /\ Depth <= Len(created) /\ First(created, Depth) \subseteq built
  /\ disposable \intersect (built \ First(created, Depth)) = {}
  /\ disposing # <<>> => resolving = <<>>
  /\ \A k \in 1..Len(disposing) : disposing[k] = created[Len(disposing) + 1 - k]

\* What the factory of frame i has still to get, or is getting.
Pending(i) == resolving[i].left \union {resolving[j].token : j \in {k \in DOMAIN resolving : k = i + 1}}

StackReady(ready) ==
  /\ Ready(ready)
  /\ \A i \in DOMAIN resolving : needs[resolving[i].token] \subseteq ready \union Leftovers \union Pending(i)

Transients == SUBSET (Token \ Singleton)

\* Whatever was created first is complete in itself but for leftovers, and what
\* exists is enough for the factories under way but for what they have still to
\* get.
CreationSound ==
  /\ \A n \in 0..Len(created) : \E transients \in Transients : Ready(First(created, n) \union transients)
  /\ \E transients \in Transients : StackReady(First(created, Depth) \union transients)

StackSound ==
  /\ \A i \in DOMAIN resolving : resolving[i].token \notin built
  /\ \A i, j \in DOMAIN resolving : resolving[i].token = resolving[j].token => i = j

ContainerInv == ContainerTypeOK /\ DisposalSound /\ CreationSound /\ StackSound

USE DEF ContainerAssumption
-----------------------------------------------------------------------------
LEMMA ListSet ==
  ASSUME NEW list \in Seq(Singleton)
  PROVE  Len(list) \in Nat /\ DOMAIN list = 1..Len(list) /\ ToSet(list) = First(list, Len(list))
<1>1. Len(list) \in Nat /\ DOMAIN list = 1..Len(list)
  BY LenProperties
<1>2. QED
  BY <1>1 DEF ToSet, First

\* What exists is what was created or left over, when nothing is being disposed.
LEMMA BuiltIs ==
  ASSUME ContainerInv, disposing = <<>>
  PROVE  /\ Depth = Len(created) /\ ToSet(created) = First(created, Depth)
         /\ built = First(created, Depth) \union Leftovers
<1>1. created \in Seq(Singleton)
  BY DEF ContainerInv, ContainerTypeOK
<1>2. Depth = Len(created) /\ ToSet(created) = First(created, Depth)
  BY <1>1, ListSet DEF Depth
<1>3. QED
  BY <1>2 DEF ContainerInv, DisposalSound, Leftovers

LEMMA Factories ==
  ASSUME NEW stack \in Seq(Factory)
  PROVE  /\ Len(stack) \in Nat /\ DOMAIN stack = 1..Len(stack)
         /\ \A i \in 1..Len(stack) : stack[i] \in Factory /\ stack[i].token \in Token /\ stack[i].left \in SUBSET Token
<1>1. Len(stack) \in Nat /\ DOMAIN stack = 1..Len(stack) /\ \A i \in 1..Len(stack) : stack[i] \in Factory
  BY LenProperties, ElementOfSeq
<1>2. QED
  BY <1>1 DEF Factory

LEMMA FactoriesDomain ==
  ASSUME NEW stack \in Seq(Factory), NEW n, Len(stack) = n
  PROVE  DOMAIN stack = 1..n
BY Factories

LEMMA GotKeeps ==
  ASSUME NEW stack \in Seq(Factory), NEW t
  PROVE  /\ Got(stack, t) \in Seq(Factory) /\ Len(Got(stack, t)) = Len(stack)
         /\ \A i \in 1..Len(stack) :
              /\ Got(stack, t)[i].token = stack[i].token
              /\ Got(stack, t)[i].left = IF i < Len(stack) THEN stack[i].left ELSE stack[i].left \ {t}
<1> DEFINE n == Len(stack)
           frame(i) == IF i < n THEN stack[i] ELSE [token |-> stack[i].token, left |-> stack[i].left \ {t}]
<1>1. n \in Nat /\ Got(stack, t) = [i \in 1..n |-> frame(i)]
  BY Factories DEF Got
<1>2. \A i \in 1..n : /\ frame(i) \in Factory /\ frame(i).token = stack[i].token
                      /\ frame(i).left = IF i < n THEN stack[i].left ELSE stack[i].left \ {t}
  BY Factories DEF Factory
<1> HIDE DEF frame, n
<1>3. Got(stack, t) \in [1..n -> Factory]
  BY <1>1, <1>2
<1>4. Got(stack, t) \in Seq(Factory) /\ Len(Got(stack, t)) = n
  BY <1>1, <1>3, SeqDef, LenProperties
<1>5. QED
  BY <1>1, <1>2, <1>4 DEF n

LEMMA PopKeeps ==
  ASSUME NEW stack \in Seq(Factory), stack # <<>>
  PROVE  /\ Front(stack) \in Seq(Factory) /\ Len(Front(stack)) = Len(stack) - 1 /\ Len(stack) >= 1
         /\ \A i \in 1..(Len(stack) - 1) : Front(stack)[i] = stack[i]
<1>1. Len(stack) \in Nat /\ Len(stack) # 0
  BY EmptySeq, Factories
<1>2. \A i \in 1..(Len(stack) - 1) : stack[i] \in Factory
  BY <1>1, Factories
<1>3. /\ SubSeq(stack, 1, Len(stack) - 1) \in Seq(Factory)
      /\ Len(SubSeq(stack, 1, Len(stack) - 1)) = IF 1 <= Len(stack) - 1 THEN Len(stack) - 1 - 1 + 1 ELSE 0
      /\ \A i \in 1..(Len(stack) - 1 - 1 + 1) : SubSeq(stack, 1, Len(stack) - 1)[i] = stack[1 + i - 1]
  BY <1>1, <1>2, SubSeqProperties
<1>4. Front(stack) = SubSeq(stack, 1, Len(stack) - 1)
  BY DEF Front
<1>5. Len(Front(stack)) = Len(stack) - 1 /\ \A i \in 1..(Len(stack) - 1) : Front(stack)[i] = stack[i]
  <2> DEFINE n == Len(stack)
             u == Front(stack)
  <2>1. n \in Nat /\ n # 0 /\ Len(u) = (IF 1 <= n - 1 THEN n - 1 - 1 + 1 ELSE 0)
        /\ \A i \in 1..(n - 1 - 1 + 1) : u[i] = stack[1 + i - 1]
    BY <1>1, <1>3, <1>4
  <2> HIDE DEF n, u
  <2>2. n - 1 - 1 + 1 = n - 1 /\ \A i \in 1..(n - 1) : 1 + i - 1 = i
    BY <2>1
  <2>3. Len(u) = n - 1
    BY <2>1
  <2>4. \A i \in 1..(n - 1) : u[i] = stack[i]
    BY <2>1, <2>2
  <2>5. QED
    BY <2>3, <2>4 DEF n, u
<1>6. QED
  BY <1>1, <1>3, <1>4, <1>5

LEMMA PushKeeps ==
  ASSUME NEW stack \in Seq(Factory), NEW frame \in Factory
  PROVE  /\ Append(stack, frame) \in Seq(Factory) /\ Len(Append(stack, frame)) = Len(stack) + 1
         /\ \A i \in 1..Len(stack) : Append(stack, frame)[i] = stack[i]
         /\ Append(stack, frame)[Len(stack) + 1] = frame
BY AppendProperties

\* A resolve changes neither what exists nor a disposal that does not run.
LEMMA ResolveKeeps ==
  ASSUME ContainerInv, resolving' \in Seq(Factory), UNCHANGED <<needs, disposable, built, created, disposing>>, failed' \in BOOLEAN,
         disposing = <<>>, StackSound', \E transients \in Transients : StackReady(First(created, Depth) \union transients)'
  PROVE  ContainerInv'
<1>1. ContainerTypeOK'
  BY DEF ContainerInv, ContainerTypeOK
<1>2. DisposalSound'
  BY DEF ContainerInv, DisposalSound, Depth, First
<1>3. CreationSound'
  <2>1. \A S : Ready(S)' <=> Ready(S)
    BY DEF Ready, Leftovers
  <2>2. \A n \in 0..Len(created') : \E transients \in Transients : Ready(First(created, n) \union transients)'
    BY <2>1 DEF ContainerInv, CreationSound, First
  <2>3. QED
    BY <2>2 DEF CreationSound
<1>4. QED
  BY <1>1, <1>2, <1>3 DEF ContainerInv

LEMMA ThrowKeeps == ASSUME ContainerInv, Throw PROVE ContainerInv'
<1>1. /\ resolving # <<>> /\ resolving' = <<>> /\ failed' = TRUE /\ UNCHANGED <<needs, disposable, built, created, disposing>>
  BY DEF Throw
<1>2. resolving' \in Seq(Factory) /\ DOMAIN resolving' = {}
  BY <1>1
<1>3. disposing = <<>>
  BY <1>1 DEF ContainerInv, DisposalSound
<1>4. StackSound'
  BY <1>2 DEF StackSound
<1>5. \E transients \in Transients : StackReady(First(created, Depth) \union transients)'
  BY <1>1, <1>2 DEF ContainerInv, CreationSound, StackReady, Ready, Leftovers, First, Depth
<1>6. QED
  BY <1>1, <1>2, <1>3, <1>4, <1>5, ResolveKeeps

LEMMA FindKeeps == ASSUME ContainerInv, NEW t \in Token, Find(t) PROVE ContainerInv'
<1> DEFINE n == Len(resolving)
<1>1. /\ t \in built /\ resolving # <<>> /\ resolving' = Got(resolving, t)
      /\ UNCHANGED <<needs, disposable, built, created, disposing, failed>>
  BY DEF Find
<1>2. resolving \in Seq(Factory) /\ failed \in BOOLEAN /\ disposing = <<>>
  BY <1>1 DEF ContainerInv, ContainerTypeOK, DisposalSound
<1>3. /\ resolving' \in Seq(Factory) /\ Len(resolving') = n /\ n \in Nat
      /\ DOMAIN resolving' = 1..n /\ DOMAIN resolving = 1..n
      /\ \A i \in 1..n : /\ resolving'[i].token = resolving[i].token
                         /\ resolving[i].left \subseteq resolving'[i].left \union {t}
  <2>1. /\ resolving' \in Seq(Factory) /\ Len(resolving') = n
        /\ \A i \in 1..n : /\ resolving'[i].token = resolving[i].token
                           /\ resolving'[i].left = IF i < n THEN resolving[i].left ELSE resolving[i].left \ {t}
    <3>1. /\ Got(resolving, t) \in Seq(Factory) /\ Len(Got(resolving, t)) = Len(resolving)
          /\ \A i \in 1..Len(resolving) :
               /\ Got(resolving, t)[i].token = resolving[i].token
               /\ Got(resolving, t)[i].left = IF i < Len(resolving) THEN resolving[i].left ELSE resolving[i].left \ {t}
      BY <1>2, GotKeeps
    <3>2. QED
      BY <1>1, <3>1
  <2>2. n \in Nat /\ DOMAIN resolving' = 1..n /\ DOMAIN resolving = 1..n
    <3>1. DOMAIN resolving' = 1..n
      BY <2>1, FactoriesDomain
    <3>2. n \in Nat /\ DOMAIN resolving = 1..n
      BY <1>2, Factories
    <3>3. QED
      BY <3>1, <3>2
  <2> HIDE DEF n
  <2>3. \A i \in 1..n : resolving[i].left \subseteq resolving'[i].left \union {t}
    BY <2>1
  <2>4. QED
    BY <2>1, <2>2, <2>3
<1> HIDE DEF n
<1>4. StackSound'
  BY <1>1, <1>3 DEF ContainerInv, StackSound
<1> DEFINE held == First(created, Depth)
<1>5. PICK transients \in Transients : StackReady(held \union transients)
  BY DEF ContainerInv, CreationSound
<1>6. held' = held /\ Leftovers' = Leftovers /\ t \in held \union Leftovers
  BY <1>1, <1>2, BuiltIs DEF First, Depth, Leftovers
<1> HIDE DEF held
<1>7. StackReady(held \union transients)'
  BY <1>1, <1>3, <1>5, <1>6 DEF StackReady, Ready, Pending
<1>8. QED
  BY <1>1, <1>2, <1>3, <1>4, <1>7, ResolveKeeps DEF held

LEMMA EnterKeeps == ASSUME ContainerInv, NEW t \in Token, Enter(t) PROVE ContainerInv'
<1> DEFINE n == Len(resolving)
<1>1. /\ t \in Asked /\ t \notin built /\ t \notin OnStack /\ resolving' = Append(resolving, Frame(t))
      /\ UNCHANGED <<needs, disposable, built, created, disposing, failed>>
  BY DEF Enter
<1>2. resolving \in Seq(Factory) /\ failed \in BOOLEAN /\ needs \in [Token -> SUBSET Token]
  BY DEF ContainerInv, ContainerTypeOK
<1>3. disposing = <<>>
  BY <1>1 DEF ContainerInv, DisposalSound, Asked
<1>4. Frame(t) \in Factory /\ Frame(t).token = t /\ Frame(t).left = needs[t]
  BY <1>2 DEF Frame, Factory
<1>5. /\ resolving' \in Seq(Factory) /\ Len(resolving') = n + 1 /\ n \in Nat
      /\ DOMAIN resolving' = 1..(n + 1) /\ DOMAIN resolving = 1..n
      /\ \A i \in 1..n : resolving'[i] = resolving[i]
      /\ resolving'[n + 1].token = t /\ resolving'[n + 1].left = needs[t]
  BY <1>1, <1>2, <1>4, PushKeeps, Factories
<1> HIDE DEF n
<1>6. StackSound'
  <2>1. \A i \in 1..n : resolving[i].token # t
    BY <1>1, <1>5 DEF OnStack
  <2>2. \A i \in 1..(n + 1) : i \in 1..n \/ i = n + 1
    BY <1>5
  <2>3. QED
    BY <1>1, <1>5, <2>1, <2>2 DEF ContainerInv, StackSound
<1> DEFINE held == First(created, Depth)
<1>7. PICK transients \in Transients : StackReady(held \union transients)
  BY DEF ContainerInv, CreationSound
<1>8. held' = held /\ Leftovers' = Leftovers
  BY <1>1 DEF First, Depth, Leftovers
<1> HIDE DEF held
<1>9. StackReady(held \union transients)'
  <2> DEFINE ready == held \union transients
  <2>1. ASSUME NEW i \in 1..(n + 1) PROVE needs[resolving'[i].token] \subseteq ready \union Leftovers \union Pending(i)'
    <3>1. CASE i = n + 1
      BY <1>5, <3>1 DEF Pending
    <3>2. CASE i \in 1..n
      <4>1. needs[resolving[i].token] \subseteq ready \union Leftovers \union Pending(i)
        BY <1>5, <1>7, <3>2 DEF StackReady
      <4>2. Pending(i) \subseteq Pending(i)'
        BY <1>5, <3>2 DEF Pending
      <4>3. QED
        BY <1>5, <3>2, <4>1, <4>2
    <3>3. QED
      BY <1>5, <3>1, <3>2
  <2>2. Ready(ready)'
    BY <1>1, <1>7, <1>8 DEF StackReady, Ready
  <2>3. QED
    BY <1>1, <1>5, <1>8, <2>1, <2>2 DEF StackReady
<1>10. QED
  BY <1>1, <1>2, <1>3, <1>5, <1>6, <1>9, ResolveKeeps DEF held

LEMMA ConstructKeeps == ASSUME ContainerInv, Construct PROVE ContainerInv'
<1> DEFINE n == Len(resolving)
           front == Front(resolving)
           t == resolving[n].token
<1>1. /\ resolving # <<>> /\ resolving[n].left = {} /\ resolving' = Got(front, t)
      /\ t \in Singleton => built' = built \union {t} /\ created' = Append(created, t)
      /\ t \notin Singleton => built' = built /\ created' = created
      /\ UNCHANGED <<needs, disposable, disposing, failed>>
  BY DEF Construct, Last
<1>2. /\ resolving \in Seq(Factory) /\ failed \in BOOLEAN /\ needs \in [Token -> SUBSET Token]
      /\ created \in Seq(Singleton) /\ built \subseteq Singleton
  BY DEF ContainerInv, ContainerTypeOK
<1>3. /\ disposing = <<>> /\ IsInjective(created) /\ Depth = Len(created)
      /\ built = First(created, Len(created)) \union Leftovers
  BY <1>1, BuiltIs DEF ContainerInv, DisposalSound
<1>4. /\ front \in Seq(Factory) /\ Len(front) = n - 1 /\ n >= 1 /\ n \in Nat /\ DOMAIN resolving = 1..n
      /\ \A i \in 1..(n - 1) : front[i] = resolving[i]
      /\ t \in Token
  <2>1. /\ Front(resolving) \in Seq(Factory) /\ Len(Front(resolving)) = Len(resolving) - 1 /\ Len(resolving) >= 1
        /\ \A i \in 1..(Len(resolving) - 1) : Front(resolving)[i] = resolving[i]
    BY <1>1, <1>2, PopKeeps
  <2>2. /\ Len(resolving) \in Nat /\ DOMAIN resolving = 1..Len(resolving)
        /\ \A i \in 1..Len(resolving) : resolving[i].token \in Token
    BY <1>2, Factories
  <2>3. resolving[Len(resolving)].token \in Token
    BY <2>1, <2>2
  <2>4. QED
    BY <2>1, <2>2, <2>3
<1> HIDE DEF front
<1>5. /\ resolving' \in Seq(Factory) /\ DOMAIN resolving' = 1..(n - 1)
      /\ \A i \in 1..(n - 1) : /\ resolving'[i].token = resolving[i].token
                               /\ resolving'[i].left = IF i < n - 1 THEN resolving[i].left ELSE resolving[i].left \ {t}
  <2>1. /\ resolving' \in Seq(Factory) /\ Len(resolving') = n - 1
        /\ \A i \in 1..(n - 1) : /\ resolving'[i].token = front[i].token
                                 /\ resolving'[i].left = IF i < n - 1 THEN front[i].left ELSE front[i].left \ {t}
    <3> HIDE DEF n, t
    <3>1. /\ Got(front, t) \in Seq(Factory) /\ Len(Got(front, t)) = Len(front)
          /\ \A i \in 1..Len(front) :
               /\ Got(front, t)[i].token = front[i].token
               /\ Got(front, t)[i].left = IF i < Len(front) THEN front[i].left ELSE front[i].left \ {t}
      BY <1>4, GotKeeps
    <3>2. QED
      BY <1>1, <1>4, <3>1
  <2>2. DOMAIN resolving' = 1..(n - 1)
    BY <2>1, FactoriesDomain
  <2> HIDE DEF n, t
  <2>3. QED
    BY <1>4, <2>1, <2>2
<1> HIDE DEF n
<1>6. t \notin built /\ \A i \in 1..(n - 1) : resolving[i].token # t
  <2>1. n \in DOMAIN resolving /\ \A i \in 1..(n - 1) : i \in DOMAIN resolving /\ i # n
    BY <1>4
  <2>2. QED
    BY <2>1 DEF ContainerInv, StackSound
<1>7. StackSound'
  <2>1. \A i \in 1..(n - 1) : i \in DOMAIN resolving
    BY <1>4
  <2>2. \A i \in 1..(n - 1) : resolving'[i].token \notin built'
    BY <1>1, <1>5, <1>6, <2>1 DEF ContainerInv, StackSound
  <2>3. \A i, j \in 1..(n - 1) : resolving'[i].token = resolving'[j].token => i = j
    BY <1>5, <2>1 DEF ContainerInv, StackSound
  <2>4. QED
    BY <1>5, <2>2, <2>3 DEF StackSound
<1> DEFINE held == First(created, Len(created))
<1>8. PICK transients \in Transients : StackReady(held \union transients)
  BY <1>3 DEF ContainerInv, CreationSound
<1>9. needs[t] \subseteq held \union transients \union Leftovers
  <2>1. n \in DOMAIN resolving /\ Pending(n) = {}
    BY <1>1, <1>4 DEF Pending
  <2>2. QED
    BY <1>8, <2>1 DEF StackReady
<1>10. /\ t \in Singleton => Len(created') = Len(created) + 1 /\ First(created', Len(created')) = held \union {t}
       /\ t \notin Singleton => First(created', Len(created')) = held
       /\ Depth' = Len(created') /\ Leftovers' = Leftovers
  <2> DEFINE m == Len(created)
  <2>1. m \in Nat /\ ToSet(created) = held
    BY <1>2, ListSet
  <2>2. CASE t \in Singleton
    <3>1. created' \in Seq(Singleton) /\ Len(created') = m + 1 /\ created'[m + 1] = t /\ \A j \in 1..m : created'[j] = created[j]
      <4>1. created' = Append(created, t)
        BY <1>1, <2>2
      <4> HIDE DEF t
      <4>2. QED
        BY <1>2, <2>2, <4>1, AppendProperties
    <3>2. \A j : j \in 1..(m + 1) <=> j \in 1..m \/ j = m + 1
      BY <2>1
    <3> HIDE DEF m
    <3>3. First(created', m + 1) = First(created, m) \union {t}
      <4>1. \A x : x \in First(created', m + 1) <=> \E j \in 1..(m + 1) : created'[j] = x
        BY DEF First
      <4>2. \A x : x \in First(created, m) <=> \E j \in 1..m : created[j] = x
        BY DEF First
      <4>3. QED
        BY <3>1, <3>2, <4>1, <4>2
    <3>4. ToSet(created') = held \union {t}
      BY <3>1, <3>3, ListSet DEF m
    <3>5. QED
      BY <1>1, <1>3, <1>6, <2>1, <2>2, <3>1, <3>3, <3>4 DEF Leftovers, Depth, m
  <2>3. CASE t \notin Singleton
    BY <1>1, <1>3, <2>3 DEF Leftovers, Depth
  <2>4. QED
    BY <2>2, <2>3
<1> HIDE DEF held
<1>11. PICK ready : /\ ready = held \union transients \union {t}
                    /\ \E more \in Transients : ready = First(created', Len(created')) \union more
  <2>1. CASE t \in Singleton
    BY <1>10, <2>1
  <2>2. CASE t \notin Singleton
    <3>1. transients \union {t} \in Transients
      BY <1>4, <2>2 DEF Transients
    <3>2. QED
      BY <1>10, <2>2, <3>1
  <2>3. QED
    BY <2>1, <2>2
<1>12. Ready(ready)'
  <2>1. Ready(ready)
    BY <1>8, <1>9, <1>11 DEF StackReady, Ready
  <2>2. QED
    BY <1>1, <1>10, <2>1 DEF Ready
<1>13. StackReady(ready)'
  <2>1. ASSUME NEW i \in 1..(n - 1) PROVE needs[resolving'[i].token] \subseteq ready \union Leftovers \union Pending(i)'
    <3>1. /\ i \in DOMAIN resolving
          /\ needs[resolving[i].token] \subseteq held \union transients \union Leftovers \union Pending(i)
      BY <1>4, <1>8 DEF StackReady
    <3>2. Pending(i) \subseteq Pending(i)' \union {t}
      <4> SUFFICES ASSUME NEW d \in Pending(i), d # t PROVE d \in Pending(i)'
        OBVIOUS
      <4>1. CASE d \in resolving[i].left
        BY <1>5, <4>1 DEF Pending
      <4>2. CASE d \notin resolving[i].left
        <5>1. i + 1 \in 1..n /\ d = resolving[i + 1].token
          BY <1>4, <4>2 DEF Pending
        <5>2. i + 1 \in 1..(n - 1)
          BY <1>4, <5>1
        <5>3. QED
          BY <1>5, <5>1, <5>2 DEF Pending
      <4>3. QED
        BY <4>1, <4>2
    <3>3. QED
      BY <1>5, <1>11, <3>1, <3>2
  <2>2. QED
    BY <1>1, <1>5, <1>12, <1>10, <2>1 DEF StackReady
<1>14. \E some \in Transients : StackReady(First(created, Depth) \union some)'
  BY <1>11, <1>13, <1>10
<1> HIDE DEF t
<1>15. CASE t \notin Singleton
  <2>1. UNCHANGED <<needs, disposable, built, created, disposing>> /\ failed' \in BOOLEAN
    BY <1>1, <1>2, <1>15
  <2>2. QED
    BY <1>3, <1>5, <1>7, <1>14, <2>1, ResolveKeeps
<1>16. CASE t \in Singleton
  <2> DEFINE m == Len(created)
  <2>1. /\ built' = built \union {t} /\ created' = Append(created, t) /\ disposing' = <<>>
        /\ failed' \in BOOLEAN /\ needs' = needs /\ disposable' = disposable
    BY <1>1, <1>2, <1>3, <1>16
  <2>2. m \in Nat /\ DOMAIN created = 1..m
    BY <1>2, LenProperties
  <2>3. /\ created' \in Seq(Singleton) /\ Len(created') = m + 1 /\ created'[m + 1] = t
        /\ DOMAIN created' = 1..(m + 1) /\ \A j \in 1..m : created'[j] = created[j]
    BY <1>2, <1>16, <2>1, AppendProperties, LenProperties
  <2> HIDE DEF m
  <2>4. \A k \in 0..m : First(created', k) = First(created, k)
    BY <2>2, <2>3 DEF First
  <2>5. First(created', m + 1) = held \union {t}
    BY <1>16, <1>10, <2>3
  <2>6. IsInjective(created')
    <3>1. \A j \in 1..m : created[j] # t
      BY <1>3, <1>6 DEF First, m
    <3>2. \A j : j \in 1..(m + 1) <=> j \in 1..m \/ j = m + 1
      BY <2>2
    <3>3. QED
      BY <1>3, <2>2, <2>3, <3>1, <3>2 DEF IsInjective
  <2>7. DisposalSound'
    <3>1. Depth' = m + 1 /\ Len(disposing') = 0
      BY <2>1, <2>3 DEF Depth
    <3>2. Depth' <= Len(created')
      BY <2>2, <2>3, <3>1
    <3>3. /\ First(created, Depth)' \subseteq built'
          /\ disposable' \intersect (built' \ First(created, Depth)') = {}
      BY <1>3, <2>1, <2>5, <3>1 DEF ContainerInv, DisposalSound, held
    <3>4. \A k \in 1..0 : disposing'[k] = created'[0 + 1 - k]
      OBVIOUS
    <3>5. QED
      BY <2>1, <2>6, <3>1, <3>2, <3>3, <3>4 DEF DisposalSound
  <2>8. ContainerTypeOK'
    BY <1>2, <1>5, <1>16, <2>1, <2>3 DEF ContainerInv, ContainerTypeOK
  <2>9. ASSUME NEW k \in 0..(m + 1) PROVE \E some \in Transients : Ready(First(created, k) \union some)'
    <3>1. CASE k \in 0..m
      <4>1. PICK some \in Transients : Ready(First(created, k) \union some)
        BY <3>1 DEF ContainerInv, CreationSound, m
      <4>2. QED
        BY <1>10, <2>1, <2>4, <3>1, <4>1 DEF Ready
    <3>2. CASE k = m + 1
      BY <1>11, <1>12, <2>3, <3>2
    <3>3. k \in 0..m \/ k = m + 1
      BY <2>2
    <3>4. QED
      BY <3>1, <3>2, <3>3
  <2>10. CreationSound'
    BY <1>14, <2>3, <2>9 DEF CreationSound
  <2>11. QED
    BY <1>7, <2>7, <2>8, <2>10 DEF ContainerInv
<1>17. QED
  BY <1>15, <1>16

LEMMA DisposeKeeps == ASSUME ContainerInv, Dispose PROVE ContainerInv'
<1> DEFINE m == Len(created)
<1>1. /\ resolving = <<>> /\ disposing = <<>> /\ created # <<>> /\ disposing' = Reverse(created)
      /\ UNCHANGED <<needs, disposable, built, created, resolving, failed>>
  BY DEF Dispose, Order
<1>2. created \in Seq(Singleton) /\ m \in Nat /\ DOMAIN created = 1..m /\ m # 0
  <2>1. created \in Seq(Singleton)
    BY DEF ContainerInv, ContainerTypeOK
  <2>2. QED
    BY <1>1, <2>1, LenProperties, EmptySeq
<1>3. Reverse(created) = [i \in 1..m |-> created[m - i + 1]]
  BY DEF Reverse
<1>4. \A i \in 1..m : m - i + 1 \in 1..m /\ m - i + 1 = m + 1 - i /\ created[m - i + 1] \in Singleton
  BY <1>2, ElementOfSeq
<1>5. Reverse(created) \in [1..m -> Singleton]
  BY <1>3, <1>4
<1> HIDE DEF m
<1>6. disposing' \in Seq(Singleton) /\ Len(disposing') = m /\ \A i \in 1..m : disposing'[i] = created[m + 1 - i]
  BY <1>1, <1>2, <1>3, <1>4, <1>5, SeqDef, LenProperties
<1>7. ContainerTypeOK'
  BY <1>1, <1>6 DEF ContainerInv, ContainerTypeOK
<1>8. DisposalSound'
  <2>1. Depth = m /\ Depth' = m
    BY <1>1, <1>6 DEF Depth, m
  <2>2. First(created', m) = First(created, m)
    BY <1>1 DEF First
  <2>3. QED
    BY <1>1, <1>2, <1>6, <2>1, <2>2 DEF ContainerInv, DisposalSound, m
<1>9. CreationSound' /\ StackSound'
  <2>1. Depth' = Depth /\ \A n : First(created', n) = First(created, n)
    BY <1>1, <1>6 DEF Depth, First, m
  <2>2. \A S : (Ready(S)' <=> Ready(S)) /\ (StackReady(S)' <=> StackReady(S))
    BY <1>1 DEF Ready, StackReady, Pending, Leftovers
  <2>3. QED
    BY <1>1, <2>1, <2>2 DEF ContainerInv, CreationSound, StackSound
<1>10. QED
  BY <1>7, <1>8, <1>9 DEF ContainerInv

LEMMA DisposeNextKeeps == ASSUME ContainerInv, DisposeNext PROVE ContainerInv'
<1> DEFINE m == Len(disposing)
<1>1. /\ disposing # <<>> /\ built' = built \ ({Head(disposing)} \intersect disposable) /\ disposing' = Tail(disposing)
      /\ created' = (IF m = 1 THEN <<>> ELSE created) /\ UNCHANGED <<needs, disposable, resolving, failed>>
  BY DEF DisposeNext
<1>2. /\ disposing \in Seq(Singleton) /\ created \in Seq(Singleton) /\ built \subseteq Singleton /\ resolving = <<>>
      /\ m <= Len(created) /\ First(created, m) \subseteq built /\ IsInjective(created)
      /\ disposable \intersect (built \ First(created, m)) = {}
      /\ \A k \in 1..m : disposing[k] = created[m + 1 - k]
  BY <1>1 DEF ContainerInv, ContainerTypeOK, DisposalSound, Depth
<1>3. m \in Nat /\ m # 0 /\ Len(created) \in Nat /\ DOMAIN created = 1..Len(created)
  BY <1>1, <1>2, LenProperties, EmptySeq
<1>4. Head(disposing) = created[m]
  <2>1. Head(disposing) = disposing[1]
    BY <1>1, <1>2, HeadTailProperties
  <2>2. 1 \in 1..m /\ m + 1 - 1 = m
    BY <1>3
  <2>3. QED
    BY <1>2, <2>1, <2>2
<1>5. /\ disposing' \in Seq(Singleton) /\ Len(disposing') = m - 1
      /\ \A k \in 1..(m - 1) : disposing'[k] = disposing[k + 1]
  BY <1>1, <1>2, HeadTailProperties
<1> HIDE DEF m
<1>6. /\ First(created, m - 1) \subseteq built'
      /\ disposable \intersect (built' \ First(created, m - 1)) = {}
  <2>1. \A x : x \in First(created, m) <=> \E j \in 1..m : x = created[j]
    BY DEF First
  <2>2. \A x : x \in First(created, m - 1) <=> \E j \in 1..(m - 1) : x = created[j]
    BY DEF First
  <2>3. \A j \in 1..m : j \in DOMAIN created /\ (j \in 1..(m - 1) \/ j = m)
    BY <1>2, <1>3
  <2>4. \A j \in 1..(m - 1) : j \in 1..m /\ j # m /\ m \in 1..m
    BY <1>3
  <2>5. \A j \in 1..(m - 1) : created[j] # created[m]
    BY <1>2, <2>3, <2>4 DEF IsInjective
  <2>6. First(created, m - 1) = First(created, m) \ {created[m]}
    BY <2>1, <2>2, <2>3, <2>4, <2>5
  <2>7. QED
    BY <1>1, <1>2, <1>4, <2>6
<1>7. CASE m = 1
  <2>1. created' = <<>> /\ disposing' = <<>> /\ disposable' \intersect built' = {}
    <3>1. First(created, m - 1) = {}
      BY <1>7 DEF First
    <3>2. QED
      BY <1>1, <1>5, <1>6, <1>7, <3>1, EmptySeq
  <2>2. Len(created') = 0 /\ DOMAIN created' = {} /\ created' \in Seq(Singleton) /\ First(created', 0) = {} /\ DOMAIN resolving' = {}
        /\ Len(disposing') = 0
    <3>1. resolving' = <<>> /\ created' \in Seq(Singleton)
      BY <1>1, <1>2, <2>1
    <3>2. First(created', 0) = {}
      BY DEF First
    <3>3. QED
      BY <2>1, <3>1, <3>2
  <2>3. ContainerTypeOK'
    BY <1>1, <1>2, <1>5, <2>1, <2>2 DEF ContainerInv, ContainerTypeOK
  <2>4. Depth' = 0
    BY <2>1, <2>2 DEF Depth
  <2>5. DisposalSound'
    BY <2>1, <2>2, <2>4 DEF DisposalSound, IsInjective
  <2>6. Ready({})'
    BY DEF Ready
  <2>7. {} \in Transients /\ {} \union {} = {} /\ \A k \in 0..0 : k = 0
    BY DEF Transients
  <2>8. CreationSound'
    BY <2>1, <2>2, <2>4, <2>6, <2>7 DEF CreationSound, StackReady
  <2>9. StackSound'
    BY <2>2 DEF StackSound
  <2>10. QED
    BY <2>3, <2>5, <2>8, <2>9 DEF ContainerInv
<1>8. CASE m # 1
  <2>1. created' = created /\ m - 1 # 0 /\ m - 1 \in 0..Len(created) /\ First(created', m - 1) = First(created, m - 1)
    BY <1>1, <1>2, <1>3, <1>8 DEF First
  <2>2. disposing' # <<>> /\ Depth' = m - 1
    BY <1>5, <2>1, EmptySeq DEF Depth
  <2>3. \A k \in 1..(m - 1) : disposing'[k] = created[m - 1 + 1 - k]
    <3> SUFFICES ASSUME NEW k \in 1..(m - 1) PROVE disposing'[k] = created[m - 1 + 1 - k]
      OBVIOUS
    <3>1. k + 1 \in 1..m /\ m + 1 - (k + 1) = m - 1 + 1 - k
      BY <1>3
    <3>2. QED
      BY <1>2, <1>5, <3>1
  <2>4. ContainerTypeOK'
    BY <1>1, <1>2, <1>5, <2>1 DEF ContainerInv, ContainerTypeOK
  <2>5. DisposalSound'
    <3>1. IsInjective(created)' /\ Depth' <= Len(created') /\ resolving' = <<>>
      BY <1>1, <1>2, <1>3, <2>1, <2>2
    <3>2. /\ First(created, Depth)' \subseteq built'
          /\ disposable' \intersect (built' \ First(created, Depth)') = {}
      BY <1>1, <1>6, <2>1, <2>2
    <3>3. \A k \in 1..Len(disposing') : disposing'[k] = created'[Len(disposing') + 1 - k]
      BY <1>5, <2>1, <2>3
    <3>4. QED
      BY <3>1, <3>2, <3>3 DEF DisposalSound
  <2>6. Leftovers' = Leftovers
    <3>1. created[m] \in ToSet(created)
      BY <1>2, <1>3, ListSet DEF First
    <3>2. QED
      BY <1>1, <1>4, <2>1, <3>1 DEF Leftovers
  <2>7. \A k \in 0..Len(created) : \E transients \in Transients : Ready(First(created, k) \union transients)
    BY DEF ContainerInv, CreationSound
  <2>8. \A k \in 0..Len(created) : \E transients \in Transients : Ready(First(created, k) \union transients)'
    BY <1>1, <2>1, <2>6, <2>7 DEF Ready, First
  <2>9. \E transients \in Transients : StackReady(First(created, Depth) \union transients)'
    <3>1. DOMAIN resolving' = {}
      BY <1>1, <1>2
    <3>2. \E transients \in Transients : Ready(First(created, Depth) \union transients)'
      BY <2>1, <2>2, <2>8
    <3>3. QED
      BY <3>1, <3>2 DEF StackReady
  <2>10. CreationSound'
    BY <2>1, <2>8, <2>9 DEF CreationSound
  <2>11. StackSound'
    BY <1>1, <1>2 DEF StackSound
  <2>12. QED
    BY <2>4, <2>5, <2>10, <2>11 DEF ContainerInv
<1>9. QED
  BY <1>7, <1>8

LEMMA ContainerStarts == ContainerInit => ContainerInv
<1> SUFFICES ASSUME ContainerInit PROVE ContainerInv
  OBVIOUS
<1>1. /\ needs \in [Token -> SUBSET Token] /\ disposable \subseteq Singleton /\ built = {} /\ created = <<>> /\ resolving = <<>> /\ disposing = <<>>
      /\ failed \in BOOLEAN
  BY ContainerAssumption DEF ContainerInit
<1>2. /\ created \in Seq(Singleton) /\ disposing \in Seq(Singleton) /\ resolving \in Seq(Factory)
      /\ Len(created) = 0 /\ DOMAIN created = {} /\ DOMAIN resolving = {} /\ Len(disposing) = 0 /\ First(created, 0) = {}
  BY <1>1 DEF First
<1>3. ContainerTypeOK
  BY <1>1, <1>2 DEF ContainerTypeOK
<1>9. Depth = 0
  BY <1>1, <1>2 DEF Depth
<1>4. DisposalSound
  BY <1>1, <1>2, <1>9 DEF DisposalSound, IsInjective
<1>5. {} \in Transients /\ Ready({}) /\ {} \union {} = {} /\ \A k \in 0..0 : k = 0
  BY DEF Transients, Ready
<1>6. CreationSound
  BY <1>1, <1>2, <1>5, <1>9 DEF CreationSound, StackReady
<1>7. StackSound
  BY <1>2 DEF StackSound
<1>8. QED
  BY <1>3, <1>4, <1>6, <1>7 DEF ContainerInv

LEMMA ContainerKeeps == ContainerInv /\ [ContainerNext]_containerVars => ContainerInv'
<1> SUFFICES ASSUME ContainerInv, [ContainerNext]_containerVars PROVE ContainerInv'
  OBVIOUS
<1>1. ASSUME NEW t \in Token, Find(t) \/ Enter(t) \/ Cycle(t) PROVE ContainerInv'
  BY <1>1, FindKeeps, EnterKeeps, ThrowKeeps DEF Cycle
<1>2. CASE UNCHANGED containerVars
  <2>1. UNCHANGED <<needs, disposable, built, created, resolving, disposing, failed>>
    BY <1>2 DEF containerVars
  <2>2. ContainerTypeOK' /\ DisposalSound' /\ StackSound'
    BY <2>1 DEF ContainerInv, ContainerTypeOK, DisposalSound, Depth, First, StackSound
  <2>3. \A S : (Ready(S)' <=> Ready(S)) /\ (StackReady(S)' <=> StackReady(S))
    BY <2>1 DEF Ready, StackReady, Pending, Leftovers
  <2>4. CreationSound'
    <3>1. Depth' = Depth /\ \A n : First(created', n) = First(created, n)
      BY <2>1 DEF Depth, First
    <3>2. QED
      BY <2>1, <2>3, <3>1 DEF ContainerInv, CreationSound
  <2>5. QED
    BY <2>2, <2>4 DEF ContainerInv
<1>3. QED
  BY <1>1, <1>2, ThrowKeeps, ConstructKeeps, DisposeKeeps, DisposeNextKeeps DEF ContainerNext

LEMMA ContainerInvSays == ContainerInv => DependenciesOutlive
<1> SUFFICES ASSUME ContainerInv PROVE DependenciesOutlive
  OBVIOUS
<1> DEFINE held == First(created, Depth)
<1>1. created \in Seq(Singleton) /\ disposing \in Seq(Singleton)
  BY DEF ContainerInv, ContainerTypeOK
<1>2. Awaiting = held
  <2>1. CASE disposing = <<>>
    BY <1>1, <2>1, ListSet DEF Awaiting, Depth
  <2>2. CASE disposing # <<>>
    <3> DEFINE m == Len(disposing)
    <3>1. m \in Nat /\ Awaiting = First(disposing, m) /\ Depth = m
      BY <1>1, <2>2, ListSet DEF Awaiting, Depth
    <3>2. \A k \in 1..m : disposing[k] = created[m + 1 - k]
      BY DEF ContainerInv, DisposalSound
    <3> HIDE DEF m
    <3>3. \A k \in 1..m : m + 1 - k \in 1..m /\ m + 1 - (m + 1 - k) = k
      BY <3>1
    <3>4. \A x : x \in First(disposing, m) <=> \E k \in 1..m : x = disposing[k]
      BY DEF First
    <3>5. \A x : x \in First(created, m) <=> \E k \in 1..m : x = created[k]
      BY DEF First
    <3>6. QED
      BY <3>1, <3>2, <3>3, <3>4, <3>5
  <2>3. QED
    BY <2>1, <2>2
<1>3. held \subseteq built /\ disposable \intersect (built \ held) = {} /\ IsInjective(created)
  BY DEF ContainerInv, DisposalSound
<1>4. \E transients \in SUBSET (Token \ Singleton) : Ready(held \union transients)
  BY DEF ContainerInv, CreationSound, Transients, StackReady
<1>5. QED
  BY <1>2, <1>3, <1>4 DEF ContainerInv, DependenciesOutlive

\* For every graph of factories, cyclic ones too, and whichever of them have a
\* disposer: nothing that dispose has still to come to has lost what it holds, and
\* what dispose leaves behind has no disposer.
THEOREM InstancesHoldUp == ContainerSpec => []DependenciesOutlive
<1>1. ContainerSpec => []ContainerInv
  BY ContainerStarts, ContainerKeeps, PTL DEF ContainerSpec
<1>2. QED
  BY <1>1, ContainerInvSays, PTL

------------------------------------------------------------------------------
\* The worker (Worker).

\* From the signal on nothing that begins work is left; the database goes when
\* the disposal, which the loops' end precedes, has been through everything.
StopSound ==
  /\ stopping # "no" => stage = "running" /\ timers = {} /\ phase # "open"
  /\ stopping = "disposing" /\ disposing = <<>> => created = <<>>
  /\ stopping = "disconnected" => ~connected

WorkerInv == ContainerInv /\ WorkerTypeOK /\ StopSound

\* What StopsInOrder says of a step.
InOrder ==
  stopping # "no" =>
    /\ active' \subseteq active /\ (enrichment' = "pass" => enrichment = "pass")
    /\ \A j \in Jobs : flights'[j] <= flights[j]
    /\ connected' # connected => disposable \intersect built = {}
    /\ process' = "exited" => ~connected

LEMMA FlightsNotMore ==
  ASSUME WorkerTypeOK, flights' = flights
  PROVE  \A j \in Jobs : flights'[j] <= flights[j]
<1>1. \A j \in Jobs : flights[j] \in 0..MaxFlights
  BY DEF WorkerTypeOK
<1>2. QED
  BY <1>1

\* What leaves the shutdown and the container alone.
LEMMA AsideKeeps ==
  ASSUME WorkerInv, WorkerTypeOK', UNCHANGED <<containerVars, connected, stopping>>,
         stopping # "no" => stage' = stage /\ timers' = timers /\ phase' = phase
  PROVE  WorkerInv'
<1>1. ContainerInv'
  BY ContainerKeeps DEF WorkerInv
<1>2. UNCHANGED <<created, disposing>>
  BY DEF containerVars
<1>3. StopSound'
  BY <1>2 DEF WorkerInv, StopSound
<1>4. QED
  BY <1>1, <1>3 DEF WorkerInv

LEMMA BootSteps ==
  ASSUME WorkerInv, process = "up",
         Build \/ BuildDone \/ BootFails \/ Kill \/ \E b \in BOOLEAN : Probe(b) \/ StartLoops(b)
  PROVE  WorkerInv' /\ InOrder
<1>1. stage # "running" /\ stopping = "no"
  BY DEF Build, BuildDone, BootFails, Kill, Probe, StartLoops, WorkerInv, StopSound
<1>2. InOrder
  BY <1>1 DEF InOrder
<1>3. CASE Build
  <2>1. [ContainerNext]_containerVars /\ UNCHANGED processVars
    BY <1>3 DEF Build, ContainerNext
  <2>2. ContainerInv'
    BY <2>1, ContainerKeeps DEF WorkerInv
  <2>3. UNCHANGED <<process, stage, enricher, phase, active, timers, flights, enrichment, stopping, connected>>
    BY <2>1 DEF processVars
  <2>4. WorkerTypeOK' /\ StopSound'
    BY <1>1, <2>3 DEF WorkerInv, WorkerTypeOK, StopSound
  <2>5. QED
    BY <1>2, <2>2, <2>4 DEF WorkerInv
<1>4. CASE BuildDone \/ BootFails \/ Kill \/ \E b \in BOOLEAN : Probe(b)
  <2>1. UNCHANGED <<containerVars, connected, stopping, timers, phase, flights, enrichment>>
    BY <1>4 DEF BuildDone, BootFails, Kill, Probe, loopVars
  <2>2. WorkerTypeOK'
    BY <1>4, <2>1 DEF BuildDone, BootFails, Kill, Probe, WorkerInv, WorkerTypeOK
  <2>3. QED
    BY <1>1, <1>2, <2>1, <2>2, AsideKeeps
<1>5. CASE \E b \in BOOLEAN : StartLoops(b)
  <2>1. /\ UNCHANGED <<containerVars, connected, stopping, flights, process, enricher>> /\ stage' = "running"
        /\ timers' = Jobs /\ enrichment' = "pass"
    BY <1>5 DEF StartLoops
  <2>2. WorkerTypeOK'
    BY <2>1 DEF WorkerInv, WorkerTypeOK
  <2>3. QED
    BY <1>1, <1>2, <2>1, <2>2, AsideKeeps
<1>6. QED
  BY <1>3, <1>4, <1>5

LEMMA WorkSteps ==
  ASSUME WorkerInv, process = "up", Collects \/ Enrich \/ \E j \in Jobs : Fires(j) \/ FlightEnds(j)
  PROVE  WorkerInv' /\ InOrder
<1>1. UNCHANGED <<containerVars, connected, stopping, process, stage, enricher, timers>>
  BY DEF Collects, Enrich, Fires, FlightEnds
<1>2. CASE Collects
  <2>1. UNCHANGED <<flights, enrichment>> /\ phase' = phase /\ (phase # "open" => active' \subseteq active)
    BY <1>2 DEF Collects, Collector!Begin, Collector!End
  <2>2. WorkerTypeOK'
    BY <1>1, <2>1 DEF WorkerInv, WorkerTypeOK
  <2>3. InOrder
    BY <1>1, <2>1, FlightsNotMore DEF InOrder, WorkerInv, StopSound
  <2>4. QED
    BY <1>1, <2>1, <2>2, <2>3, AsideKeeps
<1>3. CASE Enrich
  <2>1. /\ UNCHANGED <<flights, phase, active>> /\ enrichment' \in {"pass", "rest", "ended"}
        /\ stopping # "no" => enrichment' # "pass"
    BY <1>3 DEF Enrich
  <2>2. WorkerTypeOK'
    BY <1>1, <2>1 DEF WorkerInv, WorkerTypeOK
  <2>3. InOrder
    BY <1>1, <2>1, FlightsNotMore DEF InOrder, WorkerInv
  <2>4. QED
    BY <1>1, <2>1, <2>2, <2>3, AsideKeeps
<1>4. ASSUME NEW j \in Jobs, Fires(j) PROVE WorkerInv' /\ InOrder
  <2>1. /\ flights' = [flights EXCEPT ![j] = @ + 1] /\ flights[j] < MaxFlights /\ j \in timers
        /\ UNCHANGED <<phase, active, enrichment>>
    BY <1>4 DEF Fires
  <2>2. flights \in [Jobs -> 0..MaxFlights] /\ flights[j] + 1 \in 0..MaxFlights
    BY <2>1, WorkerAssumption DEF WorkerInv, WorkerTypeOK, WorkerAssumption
  <2>3. WorkerTypeOK'
    BY <1>1, <2>1, <2>2 DEF WorkerInv, WorkerTypeOK
  <2>4. InOrder
    BY <2>1 DEF InOrder, WorkerInv, StopSound
  <2>5. QED
    BY <1>1, <2>1, <2>3, <2>4, AsideKeeps
<1>5. ASSUME NEW j \in Jobs, FlightEnds(j) PROVE WorkerInv' /\ InOrder
  <2>1. /\ flights' = [flights EXCEPT ![j] = @ - 1] /\ flights[j] > 0
        /\ UNCHANGED <<phase, active, enrichment>>
    BY <1>5 DEF FlightEnds
  <2>2. flights \in [Jobs -> 0..MaxFlights] /\ flights[j] - 1 \in 0..MaxFlights
    BY <2>1, WorkerAssumption DEF WorkerInv, WorkerTypeOK, WorkerAssumption
  <2>3. WorkerTypeOK'
    BY <1>1, <2>1, <2>2 DEF WorkerInv, WorkerTypeOK
  <2>4. \A i \in Jobs : flights'[i] <= flights[i]
    BY <2>1, <2>2, WorkerAssumption DEF WorkerAssumption
  <2>5. InOrder
    BY <1>1, <2>1, <2>4 DEF InOrder, WorkerInv
  <2>6. QED
    BY <1>1, <2>1, <2>3, <2>5, AsideKeeps
<1>6. QED
  BY <1>2, <1>3, <1>4, <1>5

LEMMA StopSteps ==
  ASSUME WorkerInv, process = "up", StopLoops
  PROVE  WorkerInv' /\ InOrder
<1>1. /\ stage = "running" /\ stopping = "no" /\ stopping' = "stopped" /\ timers' = {}
      /\ enrichment' = (IF enrichment = "rest" THEN "ended" ELSE enrichment)
      /\ UNCHANGED <<containerVars, process, stage, enricher, flights, connected>>
      /\ phase' # "open"
  BY DEF StopLoops, Collector!Halt
<1>2. ContainerInv'
  BY <1>1, ContainerKeeps DEF WorkerInv
<1>3. WorkerTypeOK' /\ StopSound'
  BY <1>1 DEF WorkerInv, WorkerTypeOK, StopSound
<1>4. QED
  BY <1>1, <1>2, <1>3 DEF WorkerInv, InOrder

LEMMA ShutdownSteps ==
  ASSUME WorkerInv, process = "up", Shutdown
  PROVE  WorkerInv' /\ InOrder
<1>1. CASE DisposeAll \/ DisposeOne
  <2>1. /\ UNCHANGED <<process, stage, enricher, phase, active, timers, flights, enrichment, connected>>
        /\ stopping # "no" /\ stopping' = "disposing"
        /\ Dispose \/ DisposeNext
    BY <1>1 DEF DisposeAll, DisposeOne, loopVars, processVars
  <2>2. ContainerInv'
    BY <2>1, DisposeKeeps, DisposeNextKeeps DEF WorkerInv
  <2>3. disposing' = <<>> => created' = <<>>
    <3>1. ASSUME Dispose, disposing' = <<>> PROVE FALSE
      <4>1. created \in Seq(Singleton) /\ created # <<>> /\ disposing' = Reverse(created)
        BY <3>1 DEF Dispose, Order, WorkerInv, ContainerInv, ContainerTypeOK
      <4>2. Len(created) \in Nat /\ Len(created) # 0
        BY <4>1, LenProperties, EmptySeq
      <4>3. DOMAIN disposing' = 1..Len(created)
        BY <4>1 DEF Reverse
      <4>4. 1 \in DOMAIN disposing'
        BY <4>2, <4>3
      <4>5. QED
        BY <3>1, <4>4
    <3>2. ASSUME DisposeNext, disposing' = <<>> PROVE created' = <<>>
      <4>1. /\ disposing # <<>> /\ disposing' = Tail(disposing) /\ disposing \in Seq(Singleton)
            /\ Len(disposing) = 1 => created' = <<>>
        BY <3>2 DEF DisposeNext, WorkerInv, ContainerInv, ContainerTypeOK
      <4>2. Len(disposing') = Len(disposing) - 1 /\ Len(disposing) \in Nat
        BY <4>1, HeadTailProperties, LenProperties
      <4>3. Len(disposing') = 0
        BY <3>2
      <4>4. QED
        BY <4>1, <4>2, <4>3
    <3>3. QED
      BY <2>1, <3>1, <3>2
  <2>4. WorkerTypeOK' /\ StopSound'
    BY <2>1, <2>3 DEF WorkerInv, WorkerTypeOK, StopSound
  <2>5. InOrder
    BY <2>1, FlightsNotMore DEF InOrder, WorkerInv
  <2>6. QED
    BY <2>2, <2>4, <2>5 DEF WorkerInv
<1>2. ASSUME NEW ok \in BOOLEAN, Disconnect(ok) PROVE WorkerInv' /\ InOrder
  <2>1. /\ stopping = "disposing" /\ disposing = <<>> /\ connected' = ~ok
        /\ stopping' = (IF ok THEN "disconnected" ELSE "stuck")
        /\ UNCHANGED <<containerVars, process, stage, enricher, phase, active, timers, flights, enrichment>>
    BY <1>2 DEF Disconnect, loopVars
  <2>2. ContainerInv'
    BY <2>1, ContainerKeeps DEF WorkerInv
  <2>3. disposable \intersect built = {}
    <3>1. created = <<>> /\ Depth = Len(created) /\ disposable \intersect (built \ First(created, Depth)) = {}
      BY <2>1 DEF WorkerInv, StopSound, ContainerInv, DisposalSound, Depth
    <3>2. QED
      BY <3>1 DEF First
  <2>4. WorkerTypeOK' /\ StopSound'
    BY <2>1 DEF WorkerInv, WorkerTypeOK, StopSound
  <2>5. InOrder
    BY <2>1, <2>3, FlightsNotMore DEF InOrder, WorkerInv
  <2>6. QED
    BY <2>2, <2>4, <2>5 DEF WorkerInv
<1>3. CASE Exit
  <2>1. /\ stopping = "disconnected" /\ process' = "exited"
        /\ UNCHANGED <<containerVars, stage, enricher, phase, active, timers, flights, enrichment, stopping, connected>>
    BY <1>3 DEF Exit, loopVars
  <2>2. WorkerTypeOK'
    BY <2>1 DEF WorkerInv, WorkerTypeOK
  <2>3. InOrder
    BY <2>1, FlightsNotMore DEF InOrder, WorkerInv, StopSound
  <2>4. QED
    BY <2>1, <2>2, <2>3, AsideKeeps
<1>4. QED
  BY <1>1, <1>2, <1>3 DEF Shutdown

LEMMA WorkerStarts == WorkerInit => WorkerInv
<1> SUFFICES ASSUME WorkerInit PROVE WorkerInv
  OBVIOUS
<1>1. ContainerInv
  BY ContainerStarts DEF WorkerInit
<1>2. 0 \in 0..MaxFlights
  BY WorkerAssumption DEF WorkerAssumption
<1>3. WorkerTypeOK /\ StopSound
  BY <1>2 DEF WorkerInit, WorkerTypeOK, StopSound
<1>4. QED
  BY <1>1, <1>3 DEF WorkerInv

LEMMA WorkerKeeps == WorkerInv /\ [WorkerNext]_workerVars => WorkerInv' /\ [InOrder]_workerVars
<1> SUFFICES ASSUME WorkerInv, [WorkerNext]_workerVars PROVE WorkerInv' /\ [InOrder]_workerVars
  OBVIOUS
<1>1. CASE WorkerNext
  BY <1>1, BootSteps, WorkSteps, StopSteps, ShutdownSteps DEF WorkerNext
<1>2. CASE UNCHANGED workerVars
  <2>1. UNCHANGED <<containerVars, process, stage, enricher, phase, active, timers, flights, enrichment, stopping, connected>>
    BY <1>2 DEF workerVars, processVars
  <2>2. WorkerTypeOK'
    BY <2>1 DEF WorkerInv, WorkerTypeOK
  <2>3. QED
    BY <1>2, <2>1, <2>2, AsideKeeps
<1>3. QED
  BY <1>1, <1>2

\* From the signal on nothing begins, the database goes after all that has a
\* disposer, and the process last; whatever is under way and however it fails.
THEOREM WorkerStopsInOrder == WorkerSpec => StopsInOrder
<1>1. WorkerSpec => []WorkerInv
  <2>1. WorkerInv /\ [WorkerNext]_workerVars => WorkerInv'
    BY WorkerKeeps
  <2>2. QED
    BY WorkerStarts, <2>1, PTL DEF WorkerSpec
<1>2. WorkerInv => WorkerTypeOK
  BY DEF WorkerInv
<1>3. WorkerInv /\ [WorkerNext]_workerVars => [InOrder]_workerVars
  BY WorkerKeeps
<1>4. WorkerSpec => [][InOrder]_workerVars
  BY <1>1, <1>3, PTL DEF WorkerSpec
<1>5. WorkerSpec => []WorkerTypeOK
  BY <1>1, <1>2, PTL
<1>6. QED
  BY <1>4, <1>5 DEF StopsInOrder, InOrder

\* The container of the worker, between boot and shutdown.
THEOREM WorkerInstancesHoldUp == WorkerSpec => []DependenciesOutlive
<1>1. WorkerInv /\ [WorkerNext]_workerVars => WorkerInv'
  BY WorkerKeeps
<1>2. WorkerInv => DependenciesOutlive
  BY ContainerInvSays DEF WorkerInv
<1>3. QED
  BY WorkerStarts, <1>1, <1>2, PTL DEF WorkerSpec

HIDE DEF MaxExponent, InTry, PCs, ContainerAssumption

------------------------------------------------------------------------------
\* The listings (Listings).

(***************************************************************************)
(* ListingsDated is not inductive: it needs that what a replica has looked *)
(* up or found new has a row.  Rows are never deleted, so a pair without   *)
(* one is unknown to every replica, and who makes it finds it new.         *)
(***************************************************************************)
RowsBehind == \A r \in Replica : polls[r].known \union polls[r].new \subseteq DOMAIN firstSeen

\* Nor does a replica forget what it found: it starts with nothing.
StartsEmpty == \A r \in Replica : polls[r].at = "idle" => polls[r].new = {}

ListingsInv == ListingsTypeOK /\ RowsBehind /\ StartsEmpty /\ ListingsDated

LEMMA ListingsInitially == ListingsInit => ListingsInv
<1> SUFFICES ASSUME ListingsInit PROVE ListingsInv
  OBVIOUS
<1>1. /\ DOMAIN firstSeen = {} /\ DOMAIN detected = {}
      /\ moment = 0 /\ lost = {} /\ polls = [r \in Replica |-> NoPoll]
  BY DEF ListingsInit
<1>2. NoPoll \in Polls /\ NoPoll.known = {} /\ NoPoll.new = {}
  BY DEF NoPoll, Polls
<1>3. ListingsTypeOK
  BY <1>1, <1>2 DEF ListingsTypeOK
<1>4. RowsBehind /\ StartsEmpty
  BY <1>1, <1>2 DEF RowsBehind, StartsEmpty
<1>5. ListingsDated
  BY <1>1 DEF ListingsDated
<1>6. QED
  BY <1>3, <1>4, <1>5 DEF ListingsInv

\* What is looked up has its rows.
LEMMA LookUpKeeps ==
  ASSUME ListingsInv, NEW r \in Replica, NEW batch \in SUBSET Pair, LookUp(r, batch)
  PROVE  ListingsInv'
<1> USE DEF ListingsInv
<1>1. /\ polls' \in [Replica -> Polls] /\ \A q \in Replica \ {r} : polls'[q] = polls[q]
      /\ UNCHANGED <<moment, firstSeen, detected, lost>>
  BY DEF LookUp, ListingsTypeOK, Polls
<1>2. /\ polls[r].at = "idle" /\ polls'[r].at = "write"
      /\ polls'[r].known \subseteq DOMAIN firstSeen /\ polls'[r].new = {}
  BY DEF LookUp, ListingsTypeOK
<1>3. ListingsTypeOK' /\ RowsBehind' /\ StartsEmpty'
  BY <1>1, <1>2 DEF ListingsTypeOK, RowsBehind, StartsEmpty
<1>4. UNION {polls[q].new : q \in Replica} \subseteq UNION {polls'[q].new : q \in Replica}
  BY <1>1, <1>2 DEF StartsEmpty
<1>5. ListingsDated'
  BY <1>1, <1>4 DEF ListingsDated
<1>6. QED
  BY <1>3, <1>5

\* A pair without a row is known to nobody, so who makes its row finds it new.
LEMMA UpsertKeeps ==
  ASSUME ListingsInv, NEW r \in Replica, NEW p \in Pair, Upsert(r, p)
  PROVE  ListingsInv'
<1> USE DEF ListingsInv
<1>1. /\ polls' \in [Replica -> Polls] /\ \A q \in Replica \ {r} : polls'[q] = polls[q]
      /\ UNCHANGED <<moment, detected, lost>>
  BY DEF Upsert, ListingsTypeOK, Polls
<1>2. /\ polls[r].at = "write" /\ polls'[r].at = "write" /\ polls'[r].known = polls[r].known
      /\ polls'[r].new = polls[r].new \union ({p} \ polls[r].known)
  BY DEF Upsert, ListingsTypeOK, Polls
<1>3. /\ DOMAIN firstSeen' = DOMAIN firstSeen \union {p}
      /\ \A q \in DOMAIN firstSeen : firstSeen'[q] = firstSeen[q]
  <2>1. firstSeen' = [q \in DOMAIN firstSeen \union {p} |-> IF q \in DOMAIN firstSeen THEN firstSeen[q] ELSE polls[r].now]
    BY DEF Upsert, Extended
  <2>2. QED
    BY <2>1
<1>4. ListingsTypeOK' /\ RowsBehind' /\ StartsEmpty'
  BY <1>1, <1>2, <1>3 DEF ListingsTypeOK, RowsBehind, StartsEmpty
<1>5. /\ UNION {polls[q].new : q \in Replica} \subseteq UNION {polls'[q].new : q \in Replica}
      /\ p \notin DOMAIN firstSeen => p \in UNION {polls'[q].new : q \in Replica}
  BY <1>1, <1>2 DEF RowsBehind
<1>6. ListingsDated'
  BY <1>1, <1>3, <1>5 DEF ListingsDated
<1>7. QED
  BY <1>4, <1>6

\* The listing takes the row's date, and keeps it when it is there.
LEMMA ListKeeps ==
  ASSUME ListingsInv, NEW r \in Replica, NEW p \in Pair, List(r, p)
  PROVE  ListingsInv'
<1> USE DEF ListingsInv
<1>1. /\ polls' \in [Replica -> Polls] /\ \A q \in Replica \ {r} : polls'[q] = polls[q]
      /\ UNCHANGED <<moment, firstSeen, lost>>
  BY DEF List, ListingsTypeOK, Polls
<1>2. /\ polls[r].at = "write" /\ polls'[r].at = "write" /\ polls'[r].known = polls[r].known
      /\ polls'[r].new = polls[r].new \ {p} /\ p \in polls[r].new
  BY DEF List, ListingsTypeOK, Polls
<1>3. /\ DOMAIN detected' = DOMAIN detected \union {p}
      /\ \A q \in DOMAIN detected : detected'[q] = detected[q]
      /\ p \notin DOMAIN detected => detected'[p] = firstSeen[p]
  <2>1. detected' = [q \in DOMAIN detected \union {p} |-> IF q \in DOMAIN detected THEN detected[q] ELSE firstSeen[p]]
    BY DEF List, Extended
  <2>2. QED
    BY <2>1
<1>4. ListingsTypeOK' /\ RowsBehind' /\ StartsEmpty'
  BY <1>1, <1>2, <1>3 DEF ListingsTypeOK, RowsBehind, StartsEmpty
<1>5. UNION {polls[q].new : q \in Replica} \subseteq {p} \union UNION {polls'[q].new : q \in Replica}
  BY <1>1, <1>2
<1>6. p \in DOMAIN firstSeen
  BY <1>2 DEF RowsBehind
<1>7. ListingsDated'
  BY <1>1, <1>3, <1>5, <1>6 DEF ListingsDated
<1>8. QED
  BY <1>4, <1>7

\* What the run held without a listing is lost.
LEMMA EndKeeps ==
  ASSUME ListingsInv, NEW r \in Replica, End(r)
  PROVE  ListingsInv'
<1> USE DEF ListingsInv
<1>1. /\ polls' \in [Replica -> Polls] /\ \A q \in Replica \ {r} : polls'[q] = polls[q]
      /\ UNCHANGED <<moment, firstSeen, detected>> /\ lost' = lost \union (polls[r].new \ DOMAIN detected)
  BY DEF End, NoPoll, ListingsTypeOK, Polls
<1>2. polls'[r].at = "idle" /\ polls'[r].known = {} /\ polls'[r].new = {} /\ polls[r].new \subseteq Pair
  BY DEF End, NoPoll, ListingsTypeOK, Polls
<1>3. ListingsTypeOK' /\ RowsBehind' /\ StartsEmpty'
  BY <1>1, <1>2 DEF ListingsTypeOK, RowsBehind, StartsEmpty
<1>4. UNION {polls[q].new : q \in Replica} \subseteq polls[r].new \union UNION {polls'[q].new : q \in Replica}
  BY <1>1, <1>2
<1>5. ListingsDated'
  BY <1>1, <1>4 DEF ListingsDated
<1>6. QED
  BY <1>3, <1>5

LEMMA ListingsKept == ListingsInv /\ [ListingsNext]_listingVars => ListingsInv'
<1> SUFFICES ASSUME ListingsInv, [ListingsNext]_listingVars PROVE ListingsInv'
  OBVIOUS
<1>1. CASE Tick \/ UNCHANGED listingVars
  <2>1. UNCHANGED <<firstSeen, detected, polls, lost>> /\ moment' \in Nat
    BY <1>1 DEF Tick, listingVars, ListingsInv, ListingsTypeOK
  <2>2. QED
    BY <2>1 DEF ListingsInv, ListingsTypeOK, RowsBehind, StartsEmpty, ListingsDated
<1>2. QED
  BY <1>1, LookUpKeeps, UpsertKeeps, ListKeeps, EndKeeps DEF ListingsNext

\* market-repository.ts: the rows and the polls keep their types, ...
THEOREM ListingsTypeCorrect == ListingsSpec => []ListingsTypeOK
<1>1. ListingsInv => ListingsTypeOK
  BY DEF ListingsInv
<1>2. QED
  BY <1>1, ListingsInitially, ListingsKept, PTL DEF ListingsSpec

\* ... every listing is dated as its pair was first seen by anyone, and a pair
\* has no listing only if a replica holds it or took it along when it died.
THEOREM ListingsStayDated == ListingsSpec => []ListingsDated
<1>1. ListingsInv => ListingsDated
  BY DEF ListingsInv
<1>2. QED
  BY <1>1, ListingsInitially, ListingsKept, PTL DEF ListingsSpec

------------------------------------------------------------------------------
\* The watchlist and the coins the scheduler polls (Roster).

USE DEF RosterAssumption

\* A nonempty set of numbers has a least one.
LEMMA LeastExists ==
  ASSUME NEW S \in SUBSET Nat, S # {}
  PROVE  \E x \in S : \A y \in S : x <= y
<1>1. IsWellFoundedOn(OpToRel(<, Nat), Nat)
  BY NatLessThanWellFounded
<1>2. PICK x \in S : \A y \in S : ~(<<y, x>> \in OpToRel(<, Nat))
  BY <1>1, WFMin
<1>3. \A y \in S : ~(y < x)
  BY <1>2 DEF OpToRel
<1>4. QED
  BY <1>3

\* A nonempty bounded set of numbers has a greatest one.
LEMMA MaxBounds ==
  ASSUME NEW m \in Nat, NEW S \in SUBSET (-1..m), S # {}
  PROVE  Max(S) \in S /\ \A y \in S : y <= Max(S)
<1> DEFINE D == {m - x : x \in S}
<1>1. D \in SUBSET Nat /\ D # {}
  <2>1. \A x \in S : x \in Int /\ x <= m
    OBVIOUS
  <2>2. \A x \in S : m - x \in Nat
    BY <2>1
  <2>3. QED
    BY <2>2
<1>2. PICK d \in D : \A e \in D : d <= e
  <2> HIDE DEF D
  <2>1. QED
    BY <1>1, LeastExists
<1>3. PICK x \in S : d = m - x
  BY <1>2
<1>4. \A y \in S : m - x <= m - y
  BY <1>2, <1>3
<1>5. \A y \in S : x >= y
  BY <1>4
<1>6. \E z \in S : \A y \in S : z >= y
  BY <1>5
<1>7. Max(S) \in S /\ \A y \in S : Max(S) >= y
  BY <1>6 DEF Max
<1>8. QED
  BY <1>7

\* What a strict total order of a finite set puts before p.
Before(R, S, p) == {q \in S : <<q, p>> \in R}
StrictlyOrders(R, S) ==
  /\ \A p \in S : <<p, p>> \notin R
  /\ \A p, q, r \in S : <<p, q>> \in R /\ <<q, r>> \in R => <<p, r>> \in R
  /\ \A p, q \in S : p = q \/ <<p, q>> \in R \/ <<q, p>> \in R

LEMMA RankProperties ==
  ASSUME NEW S, IsFiniteSet(S), NEW R, StrictlyOrders(R, S)
  PROVE  /\ \A p \in S : Cardinality(Before(R, S, p)) \in Nat /\ Cardinality(Before(R, S, p)) < Cardinality(S)
         /\ \A p, q \in S : <<p, q>> \in R <=> Cardinality(Before(R, S, p)) < Cardinality(Before(R, S, q))
<1> DEFINE rank(p) == Cardinality(Before(R, S, p))
<1>1. \A p \in S : /\ Before(R, S, p) \subseteq S /\ IsFiniteSet(Before(R, S, p)) /\ rank(p) \in Nat
                   /\ p \notin Before(R, S, p)
  BY FS_Subset, FS_CardinalityType DEF Before, StrictlyOrders
<1>2. Cardinality(S) \in Nat
  BY FS_CardinalityType
<1>3. \A p \in S : rank(p) < Cardinality(S)
  <2> SUFFICES ASSUME NEW p \in S PROVE rank(p) < Cardinality(S)
    OBVIOUS
  <2>1. rank(p) <= Cardinality(S) /\ rank(p) # Cardinality(S)
    BY <1>1, FS_Subset
  <2>2. QED
    BY <1>1, <1>2, <2>1
<1>4. ASSUME NEW p \in S, NEW q \in S, <<p, q>> \in R PROVE rank(p) < rank(q)
  <2>1. Before(R, S, p) \subseteq Before(R, S, q)
    BY <1>4 DEF Before, StrictlyOrders
  <2>2. p \in Before(R, S, q) /\ p \notin Before(R, S, p)
    BY <1>1, <1>4 DEF Before
  <2>3. rank(p) <= rank(q) /\ rank(p) # rank(q)
    BY <1>1, <2>1, <2>2, FS_Subset
  <2>4. QED
    BY <1>1, <2>3
<1>5. ASSUME NEW p \in S, NEW q \in S, rank(p) < rank(q) PROVE <<p, q>> \in R
  <2>1. rank(p) \in Nat /\ rank(q) \in Nat
    BY <1>1
  <2>2. p # q
    BY <1>5, <2>1
  <2>3. <<q, p>> \notin R
    <3> SUFFICES ASSUME <<q, p>> \in R PROVE FALSE
      OBVIOUS
    <3>1. rank(q) < rank(p)
      BY <1>4
    <3> HIDE DEF rank
    <3>2. QED
      BY <1>5, <2>1, <3>1
  <2>4. QED
    BY <2>2, <2>3 DEF StrictlyOrders
<1>6. QED
  BY <1>1, <1>3, <1>4, <1>5

\* The first n of a finite set are n, or all of it.
LEMMA FirstOf ==
  ASSUME NEW S, IsFiniteSet(S), NEW R, StrictlyOrders(R, S), NEW n \in Nat, n < Cardinality(S)
  PROVE  Cardinality({p \in S : Cardinality(Before(R, S, p)) < n}) = n
<1> DEFINE c == Cardinality(S)
           rank(p) == Cardinality(Before(R, S, p))
           f == [p \in S |-> rank(p) + 1]
<1>1. c \in Nat
  BY FS_CardinalityType
<1>2. /\ \A p \in S : rank(p) \in Nat /\ rank(p) < c
      /\ \A p, q \in S : <<p, q>> \in R <=> rank(p) < rank(q)
  BY RankProperties
<1> HIDE DEF rank, c
<1>3. f \in Injection(S, 1..c)
  <2>1. f \in [S -> 1..c]
    BY <1>1, <1>2
  <2>2. ASSUME NEW p \in S, NEW q \in S, f[p] = f[q] PROVE p = q
    <3>1. rank(p) = rank(q) /\ rank(p) \in Nat
      BY <1>2, <2>2
    <3>2. ~(rank(p) < rank(q)) /\ ~(rank(q) < rank(p))
      BY <3>1
    <3>3. QED
      BY <1>2, <3>2 DEF StrictlyOrders
  <2> HIDE DEF f
  <2>3. QED
    BY <2>1, <2>2, Fun_IsInj
<1>4. IsFiniteSet(1..c) /\ Cardinality(1..c) = c
  BY <1>1, FS_Interval
<1>5. f \in Surjection(S, 1..c)
  <2> HIDE DEF f
  <2>1. QED
    BY <1>3, <1>4, FS_Injection DEF c
<1>6. \E p \in S : f[p] = n + 1
  <2>1. n + 1 \in 1..c
    BY <1>1 DEF c
  <2> HIDE DEF f
  <2>2. QED
    BY <1>5, <2>1 DEF Surjection
<1>7. PICK p \in S : f[p] = n + 1
  BY <1>6
<1>8. rank(p) = n
  BY <1>2, <1>7
<1>9. \A q \in S : <<q, p>> \in R <=> rank(q) < n
  BY <1>2, <1>8
<1>10. Before(R, S, p) = {q \in S : rank(q) < n}
  BY <1>9 DEF Before
<1>11. QED
  BY <1>8, <1>10 DEF rank

------------------------------------------------------------------------------
\* What a request read stays at or before the position it read, until someone
\* moves it.
ReadBounds ==
  \A r \in Request : adds[r].phase = "writing" =>
    /\ seen[r] \subseteq Listed
    /\ \A c \in seen[r] : items[c].position <= adds[r].last

\* A request that goes on has found or imported its coin.
CoinsKnown == \A r \in Request : adds[r].phase \in {"reading", "writing"} => adds[r].coin \in coins

RosterInv == RosterTypeOK /\ CoinsKnown /\ ReadBounds

LEMMA WatchedFirst == RosterTypeOK => WatchedPolledFirst
<1> SUFFICES ASSUME RosterTypeOK, NEW c \in Listed, c \notin ListTracked
             PROVE  Cardinality(ListTracked) = PollLimit /\ \A d \in ListTracked : d \in Listed /\ Tier(d) <= Tier(c)
  BY DEF WatchedPolledFirst
<1> DEFINE R == {pair \in coins \X coins : PolledBefore(pair[1], pair[2])}
           rank(p) == Cardinality(Before(R, coins, p))
<1>1. IsFiniteSet(coins) /\ c \in coins /\ coins \subseteq Coin
  BY RosterAssumption, FS_Subset DEF RosterTypeOK
<1>2. \A p \in Coin : Tier(p) \in 0..2 /\ Rank[p] \in Nat
  BY RosterAssumption DEF Tier
<1>3. \A p, q \in coins : <<p, q>> \in R <=> PolledBefore(p, q)
  OBVIOUS
<1>4. StrictlyOrders(R, coins)
  <2>1. \A p \in coins : ~PolledBefore(p, p)
    BY <1>1, <1>2 DEF PolledBefore
  <2>2. ASSUME NEW p \in coins, NEW q \in coins, NEW r \in coins, PolledBefore(p, q), PolledBefore(q, r)
        PROVE  PolledBefore(p, r)
    BY <1>1, <1>2, <2>2 DEF PolledBefore
  <2>3. ASSUME NEW p \in coins, NEW q \in coins
        PROVE  p = q \/ PolledBefore(p, q) \/ PolledBefore(q, p)
    BY <1>1, <1>2, RosterAssumption DEF PolledBefore
  <2> HIDE DEF R
  <2>4. QED
    BY <1>3, <2>1, <2>2, <2>3 DEF StrictlyOrders
<1>5. \A p \in coins : Before(R, coins, p) = {q \in coins : PolledBefore(q, p)}
  BY <1>3 DEF Before
<1> HIDE DEF R
<1>6. ListTracked = {p \in coins : rank(p) < PollLimit}
  BY <1>5 DEF ListTracked
<1>7. /\ \A p \in coins : rank(p) \in Nat /\ rank(p) < Cardinality(coins)
      /\ \A p, q \in coins : <<p, q>> \in R <=> rank(p) < rank(q)
  BY <1>1, <1>4, RankProperties
<1>8. PollLimit <= rank(c) /\ PollLimit < Cardinality(coins)
  <2>1. Cardinality(coins) \in Nat /\ PollLimit \in Nat
    BY <1>1, RosterAssumption, FS_CardinalityType
  <2>2. rank(c) \in Nat /\ rank(c) < Cardinality(coins) /\ ~(rank(c) < PollLimit)
    BY <1>1, <1>6, <1>7
  <2> HIDE DEF rank
  <2>3. QED
    BY <2>1, <2>2
<1>9. Cardinality(ListTracked) = PollLimit
  BY <1>1, <1>4, <1>6, <1>8, RosterAssumption, FirstOf
<1>10. ASSUME NEW d \in ListTracked PROVE d \in Listed /\ Tier(d) <= Tier(c)
  <2>1. d \in coins /\ rank(d) < PollLimit
    BY <1>6
  <2>2. rank(d) < rank(c)
    <3>1. rank(d) \in Nat /\ rank(c) \in Nat
      BY <1>1, <1>7, <2>1
    <3> HIDE DEF rank
    <3>2. QED
      BY <1>8, <2>1, <3>1, RosterAssumption
  <2>3. PolledBefore(d, c)
    BY <1>1, <1>3, <1>7, <2>1, <2>2
  <2>4. Tier(d) <= Tier(c)
    BY <1>1, <1>2, <2>1, <2>3 DEF PolledBefore
  <2>5. Tier(c) <= 1
    BY DEF Tier
  <2>6. QED
    BY <1>1, <1>2, <2>1, <2>4, <2>5 DEF Tier
<1>11. QED
  BY <1>9, <1>10

------------------------------------------------------------------------------
LEMMA IdleAdds == ASSUME Coin # {} PROVE Idle \in Adding
  BY RosterAssumption DEF Idle, Adding

LEMMA PinnedItem ==
  ASSUME NEW item \in [pinned : BOOLEAN, position : Nat], NEW b \in BOOLEAN
  PROVE  /\ [item EXCEPT !.pinned = b] \in [pinned : BOOLEAN, position : Nat]
         /\ [item EXCEPT !.pinned = b].position = item.position
  OBVIOUS

LEMMA PhaseOf ==
  ASSUME NEW a \in Adding, NEW next \in {"idle", "importing", "reading", "writing"}
  PROVE  /\ [a EXCEPT !.phase = next] \in Adding /\ [a EXCEPT !.phase = next].phase = next
         /\ [a EXCEPT !.phase = next].coin = a.coin
         /\ \A l \in -1..MaxPosition : [a EXCEPT !.phase = next, !.last = l] \in Adding
  BY DEF Adding

LEMMA RosterInitHolds == RosterInit => RosterInv
<1> SUFFICES ASSUME RosterInit PROVE RosterInv
  OBVIOUS
<1>1. Coin # {}
  BY DEF RosterInit
<1>2. Listed = {}
  BY DEF RosterInit, Listed
<1>3. RosterTypeOK
  BY <1>1, <1>2, IdleAdds DEF RosterInit, RosterTypeOK
<1>4. CoinsKnown /\ ReadBounds
  BY DEF RosterInit, CoinsKnown, ReadBounds, Idle
<1>5. QED
  BY <1>3, <1>4 DEF RosterInv

LEMMA PositionsBounded ==
  ASSUME RosterTypeOK, Positions \subseteq 0..(MaxPosition - 1)
  PROVE  LET last == Max(Positions \union {-1})
         IN  last \in -1..MaxPosition /\ \A c \in Listed : items[c].position <= last
<1>1. Positions \union {-1} \in SUBSET (-1..MaxPosition) /\ Positions \union {-1} # {}
  BY RosterAssumption
<1>2. \A c \in Listed : items[c].position \in Positions
  BY DEF Positions
<1>3. QED
  BY <1>1, <1>2, MaxBounds, RosterAssumption

LEMMA RosterStepHolds == RosterInv /\ [RosterNext]_rosterVars => RosterInv'
<1> SUFFICES ASSUME RosterTypeOK, CoinsKnown, ReadBounds, [RosterNext]_rosterVars
             PROVE  RosterTypeOK' /\ CoinsKnown' /\ ReadBounds'
  BY DEF RosterInv
<1> USE RosterAssumption
<1>1. ASSUME NEW r \in Request, NEW c \in Coin, Lookup(r, c) PROVE RosterTypeOK' /\ CoinsKnown' /\ ReadBounds'
  <2>1. RosterTypeOK'
    BY <1>1 DEF Lookup, RosterTypeOK, Listed, Adding
  <2>2. adds'[r].phase # "writing" /\ \A q \in Request \ {r} : adds'[q] = adds[q]
    BY <1>1 DEF Lookup, RosterTypeOK
  <2>3. ReadBounds'
    BY <1>1, <2>2 DEF Lookup, ReadBounds, Listed
  <2>4. CoinsKnown'
    BY <1>1, <2>2 DEF Lookup, CoinsKnown, RosterTypeOK
  <2>5. QED
    BY <2>1, <2>3, <2>4
<1>2. ASSUME NEW r \in Request, NotFound(r) PROVE RosterTypeOK' /\ CoinsKnown' /\ ReadBounds'
  <2>1. RosterTypeOK'
    <3>1. Coin # {}
      BY DEF RosterTypeOK, Adding
    <3>2. adds' \in [Request -> Adding] /\ seen' \in [Request -> SUBSET Coin]
      BY <1>2, <3>1, IdleAdds DEF NotFound, Ends, RosterTypeOK
    <3>3. QED
      BY <1>2, <3>2 DEF NotFound, RosterTypeOK, Listed
  <2>2. adds'[r].phase = "idle" /\ \A q \in Request \ {r} : adds'[q] = adds[q] /\ seen'[q] = seen[q]
    BY <1>2 DEF NotFound, Ends, RosterTypeOK, Idle
  <2>3. CoinsKnown' /\ ReadBounds'
    BY <1>2, <2>2 DEF NotFound, CoinsKnown, ReadBounds, Listed
  <2>4. QED
    BY <2>1, <2>3
<1>3. ASSUME NEW r \in Request, Import(r) PROVE RosterTypeOK' /\ CoinsKnown' /\ ReadBounds'
  <2>1. /\ coins' \subseteq Coin /\ coins \subseteq coins' /\ items' = items
        /\ adds' \in [Request -> Adding] /\ seen' \in [Request -> SUBSET Coin]
        /\ adds'[r].phase \in {"reading", "idle"} /\ (adds'[r].phase = "reading" => adds'[r].coin \in coins')
        /\ \A q \in Request \ {r} : adds'[q] = adds[q] /\ seen'[q] = seen[q]
    <3>1. adds[r] \in Adding /\ adds[r].coin \in Coin /\ coins' = coins \union {adds[r].coin} /\ items' = items
      BY <1>3 DEF Import, RosterTypeOK, Adding
    <3>2. CASE Goes(r, "reading") /\ UNCHANGED seen
      <4>1. /\ adds' = [adds EXCEPT ![r] = [adds[r] EXCEPT !.phase = "reading"]] /\ seen' = seen
        BY <3>2 DEF Goes
      <4> DEFINE a == [adds[r] EXCEPT !.phase = "reading"]
      <4>2. a \in Adding /\ a.phase = "reading" /\ a.coin = adds[r].coin
        BY <3>1, PhaseOf
      <4> HIDE DEF a
      <4>3. QED
        BY <3>1, <4>1, <4>2 DEF RosterTypeOK, a
    <3>3. CASE Ends(r)
      BY <3>1, <3>3, IdleAdds DEF Ends, RosterTypeOK, Idle
    <3>4. QED
      BY <1>3, <3>1, <3>2, <3>3 DEF Import, RosterTypeOK
  <2>2. RosterTypeOK'
    BY <2>1 DEF RosterTypeOK, Listed
  <2>3. CoinsKnown' /\ ReadBounds'
    BY <2>1 DEF CoinsKnown, ReadBounds, Listed
  <2>4. QED
    BY <2>2, <2>3
<1>4. ASSUME NEW r \in Request, ReadLast(r) PROVE RosterTypeOK' /\ CoinsKnown' /\ ReadBounds'
  <2> DEFINE last == Max(Positions \union {-1})
  <2>1. last \in -1..MaxPosition /\ \A c \in Listed : items[c].position <= last
    BY <1>4, PositionsBounded DEF ReadLast
  <2> HIDE DEF last
  <2>2. adds' = [adds EXCEPT ![r].phase = "writing", ![r].last = last] /\ seen' = [seen EXCEPT ![r] = Listed]
        /\ coins' = coins /\ items' = items
    BY <1>4 DEF ReadLast, last
  <2>3. /\ adds'[r] \in Adding /\ adds'[r].last = last
        /\ adds' \in [Request -> Adding] /\ seen'[r] = Listed
        /\ \A q \in Request \ {r} : adds'[q] = adds[q] /\ seen'[q] = seen[q]
    BY <2>1, <2>2 DEF RosterTypeOK, Adding
  <2>4. RosterTypeOK'
    BY <2>2, <2>3 DEF RosterTypeOK, Listed
  <2>5. ReadBounds'
    BY <2>1, <2>2, <2>3 DEF ReadBounds, Listed
  <2>6. CoinsKnown'
    <3>1. adds'[r].coin = adds[r].coin /\ adds[r].coin \in coins
      BY <1>4, <2>2 DEF ReadLast, RosterTypeOK, Adding, CoinsKnown
    <3>2. QED
      BY <2>2, <2>3, <3>1 DEF CoinsKnown
  <2>7. QED
    BY <2>4, <2>5, <2>6
<1>5. ASSUME NEW r \in Request, Write(r) PROVE RosterTypeOK' /\ CoinsKnown' /\ ReadBounds'
  <2>1. adds[r] \in Adding /\ adds[r].coin \in Coin /\ adds[r].last + 1 \in Nat
    BY DEF RosterTypeOK, Adding
  <2>2. /\ Listed' = Listed \union {adds[r].coin}
        /\ \A c \in Listed' : items'[c] = IF c \in Listed THEN items[c] ELSE [pinned |-> FALSE, position |-> adds[r].last + 1]
    BY <1>5 DEF Write, Listed
  <2>3. /\ adds' \in [Request -> Adding] /\ seen' \in [Request -> SUBSET Coin]
        /\ adds'[r].phase = "idle"
        /\ \A q \in Request \ {r} : adds'[q] = adds[q] /\ seen'[q] = seen[q]
    <3>1. Idle \in Adding /\ Idle.phase = "idle"
      BY <2>1, IdleAdds DEF Idle
    <3>2. adds' = [adds EXCEPT ![r] = Idle] /\ seen' = [seen EXCEPT ![r] = {}]
      BY <1>5 DEF Write, Ends
    <3>3. QED
      BY <3>1, <3>2 DEF RosterTypeOK
  <2>4. adds[r].coin \in coins /\ coins' = coins
    BY <1>5 DEF CoinsKnown, Write
  <2>5. RosterTypeOK'
    <3>1. [pinned |-> FALSE, position |-> adds[r].last + 1] \in [pinned : BOOLEAN, position : Nat]
      BY <2>1
    <3>2. \A c \in Listed' : items'[c] \in [pinned : BOOLEAN, position : Nat]
      BY <2>2, <3>1 DEF RosterTypeOK
    <3>3. QED
      BY <2>2, <2>3, <2>4, <3>2 DEF RosterTypeOK
  <2>6. CoinsKnown' /\ ReadBounds'
    BY <2>2, <2>3, <2>4 DEF CoinsKnown, ReadBounds
  <2>7. QED
    BY <2>5, <2>6
<1>6. ASSUME NEW c \in Coin, RemoveCoin(c) PROVE RosterTypeOK' /\ CoinsKnown' /\ ReadBounds'
  <2>1. Listed' = Listed \ {c} /\ \A d \in Listed' : items'[d] = items[d]
    BY <1>6 DEF RemoveCoin, Listed
  <2>2. coins' = coins /\ adds' = adds /\ seen' = [r \in Request |-> seen[r] \ {c}]
    BY <1>6 DEF RemoveCoin, Forget
  <2>3. RosterTypeOK' /\ CoinsKnown' /\ ReadBounds'
    BY <2>1, <2>2 DEF RosterTypeOK, CoinsKnown, ReadBounds
  <2>4. QED
    BY <2>3
<1>7. ASSUME NEW c \in Coin, NEW pinned \in BOOLEAN, SetPinned(c, pinned) PROVE RosterTypeOK' /\ CoinsKnown' /\ ReadBounds'
  <2>1. c \in Listed /\ items[c] \in [pinned : BOOLEAN, position : Nat]
    BY <1>7 DEF SetPinned, RosterTypeOK
  <2>2. Listed' = Listed /\ items'[c] = [items[c] EXCEPT !.pinned = pinned] /\ \A d \in Listed \ {c} : items'[d] = items[d]
    BY <1>7, <2>1 DEF SetPinned, Listed
  <2>3. \A d \in Listed : items'[d] \in [pinned : BOOLEAN, position : Nat] /\ items'[d].position = items[d].position
    BY <2>1, <2>2, PinnedItem DEF RosterTypeOK
  <2>4. coins' = coins /\ adds' = adds /\ seen' = seen
    BY <1>7 DEF SetPinned
  <2>5. RosterTypeOK' /\ CoinsKnown' /\ ReadBounds'
    BY <2>2, <2>3, <2>4 DEF RosterTypeOK, CoinsKnown, ReadBounds
  <2>6. QED
    BY <2>5
<1>8. ASSUME NEW order \in Orders, Reorder(order) PROVE RosterTypeOK' /\ CoinsKnown' /\ ReadBounds'
  <2> DEFINE place(c) == CHOOSE n \in DOMAIN order : order[n] = c
  <2>1. \A c \in Range(order) : place(c) \in Nat \ {0}
    <3>1. PICK n \in Nat : DOMAIN order = 1..n
      BY FS_CardinalityType DEF Orders
    <3>2. \A c \in Range(order) : \E i \in DOMAIN order : order[i] = c
      BY DEF Range
    <3>3. QED
      BY <3>1, <3>2
  <2>2. Listed' = Listed /\ \A c \in Listed : items'[c] = IF c \in Range(order)
                                                          THEN [pinned |-> items[c].pinned, position |-> place(c) - 1]
                                                          ELSE items[c]
    BY <1>8 DEF Reorder, Listed
  <2>3. coins' = coins /\ adds' = adds /\ seen' = [r \in Request |-> seen[r] \ Range(order)]
    BY <1>8 DEF Reorder, Forget
  <2> HIDE DEF place
  <2>4. RosterTypeOK'
    <3>1. \A c \in Listed : items[c] \in [pinned : BOOLEAN, position : Nat]
      BY DEF RosterTypeOK
    <3>2. \A c \in Listed : items'[c] \in [pinned : BOOLEAN, position : Nat]
      <4>1. ASSUME NEW c \in Listed, c \in Range(order)
            PROVE  items'[c] \in [pinned : BOOLEAN, position : Nat]
        <5>1. place(c) - 1 \in Nat /\ items[c].pinned \in BOOLEAN
          BY <2>1, <3>1, <4>1
        <5>2. [pinned |-> items[c].pinned, position |-> place(c) - 1] \in [pinned : BOOLEAN, position : Nat]
          BY <5>1
        <5>3. QED
          BY <2>2, <4>1, <5>2
      <4>2. QED
        BY <2>2, <3>1, <4>1
    <3>3. QED
      BY <2>2, <2>3, <3>2 DEF RosterTypeOK
  <2>5. CoinsKnown' /\ ReadBounds'
    BY <2>2, <2>3 DEF CoinsKnown, ReadBounds
  <2>6. QED
    BY <2>4, <2>5
<1>9. CASE UNCHANGED rosterVars
  BY <1>9 DEF rosterVars, RosterTypeOK, CoinsKnown, ReadBounds, Listed
<1>10. QED
  BY <1>1, <1>2, <1>3, <1>4, <1>5, <1>6, <1>7, <1>8, <1>9 DEF RosterNext

LEMMA StepAppends ==
  ASSUME RosterInv, [RosterNext]_rosterVars, NEW r \in Request, adds[r].phase = "writing", adds'[r].phase = "idle"
  PROVE  Write(r)
<1> USE RosterAssumption
<1>1. SUFFICES ASSUME RosterNext PROVE Write(r)
  BY DEF rosterVars
<1>2. ASSUME NEW q \in Request, NEW c \in Coin, Lookup(q, c) PROVE FALSE
  BY <1>2 DEF Lookup, RosterInv, RosterTypeOK
<1>3. ASSUME NEW q \in Request, NotFound(q) PROVE FALSE
  BY <1>3 DEF NotFound, Ends, RosterInv, RosterTypeOK
<1>4. ASSUME NEW q \in Request, Import(q) PROVE FALSE
  BY <1>4 DEF Import, Ends, Goes, RosterInv, RosterTypeOK
<1>5. ASSUME NEW q \in Request, ReadLast(q) PROVE FALSE
  BY <1>5 DEF ReadLast, RosterInv, RosterTypeOK
<1>6. ASSUME NEW q \in Request, Write(q) PROVE Write(r)
  BY <1>6 DEF Write, Ends, RosterInv, RosterTypeOK
<1>7. ASSUME NEW c \in Coin, RemoveCoin(c) PROVE FALSE
  BY <1>7 DEF RemoveCoin
<1>8. ASSUME NEW c \in Coin, NEW pinned \in BOOLEAN, SetPinned(c, pinned) PROVE FALSE
  BY <1>8 DEF SetPinned
<1>9. ASSUME NEW order \in Orders, Reorder(order) PROVE FALSE
  BY <1>9 DEF Reorder
<1>10. QED
  BY <1>1, <1>2, <1>3, <1>4, <1>5, <1>6, <1>7, <1>8, <1>9 DEF RosterNext

LEMMA WriteAppends ==
  ASSUME RosterInv, NEW r \in Request, Write(r), NEW coin, adds[r].coin = coin
  PROVE  /\ coin \in DOMAIN items'
         /\ \A c \in Listed : c \in DOMAIN items' /\ items'[c] = items[c]
         /\ coin \notin Listed => \A c \in seen[r] \intersect Listed : ShownBefore(c, coin)'
<1>1. /\ DOMAIN items' = Listed \union {coin}
      /\ \A c \in Listed : items'[c] = items[c]
      /\ coin \notin Listed => items'[coin] = [pinned |-> FALSE, position |-> adds[r].last + 1]
  BY DEF Write, Listed
<1>2. adds[r].last \in Int /\ \A c \in Listed : items[c].pinned \in BOOLEAN /\ items[c].position \in Nat
  BY RosterAssumption DEF RosterInv, RosterTypeOK, Adding
<1>3. ASSUME coin \notin Listed, NEW c \in seen[r] \intersect Listed PROVE ShownBefore(c, coin)'
  <2>1. items[c].position <= adds[r].last
    BY DEF RosterInv, ReadBounds, Write
  <2>2. items'[c] = items[c] /\ items'[coin].pinned = FALSE /\ items'[coin].position = adds[r].last + 1
    BY <1>1, <1>3
  <2>3. items'[c].position < items'[coin].position /\ items'[c].pinned \in BOOLEAN
    BY <1>2, <2>1, <2>2
  <2>4. QED
    BY <2>2, <2>3 DEF ShownBefore
<1>4. QED
  BY <1>1, <1>3

\* watchlist-repository.ts, coin-repository.ts: at all times the coins that are
\* watched are polled first, and every add appends and moves nothing, for any
\* requests beside each other, reorderings, removals and limit.
THEOREM RosterStaysSound == RosterSpec => RosterSound
<1>1. RosterInv => RosterTypeOK /\ WatchedPolledFirst
  BY WatchedFirst DEF RosterInv
<1>2. RosterInv /\ [RosterNext]_rosterVars =>
        [\A r \in Request, coin \in Coin :
           (adds[r].phase = "writing" /\ adds'[r].phase = "idle" /\ adds[r].coin = coin) =>
             /\ coin \in DOMAIN items'
             /\ \A c \in Listed : c \in DOMAIN items' /\ items'[c] = items[c]
             /\ coin \notin Listed => \A c \in seen[r] \intersect Listed : ShownBefore(c, coin)']_rosterVars
  BY StepAppends, WriteAppends
<1>3. QED
  BY <1>1, <1>2, RosterInitHolds, RosterStepHolds, PTL DEF RosterSpec, RosterSound, AddsAppend

------------------------------------------------------------------------------
\* The clusters (Clustering).

\* What holds of 0 and of the successor of every number it holds of, up to m,
\* holds up to m.
LEMMA UpTo ==
  ASSUME NEW m \in Nat, NEW S, 0 \in S, \A n \in 0..(m - 1) : n \in S => n + 1 \in S
  PROVE  0..m \subseteq S
<1> DEFINE T == (0..m) \ S
<1> SUFFICES ASSUME T # {} PROVE FALSE
  OBVIOUS
<1>1. T \in SUBSET Nat
  OBVIOUS
<1>2. PICK x \in T : \A y \in T : x <= y
  <2> HIDE DEF T
  <2>1. QED
    BY <1>1, LeastExists
<1>3. x \in 0..m /\ x # 0 /\ x \notin S
  OBVIOUS
<1>4. x - 1 \in 0..(m - 1) /\ x - 1 \notin T
  <2> HIDE DEF T
  <2>1. QED
    BY <1>2, <1>3
<1>5. x - 1 \in S
  BY <1>4
<1>6. QED
  BY <1>3, <1>4, <1>5

------------------------------------------------------------------------------
\* A story of some reports: nothing links it to the others.
Closed(story, reports) == \A a \in story, b \in reports \ story : ~Linked(a, b) /\ ~Linked(b, a)

\* A cluster id that r may have: some report of the same stories seeds it.
Seeds(reports, r, id) ==
  \E q \in reports : /\ id = DeriveClusterId(q)
                     /\ \A story \in SUBSET reports : Closed(story, reports) => (r \in story <=> q \in story)

Placements(reports) ==
  {t \in [report : reports, cluster : {DeriveClusterId(q) : q \in reports}] : Seeds(reports, t.report, t.cluster)}

LEMMA SeedsGrow ==
  ASSUME NEW reports, NEW more, reports \subseteq more, NEW r \in reports, NEW id, Seeds(reports, r, id)
  PROVE  Seeds(more, r, id)
<1>1. PICK q \in reports : /\ id = DeriveClusterId(q)
                           /\ \A story \in SUBSET reports : Closed(story, reports) => (r \in story <=> q \in story)
  BY DEF Seeds
<1>2. ASSUME NEW story \in SUBSET more, Closed(story, more) PROVE r \in story <=> q \in story
  <2>1. story \intersect reports \in SUBSET reports /\ Closed(story \intersect reports, reports)
    BY <1>2 DEF Closed
  <2>2. r \in story \intersect reports <=> q \in story \intersect reports
    BY <1>1, <2>1
  <2>3. QED
    BY <2>2
<1>3. QED
  BY <1>1, <1>2 DEF Seeds

\* A report joins what it is alike to, or nothing.
LEMMA FindClusterFinds ==
  ASSUME NEW reports \in SUBSET Report, NEW assigned \in Seq(Placements(reports)), NEW incoming \in Report,
         FindCluster(incoming, assigned) # Null
  PROVE  \E n \in 1..Len(assigned) : /\ Alike(assigned[n].report, incoming)
                                     /\ FindCluster(incoming, assigned) = assigned[n].cluster
<1> DEFINE alike == {n \in DOMAIN assigned : /\ assigned[n].report # incoming
                                             /\ Alike(assigned[n].report, incoming)}
           same == {n \in alike : SameUrl(assigned[n].report, incoming)}
           similarity(n) == Similarity(Headline[incoming], Headline[assigned[n].report])
           best == {n \in alike : \A m \in alike : similarity(m) <= similarity(n)}
           from == IF same = {} THEN best ELSE same
<1>1. alike # {} /\ FindCluster(incoming, assigned) = assigned[Min(from)].cluster
  BY DEF FindCluster
<1>2. DOMAIN assigned = 1..Len(assigned) /\ Len(assigned) \in Nat /\ \A n \in DOMAIN assigned : assigned[n].report \in Report
  BY ElementOfSeq, LenProperties DEF Placements
<1>3. best # {}
  <2> DEFINE values == {similarity(n) : n \in alike}
  <2>1. \A n \in alike : similarity(n) \in 0..100
    BY <1>2, ClusterAssumption DEF ClusterAssumption
  <2> HIDE DEF alike, similarity
  <2>2. values \in SUBSET (-1..100) /\ values # {}
    <3>1. ASSUME NEW v \in values PROVE v \in -1..100
      <4>1. PICK n \in alike : v = similarity(n)
        OBVIOUS
      <4>2. v \in 0..100
        BY <2>1, <4>1
      <4> HIDE DEF values
      <4>3. QED
        BY <4>2
    <3>2. QED
      BY <1>1, <3>1
  <2>3. Max(values) \in values /\ \A y \in values : y <= Max(values)
    <3> HIDE DEF values
    <3>1. QED
      BY <2>2, MaxBounds
  <2>4. PICK n \in alike : similarity(n) = Max(values)
    BY <2>3
  <2>5. \A m \in alike : similarity(m) <= similarity(n)
    BY <2>3, <2>4
  <2>6. QED
    BY <2>5
<1>4. from \in SUBSET Nat /\ from # {} /\ from \subseteq alike
  BY <1>2, <1>3
<1>5. Min(from) \in from
  <2> HIDE DEF from
  <2>1. \E x \in from : \A y \in from : x <= y
    BY <1>4, LeastExists
  <2>2. QED
    BY <2>1 DEF Min
<1>6. Min(from) \in alike
  BY <1>4, <1>5
<1> HIDE DEF from
<1>7. QED
  BY <1>1, <1>2, <1>6

LEMMA PlacedPlaces ==
  ASSUME NEW reports \in SUBSET Report, NEW assigned \in Seq(Placements(reports)), NEW r \in reports
  PROVE  Placed(assigned, r) \in Seq(Placements(reports))
<1> DEFINE found == FindCluster(r, assigned)
           id == IF found = Null THEN DeriveClusterId(r) ELSE found
<1>1. id \in {DeriveClusterId(q) : q \in reports} /\ Seeds(reports, r, id)
  <2>1. CASE found = Null
    BY <2>1 DEF Seeds
  <2>2. CASE found # Null
    <3>1. PICK n \in 1..Len(assigned) : Alike(assigned[n].report, r) /\ found = assigned[n].cluster
      BY <2>2, FindClusterFinds
    <3>2. assigned[n] \in Placements(reports)
      BY <3>1, ElementOfSeq
    <3>3. PICK q \in reports : /\ assigned[n].cluster = DeriveClusterId(q)
                               /\ \A story \in SUBSET reports : Closed(story, reports) =>
                                    (assigned[n].report \in story <=> q \in story)
      BY <3>2 DEF Placements, Seeds
    <3>4. assigned[n].report \in reports /\ Linked(assigned[n].report, r)
      BY <3>1, <3>2 DEF Placements, Linked
    <3>5. \A story \in SUBSET reports : Closed(story, reports) => (r \in story <=> q \in story)
      BY <3>3, <3>4 DEF Closed
    <3>6. QED
      BY <2>2, <3>1, <3>3, <3>5 DEF Seeds
  <2>3. QED
    BY <2>1, <2>2
<1>2. Placed(assigned, r) = Append(assigned, [report |-> r, cluster |-> id])
  BY DEF Placed
<1> HIDE DEF id
<1>3. [report |-> r, cluster |-> id] \in Placements(reports)
  BY <1>1 DEF Placements
<1>4. QED
  BY <1>2, <1>3, AppendProperties

------------------------------------------------------------------------------
Passes(oldestFirst, f, m) ==
  f = [n \in 0..m |-> IF n = 0 THEN <<>> ELSE Placed(f[n - 1], oldestFirst[n])]

LEMMA PassExists ==
  ASSUME NEW oldestFirst, NEW m \in Nat
  PROVE  \E f : Passes(oldestFirst, f, m)
<1> DEFINE S == {n \in Nat : \E f : Passes(oldestFirst, f, n)}
<1>1. 0 \in S
  <2>1. Passes(oldestFirst, [n \in 0..0 |-> <<>>], 0)
    BY DEF Passes
  <2>2. QED
    BY <2>1
<1>2. ASSUME NEW n \in 0..(m - 1), n \in S PROVE n + 1 \in S
  <2>1. PICK f : Passes(oldestFirst, f, n)
    BY <1>2
  <2> DEFINE g == [k \in 0..(n + 1) |-> IF k = n + 1 THEN Placed(f[n], oldestFirst[n + 1]) ELSE f[k]]
  <2>2. \A k \in 0..(n + 1) : g[k] = IF k = 0 THEN <<>> ELSE Placed(g[k - 1], oldestFirst[k])
    BY <2>1 DEF Passes
  <2>3. g = [k \in 0..(n + 1) |-> g[k]]
    OBVIOUS
  <2> HIDE DEF g
  <2>4. Passes(oldestFirst, g, n + 1)
    BY <2>2, <2>3 DEF Passes
  <2>5. n + 1 \in Nat
    OBVIOUS
  <2>6. QED
    BY <2>4, <2>5
<1>3. 0..m \subseteq S
  <2> HIDE DEF S
  <2>1. QED
    BY <1>1, <1>2, UpTo
<1>4. QED
  BY <1>3

LEMMA BatchPasses ==
  ASSUME NEW oldestFirst, Len(oldestFirst) \in Nat
  PROVE  \E f : Passes(oldestFirst, f, Len(oldestFirst)) /\ ClusterBatch(oldestFirst) = f[Len(oldestFirst)]
<1> DEFINE m == Len(oldestFirst)
           f == CHOOSE g : g = [n \in 0..m |-> IF n = 0 THEN <<>> ELSE Placed(g[n - 1], oldestFirst[n])]
<1>1. \E g : g = [n \in 0..m |-> IF n = 0 THEN <<>> ELSE Placed(g[n - 1], oldestFirst[n])]
  BY PassExists DEF Passes
<1>2. Passes(oldestFirst, f, m)
  BY <1>1 DEF Passes
<1>3. ClusterBatch(oldestFirst) = f[m]
  BY DEF ClusterBatch
<1>4. QED
  BY <1>2, <1>3

\* What a pass has placed after n reports: the first n, where it placed them.
PlacedFirst(reports, oldestFirst, f, n) ==
  /\ f[n] \in Seq(Placements(reports)) /\ Len(f[n]) = n
  /\ \A k \in 1..n : f[n][k] = f[k][k] /\ f[n][k].report = oldestFirst[k]

LEMMA PassPlaces ==
  ASSUME NEW reports \in SUBSET Report, NEW oldestFirst \in Seq(reports),
         NEW f, Passes(oldestFirst, f, Len(oldestFirst))
  PROVE  \A n \in 0..Len(oldestFirst) : PlacedFirst(reports, oldestFirst, f, n)
<1> DEFINE m == Len(oldestFirst)
           S == {n \in 0..m : PlacedFirst(reports, oldestFirst, f, n)}
<1>1. m \in Nat /\ \A n \in 1..m : oldestFirst[n] \in reports
  BY ElementOfSeq, LenProperties
<1>2. f[0] = <<>> /\ \A n \in 1..m : f[n] = Placed(f[n - 1], oldestFirst[n])
  BY <1>1 DEF Passes
<1> HIDE DEF m
<1>3. 0 \in S
  <2>1. 0 \in 0..m /\ 1..0 = {}
    BY <1>1
  <2>2. QED
    BY <1>2, <2>1, EmptySeq DEF PlacedFirst
<1>4. ASSUME NEW n \in 0..(m - 1), n \in S PROVE n + 1 \in S
  <2>1. f[n + 1] = Placed(f[n], oldestFirst[n + 1]) /\ n + 1 \in 1..m
    BY <1>1, <1>2
  <2>2. /\ f[n] \in Seq(Placements(reports)) /\ Len(f[n]) = n
        /\ \A k \in 1..n : f[n][k] = f[k][k] /\ f[n][k].report = oldestFirst[k]
        /\ oldestFirst[n + 1] \in reports
    BY <1>1, <1>4, <2>1 DEF PlacedFirst
  <2>3. PICK id : f[n + 1] = Append(f[n], [report |-> oldestFirst[n + 1], cluster |-> id])
    BY <2>1 DEF Placed
  <2> DEFINE row == [report |-> oldestFirst[n + 1], cluster |-> id]
  <2>4. f[n + 1] \in Seq(Placements(reports))
    BY <2>1, <2>2, PlacedPlaces
  <2>5. row.report = oldestFirst[n + 1]
    OBVIOUS
  <2> HIDE DEF row
  <2>6. Len(f[n + 1]) = n + 1 /\ f[n + 1][n + 1] = row /\ \A k \in 1..n : f[n + 1][k] = f[n][k]
    BY <2>2, <2>3, AppendProperties, LenProperties DEF row
  <2>7. \A k \in 1..(n + 1) : f[n + 1][k] = f[k][k] /\ f[n + 1][k].report = oldestFirst[k]
    <3>1. \A k \in 1..(n + 1) : k \in 1..n \/ k = n + 1
      OBVIOUS
    <3>2. QED
      BY <2>2, <2>5, <2>6, <3>1
  <2>8. QED
    BY <1>1, <2>1, <2>4, <2>6, <2>7 DEF PlacedFirst
<1>5. 0..m \subseteq S
  <2> HIDE DEF S
  <2>1. QED
    BY <1>1, <1>3, <1>4, UpTo
<1>6. QED
  BY <1>5 DEF m

LEMMA BatchPlaces ==
  ASSUME NEW reports \in SUBSET Report, NEW oldestFirst \in Seq(reports)
  PROVE  /\ ClusterBatch(oldestFirst) \in Seq(Placements(reports))
         /\ Len(ClusterBatch(oldestFirst)) = Len(oldestFirst)
         /\ \A k \in 1..Len(oldestFirst) : ClusterBatch(oldestFirst)[k].report = oldestFirst[k]
<1>1. Len(oldestFirst) \in Nat
  BY LenProperties
<1>2. PICK f : Passes(oldestFirst, f, Len(oldestFirst)) /\ ClusterBatch(oldestFirst) = f[Len(oldestFirst)]
  BY <1>1, BatchPasses
<1>3. Len(oldestFirst) \in 0..Len(oldestFirst)
  BY <1>1
<1>4. QED
  BY <1>2, <1>3, PassPlaces DEF PlacedFirst

\* Later reports do not change where a pass places the earlier ones.
LEMMA BatchExtends ==
  ASSUME NEW reports \in SUBSET Report, NEW oldestFirst \in Seq(reports), NEW prefix \in Seq(reports),
         Len(prefix) <= Len(oldestFirst), \A k \in 1..Len(prefix) : prefix[k] = oldestFirst[k]
  PROVE  \A k \in 1..Len(prefix) : ClusterBatch(prefix)[k] = ClusterBatch(oldestFirst)[k]
<1> DEFINE m == Len(oldestFirst)
           n == Len(prefix)
<1>1. m \in Nat /\ n \in Nat
  BY LenProperties
<1>2. PICK f : Passes(oldestFirst, f, m) /\ ClusterBatch(oldestFirst) = f[m]
  BY <1>1, BatchPasses
<1>3. PICK g : Passes(prefix, g, n) /\ ClusterBatch(prefix) = g[n]
  BY <1>1, BatchPasses
<1>4. \A k \in 0..n : g[k] = f[k]
  <2> DEFINE S == {k \in 0..n : g[k] = f[k]}
  <2> HIDE DEF m, n
  <2>1. 0 \in S
    BY <1>1, <1>2, <1>3 DEF Passes
  <2>2. ASSUME NEW k \in 0..(n - 1), k \in S PROVE k + 1 \in S
    <3>1. k + 1 \in 1..n /\ k + 1 \in 1..m /\ k + 1 # 0 /\ (k + 1) - 1 = k
      BY <1>1 DEF m, n
    <3>2. g[k + 1] = Placed(g[k], prefix[k + 1]) /\ f[k + 1] = Placed(f[k], oldestFirst[k + 1])
      BY <1>1, <1>2, <1>3, <3>1 DEF Passes
    <3>3. prefix[k + 1] = oldestFirst[k + 1] /\ g[k] = f[k]
      BY <2>2, <3>1 DEF n
    <3>4. QED
      BY <1>1, <3>1, <3>2, <3>3
  <2>3. 0..n \subseteq S
    <3> HIDE DEF S
    <3>1. QED
      BY <1>1, <2>1, <2>2, UpTo
  <2>4. QED
    BY <2>3
<1>5. /\ \A k \in 1..m : f[m][k] = f[k][k]
      /\ \A k \in 1..n : f[n][k] = f[k][k]
  <2>1. m \in 0..m /\ n \in 0..m
    BY <1>1
  <2>2. \A j \in 0..m : PlacedFirst(reports, oldestFirst, f, j)
    BY <1>2, PassPlaces
  <2> HIDE DEF m, n
  <2>3. QED
    BY <2>1, <2>2 DEF PlacedFirst
<1>6. n \in 0..n /\ 1..n \subseteq 1..m
  BY <1>1
<1>7. QED
  BY <1>2, <1>3, <1>4, <1>5, <1>6

------------------------------------------------------------------------------
Ids == {DeriveClusterId(q) : q \in Report}
Ingestion == [new : SUBSET Report, stage : {"created", "writing"}, todo : SUBSET [report : Report, cluster : Ids]]

ClusterTypeOK ==
  /\ stored \in SUBSET Report /\ cluster \in [Report -> Ids \union {Null}]
  /\ ingestions \in SUBSET Ingestion
  /\ \A i \in ingestions : \A a \in i.todo : a.report \in stored

\* Every id that was written, or is about to be, was seeded in the same stories.
ClustersSeeded ==
  /\ \A r \in Report : cluster[r] # Null => r \in stored /\ Seeds(stored, r, cluster[r])
  /\ \A i \in ingestions : \A a \in i.todo : Seeds(stored, a.report, a.cluster)

ClusterInv == ClusterTypeOK /\ ClustersSeeded

LEMMA SeededApart == ClusterInv => StoriesApart
<1> SUFFICES ASSUME ClusterInv, NEW story \in SUBSET stored, Closed(story, stored),
                    NEW a \in story, NEW b \in stored \ story, cluster[a] # Null, cluster[a] = cluster[b]
             PROVE  FALSE
  BY DEF StoriesApart, Closed
<1>1. Seeds(stored, a, cluster[a]) /\ Seeds(stored, b, cluster[b])
  BY DEF ClusterInv, ClusterTypeOK, ClustersSeeded
<1>2. PICK p \in stored : cluster[a] = DeriveClusterId(p) /\ (a \in story <=> p \in story)
  BY <1>1 DEF Seeds
<1>3. PICK q \in stored : cluster[b] = DeriveClusterId(q) /\ (b \in story <=> q \in story)
  BY <1>1 DEF Seeds
<1>4. Linked(p, q)
  BY <1>2, <1>3 DEF Linked
<1>5. QED
  BY <1>2, <1>3, <1>4 DEF Closed

LEMMA ClusterInitHolds == ClusterInit => ClusterInv
  BY DEF ClusterInit, ClusterInv, ClusterTypeOK, ClustersSeeded

LEMMA CandidatesStored ==
  ASSUME ClusterTypeOK, NEW candidates \in Candidates
  PROVE  candidates \in Seq(stored)
<1> DEFINE recent == {r \in stored : OccurredAt[r] >= hour - WindowHours}
           count == IF Cardinality(recent) <= CandidateCap THEN Cardinality(recent) ELSE CandidateCap
<1>1. count \in Nat
  <2>1. IsFiniteSet(recent) /\ CandidateCap \in Nat
    BY ClusterAssumption, FS_Subset DEF ClusterAssumption, ClusterTypeOK
  <2> HIDE DEF recent
  <2>2. QED
    BY <2>1, FS_CardinalityType
<1>2. candidates \in [1..count -> recent]
  BY DEF Candidates, OldestFirst
<1> HIDE DEF count
<1>3. candidates \in [1..count -> stored]
  BY <1>2
<1>4. QED
  BY <1>1, <1>3, SeqDef

LEMMA ClusterStepHolds == ClusterInv /\ [ClusterNext]_clusterVars => ClusterInv'
<1> SUFFICES ASSUME ClusterTypeOK, ClustersSeeded, [ClusterNext]_clusterVars PROVE ClusterTypeOK' /\ ClustersSeeded'
  BY DEF ClusterInv
<1>1. ASSUME NEW new \in SUBSET Report, Ingest(new) PROVE ClusterTypeOK' /\ ClustersSeeded'
  <2>1. stored' = stored \union new /\ cluster' = cluster
        /\ ingestions' = ingestions \union {[new |-> new, stage |-> "created", todo |-> {}]}
    BY <1>1 DEF Ingest
  <2>2. ClusterTypeOK'
    BY <2>1 DEF ClusterTypeOK, Ingestion
  <2>3. \A r \in stored : \A id : Seeds(stored, r, id) => Seeds(stored', r, id)
    BY <2>1, SeedsGrow
  <2>4. \A r \in Report : cluster'[r] # Null => r \in stored' /\ Seeds(stored', r, cluster'[r])
    BY <2>1, <2>3 DEF ClustersSeeded
  <2>5. ASSUME NEW i \in ingestions', NEW a \in i.todo PROVE Seeds(stored', a.report, a.cluster)
    <3>1. i \in ingestions /\ a.report \in stored /\ Seeds(stored, a.report, a.cluster)
      BY <2>1, <2>5 DEF ClustersSeeded, ClusterTypeOK
    <3>2. QED
      BY <2>3, <3>1
  <2>6. ClustersSeeded'
    BY <2>4, <2>5 DEF ClustersSeeded
  <2>7. QED
    BY <2>2, <2>6
<1>2. ASSUME NEW i \in ingestions, NEW candidates \in Candidates, ClusterNewEvents(i, candidates)
      PROVE  ClusterTypeOK' /\ ClustersSeeded'
  <2> DEFINE todo == {a \in ToSet(ClusterBatch(candidates)) : a.report \in i.new /\ a.cluster # cluster[a.report]}
  <2>1. ToSet(ClusterBatch(candidates)) \subseteq Placements(stored)
    <3>1. ClusterBatch(candidates) \in Seq(Placements(stored))
      BY CandidatesStored, BatchPlaces DEF ClusterTypeOK
    <3>2. QED
      BY <3>1, ElementOfSeq, LenProperties DEF ToSet
  <2>2. /\ \A a \in todo : a.report \in stored /\ Seeds(stored, a.report, a.cluster)
        /\ todo \in SUBSET [report : Report, cluster : Ids]
    BY <2>1 DEF Placements, Ids, ClusterTypeOK
  <2>3. stored' = stored /\ cluster' = cluster
        /\ ingestions' = (ingestions \ {i}) \union
                           (IF todo = {} THEN {} ELSE {[i EXCEPT !.stage = "writing", !.todo = todo]})
    BY <1>2 DEF ClusterNewEvents
  <2> HIDE DEF todo
  <2>4. /\ [i EXCEPT !.stage = "writing", !.todo = todo].todo = todo
        /\ [i EXCEPT !.stage = "writing", !.todo = todo] \in Ingestion
    BY <2>2 DEF Ingestion, ClusterTypeOK
  <2>5. \A j \in ingestions' : j \in Ingestion /\ (j \in ingestions \/ j.todo = todo)
    BY <2>3, <2>4 DEF ClusterTypeOK
  <2>6. QED
    BY <2>2, <2>3, <2>5 DEF ClusterTypeOK, ClustersSeeded
<1>3. ASSUME NEW i \in ingestions, NEW a \in i.todo, SetClusterId(i, a) PROVE ClusterTypeOK' /\ ClustersSeeded'
  <2>1. stored' = stored /\ cluster' = [cluster EXCEPT ![a.report] = a.cluster]
        /\ ingestions' = (ingestions \ {i}) \union (IF i.todo = {a} THEN {} ELSE {[i EXCEPT !.todo = @ \ {a}]})
    BY <1>3 DEF SetClusterId
  <2>2. /\ [i EXCEPT !.todo = @ \ {a}].todo \subseteq i.todo
        /\ [i EXCEPT !.todo = @ \ {a}] \in Ingestion
    BY DEF Ingestion, ClusterTypeOK
  <2>3. \A j \in ingestions' : j \in Ingestion /\ (j \in ingestions \/ j.todo \subseteq i.todo)
    BY <2>1, <2>2 DEF ClusterTypeOK
  <2>4. a \in [report : Report, cluster : Ids] /\ a.report \in stored /\ Seeds(stored, a.report, a.cluster)
    BY DEF ClusterTypeOK, ClustersSeeded, Ingestion
  <2>5. ClusterTypeOK'
    BY <2>1, <2>3, <2>4 DEF ClusterTypeOK
  <2>6. \A r \in Report : cluster'[r] = IF r = a.report THEN a.cluster ELSE cluster[r]
    BY <2>1, <2>4 DEF ClusterTypeOK
  <2>7. ClustersSeeded'
    BY <2>1, <2>3, <2>4, <2>6 DEF ClustersSeeded
  <2>8. QED
    BY <2>5, <2>7
<1>4. ASSUME NEW i \in ingestions, Abandon(i) PROVE ClusterTypeOK' /\ ClustersSeeded'
  BY <1>4 DEF Abandon, ClusterTypeOK, ClustersSeeded
<1>5. CASE HourPasses
  BY <1>5 DEF HourPasses, ClusterTypeOK, ClustersSeeded
<1>6. CASE UNCHANGED clusterVars
  BY <1>6 DEF clusterVars, ClusterTypeOK, ClustersSeeded
<1>7. QED
  BY <1>1, <1>2, <1>3, <1>4, <1>5, <1>6 DEF ClusterNext


------------------------------------------------------------------------------
\* No two reports of one moment.
Distinct(reports) == \A p, q \in reports : p # q => OccurredAt[p] # OccurredAt[q]

Lists(all, S, n) ==
  /\ all \in [1..n -> S]
  /\ \A i, j \in 1..n : i < j => all[i] # all[j] /\ OccurredAt[all[i]] <= OccurredAt[all[j]]
  /\ \A r \in S : \E k \in 1..n : all[k] = r

\* A list of as many as there are lists all.
LEMMA ListsAll ==
  ASSUME NEW S \in SUBSET Report, NEW all \in OldestFirst(S, Cardinality(S))
  PROVE  /\ Cardinality(S) \in Nat /\ IsFiniteSet(S) /\ all \in Seq(S) /\ Len(all) = Cardinality(S)
         /\ Lists(all, S, Cardinality(S))
<1> DEFINE n == Cardinality(S)
<1>1. IsFiniteSet(S) /\ n \in Nat
  BY ClusterAssumption, FS_Subset, FS_CardinalityType DEF ClusterAssumption
<1>2. /\ all \in [1..n -> S]
      /\ \A i, j \in 1..n : i < j => all[i] # all[j] /\ OccurredAt[all[i]] <= OccurredAt[all[j]]
  BY DEF OldestFirst
<1>3. all \in Seq(S) /\ Len(all) = n
  <2> HIDE DEF n
  <2>1. QED
    BY <1>1, <1>2, SeqDef, LenProperties
<1>4. all \in Injection(1..n, S)
  <2>1. \A i, j \in 1..n : all[i] = all[j] => i = j
    <3> SUFFICES ASSUME NEW i \in 1..n, NEW j \in 1..n, all[i] = all[j], i # j PROVE FALSE
      OBVIOUS
    <3>1. i < j \/ j < i
      OBVIOUS
    <3>2. QED
      BY <1>2, <3>1
  <2> HIDE DEF n
  <2>2. QED
    BY <1>2, <2>1, Fun_IsInj
<1>5. IsFiniteSet(1..n) /\ Cardinality(1..n) = n
  <2> HIDE DEF n
  <2>1. QED
    BY <1>1, FS_Interval
<1>6. all \in Surjection(1..n, S)
  BY <1>1, <1>4, <1>5, FS_Injection
<1>7. \A r \in S : \E k \in 1..n : all[k] = r
  BY <1>6 DEF Surjection
<1>8. QED
  BY <1>1, <1>2, <1>3, <1>7 DEF Lists

\* There is one list of reports of different moments.
LEMMA ListsOne ==
  ASSUME NEW S \in SUBSET Report, Distinct(S),
         NEW s \in OldestFirst(S, Cardinality(S)), NEW t \in OldestFirst(S, Cardinality(S))
  PROVE  s = t
<1> DEFINE n == Cardinality(S)
<1>0. n \in Nat /\ Lists(s, S, n) /\ Lists(t, S, n)
  BY ListsAll
<1> HIDE DEF n
<1>1. /\ n \in Nat /\ s \in [1..n -> S] /\ t \in [1..n -> S]
      /\ \A i, j \in 1..n : i < j => s[i] # s[j] /\ OccurredAt[s[i]] <= OccurredAt[s[j]]
      /\ \A i, j \in 1..n : i < j => t[i] # t[j] /\ OccurredAt[t[i]] <= OccurredAt[t[j]]
      /\ \A r \in S : \E k \in 1..n : s[k] = r
      /\ \A r \in S : \E k \in 1..n : t[k] = r
  BY <1>0 DEF Lists
<1>2. \A i, j \in 1..n : i < j => OccurredAt[s[i]] < OccurredAt[s[j]] /\ OccurredAt[t[i]] < OccurredAt[t[j]]
  <2>1. \A i \in 1..n : OccurredAt[s[i]] \in Nat /\ OccurredAt[t[i]] \in Nat /\ s[i] \in S /\ t[i] \in S
    BY <1>1, ClusterAssumption DEF ClusterAssumption
  <2>2. ASSUME NEW i \in 1..n, NEW j \in 1..n, i < j
        PROVE  OccurredAt[s[i]] < OccurredAt[s[j]] /\ OccurredAt[t[i]] < OccurredAt[t[j]]
    <3>1. s[i] # s[j] /\ OccurredAt[s[i]] <= OccurredAt[s[j]] /\ t[i] # t[j] /\ OccurredAt[t[i]] <= OccurredAt[t[j]]
      BY <1>1, <2>2
    <3>2. OccurredAt[s[i]] # OccurredAt[s[j]] /\ OccurredAt[t[i]] # OccurredAt[t[j]]
      BY <2>1, <3>1 DEF Distinct
    <3>3. QED
      BY <2>1, <3>1, <3>2
  <2>3. QED
    BY <2>2
<1> DEFINE U == {k \in 0..n : \A i \in 1..k : s[i] = t[i]}
<1>3. 0 \in U
  BY <1>1
<1>4. ASSUME NEW k \in 0..(n - 1), k \in U PROVE k + 1 \in U
  <2>1. k + 1 \in 1..n /\ \A i \in 1..k : s[i] = t[i]
    BY <1>1, <1>4
  <2>2. s[k + 1] = t[k + 1]
    <3> SUFFICES ASSUME s[k + 1] # t[k + 1] PROVE FALSE
      OBVIOUS
    <3>1. PICK i \in 1..n : s[i] = t[k + 1]
      BY <1>1, <2>1
    <3>2. PICK j \in 1..n : t[j] = s[k + 1]
      BY <1>1, <2>1
    <3>3. k + 1 < i
      <4>1. ~(i <= k)
        <5> SUFFICES ASSUME i <= k PROVE FALSE
          OBVIOUS
        <5>1. t[i] = t[k + 1] /\ i < k + 1
          BY <1>1, <2>1, <3>1
        <5>2. QED
          BY <1>1, <2>1, <5>1
      <4>2. i # k + 1
        BY <3>1
      <4>3. i \in Nat /\ k \in Nat
        BY <1>0
      <4>4. QED
        BY <4>1, <4>2, <4>3
    <3>4. k + 1 < j
      <4>1. ~(j <= k)
        <5> SUFFICES ASSUME j <= k PROVE FALSE
          OBVIOUS
        <5>1. s[j] = s[k + 1] /\ j < k + 1
          BY <1>1, <2>1, <3>2
        <5>2. QED
          BY <1>1, <2>1, <5>1
      <4>2. j # k + 1
        BY <3>2
      <4>3. j \in Nat /\ k \in Nat
        BY <1>0
      <4>4. QED
        BY <4>1, <4>2, <4>3
    <3>5. OccurredAt[s[k + 1]] < OccurredAt[t[k + 1]] /\ OccurredAt[t[k + 1]] < OccurredAt[s[k + 1]]
      BY <1>2, <2>1, <3>1, <3>2, <3>3, <3>4
    <3>6. OccurredAt[s[k + 1]] \in Nat /\ OccurredAt[t[k + 1]] \in Nat
      BY <1>1, <2>1, ClusterAssumption DEF ClusterAssumption
    <3>7. QED
      BY <3>5, <3>6
  <2>3. \A i \in 1..(k + 1) : i \in 1..k \/ i = k + 1
    OBVIOUS
  <2>4. k + 1 \in 0..n
    BY <2>1
  <2>5. QED
    BY <2>1, <2>2, <2>3, <2>4
<1>5. 0..n \subseteq U
  <2> HIDE DEF U
  <2>1. QED
    BY <1>1, <1>3, <1>4, UpTo
<1>6. n \in U
  <2>1. n \in 0..n
    BY <1>1
  <2> HIDE DEF U
  <2>2. QED
    BY <1>5, <2>1
<1>7. \A i \in 1..n : s[i] = t[i]
  BY <1>6
<1>8. QED
  BY <1>1, <1>7

\* A list of reports, the old ones of which come before the new ones, starts
\* with the list of the old ones.
LEMMA OldOnesFirst ==
  ASSUME NEW old \in SUBSET Report, NEW S \in SUBSET Report, old \subseteq S,
         \A q \in old, r \in S \ old : OccurredAt[q] < OccurredAt[r],
         NEW all \in OldestFirst(S, Cardinality(S))
  PROVE  /\ Cardinality(old) \in Nat /\ Cardinality(old) <= Cardinality(S)
         /\ [k \in 1..Cardinality(old) |-> all[k]] \in OldestFirst(old, Cardinality(old))
<1> DEFINE n == Cardinality(old)
           m == Cardinality(S)
           K == {k \in 1..m : all[k] \in old}
           prefix == [k \in 1..n |-> all[k]]
<1>1. /\ m \in Nat /\ IsFiniteSet(S) /\ all \in [1..m -> S]
      /\ \A i, j \in 1..m : i < j => all[i] # all[j] /\ OccurredAt[all[i]] <= OccurredAt[all[j]]
      /\ \A r \in S : \E k \in 1..m : all[k] = r
  BY ListsAll DEF Lists
<1>2. IsFiniteSet(old) /\ n \in Nat /\ n <= m
  BY <1>1, FS_Subset, FS_CardinalityType
<1> HIDE DEF n, m
<1>3. \A k \in K : \A j \in 1..k : j \in K
  <2> SUFFICES ASSUME NEW k \in K, NEW j \in 1..k, all[j] \notin old PROVE FALSE
    BY <1>1
  <2>1. k \in 1..m /\ j \in 1..m /\ all[k] \in old /\ all[j] \in S \ old
    BY <1>1
  <2>2. j # k /\ j < k
    BY <2>1
  <2>3. OccurredAt[all[j]] <= OccurredAt[all[k]] /\ OccurredAt[all[k]] < OccurredAt[all[j]]
    BY <1>1, <2>1, <2>2
  <2>4. OccurredAt[all[j]] \in Nat /\ OccurredAt[all[k]] \in Nat
    BY <2>1, ClusterAssumption DEF ClusterAssumption
  <2>5. QED
    BY <2>3, <2>4
<1>4. \E c \in 0..m : K = 1..c
  <2>1. CASE K = {}
    BY <1>1, <2>1
  <2>2. CASE K # {}
    <3>1. K \in SUBSET (-1..m)
      BY <1>1
    <3>2. Max(K) \in K /\ \A y \in K : y <= Max(K)
      <4> HIDE DEF K
      <4>1. QED
        BY <1>1, <2>2, <3>1, MaxBounds
    <3>3. Max(K) \in 1..m
      BY <3>2
    <3>4. K \subseteq 1..Max(K)
      BY <3>2, <3>3
    <3>5. 1..Max(K) \subseteq K
      BY <1>3, <3>2
    <3> HIDE DEF K
    <3>6. K = 1..Max(K)
      BY <3>4, <3>5
    <3>7. Max(K) \in 0..m
      BY <1>1, <3>3
    <3>8. QED
      BY <3>6, <3>7
  <2>3. QED
    BY <2>1, <2>2
<1>5. PICK c \in 0..m : K = 1..c
  BY <1>4
<1>6. c = n
  <2> DEFINE g == [k \in K |-> all[k]]
  <2>1. g \in [K -> old]
    OBVIOUS
  <2>2. \A i, j \in K : g[i] = g[j] => i = j
    <3> SUFFICES ASSUME NEW i \in K, NEW j \in K, all[i] = all[j], i # j PROVE FALSE
      OBVIOUS
    <3>1. i \in 1..m /\ j \in 1..m /\ (i < j \/ j < i)
      BY <1>1
    <3>2. QED
      BY <1>1, <3>1
  <2>3. \A r \in old : \E k \in K : g[k] = r
    BY <1>1
  <2> HIDE DEF g, K
  <2>4. g \in Bijection(K, old)
    BY <2>1, <2>2, <2>3, Fun_IsBij
  <2>5. ExistsBijection(1..c, old)
    BY <1>5, <2>4, Fun_ExistsBij
  <2>6. QED
    BY <1>1, <2>5, FS_CountingElements DEF n
<1>7. prefix \in OldestFirst(old, n)
  <2>1. \A k \in 1..n : k \in 1..m /\ all[k] \in old
    BY <1>1, <1>2, <1>5, <1>6
  <2>2. prefix \in [1..n -> old]
    BY <2>1
  <2>3. \A r \in old : r \in Range(prefix)
    <3> SUFFICES ASSUME NEW r \in old PROVE r \in Range(prefix)
      OBVIOUS
    <3>1. PICK k \in 1..m : all[k] = r
      BY <1>1
    <3>2. k \in 1..n
      BY <1>5, <1>6, <3>1
    <3>3. prefix[k] = r /\ k \in DOMAIN prefix
      BY <3>1, <3>2
    <3> HIDE DEF prefix
    <3>4. QED
      BY <3>3 DEF Range
  <2>4. \A i, j \in 1..n : i < j => prefix[i] # prefix[j] /\ OccurredAt[prefix[i]] <= OccurredAt[prefix[j]]
    BY <1>1, <2>1
  <2> HIDE DEF prefix
  <2>5. QED
    BY <2>2, <2>3, <2>4 DEF OldestFirst
<1>8. QED
  BY <1>2, <1>7 DEF n, m

------------------------------------------------------------------------------
\* What the ingestions wrote, or are about to, is what one pass over everything
\* gives, as long as nothing disturbed the order.
OnePass(a, reports) ==
  \A all \in OldestFirst(reports, Cardinality(reports)) : a \in ToSet(ClusterBatch(all))

ClustersAgree ==
  ~disturbed =>
    /\ Distinct(stored)
    /\ StoriesTogether
    /\ \A i \in ingestions : \A a \in i.todo : OnePass(a, stored)

\* The rows of a pass.
LEMMA BatchRows ==
  ASSUME NEW S \in SUBSET Report, NEW all \in OldestFirst(S, Cardinality(S))
  PROVE  /\ \A a \in ToSet(ClusterBatch(all)) : a.report \in S
         /\ \A a, b \in ToSet(ClusterBatch(all)) : a.report = b.report => a = b
<1> DEFINE n == Cardinality(S)
           rows == ClusterBatch(all)
<1>1. n \in Nat /\ all \in Seq(S) /\ Len(all) = n /\ Lists(all, S, n)
  BY ListsAll
<1>2. rows \in Seq(Placements(S)) /\ Len(rows) = n /\ \A k \in 1..n : rows[k].report = all[k]
  BY <1>1, BatchPlaces
<1>3. DOMAIN rows = 1..n
  BY <1>2, LenProperties
<1> HIDE DEF n, rows
<1>4. \A a \in ToSet(rows) : \E k \in 1..n : a = rows[k] /\ a.report = all[k]
  BY <1>2, <1>3 DEF ToSet
<1>5. \A i, j \in 1..n : all[i] = all[j] => i = j
  <2> SUFFICES ASSUME NEW i \in 1..n, NEW j \in 1..n, all[i] = all[j], i # j PROVE FALSE
    OBVIOUS
  <2>1. i < j \/ j < i
    BY <1>1
  <2>2. QED
    BY <1>1, <2>1 DEF Lists
<1>6. \A k \in 1..n : all[k] \in S
  BY <1>1 DEF Lists
<1>7. QED
  BY <1>4, <1>5, <1>6 DEF rows

\* Rows of the old reports are the same in a pass over more, if those come later.
LEMMA OldRowsStay ==
  ASSUME NEW old \in SUBSET Report, NEW S \in SUBSET Report, old \subseteq S,
         \A q \in old, r \in S \ old : OccurredAt[q] < OccurredAt[r],
         NEW all \in OldestFirst(S, Cardinality(S))
  PROVE  \E prefix \in OldestFirst(old, Cardinality(old)) :
           /\ ToSet(ClusterBatch(prefix)) \subseteq ToSet(ClusterBatch(all))
           /\ \A a \in ToSet(ClusterBatch(all)) : a.report \in old => a \in ToSet(ClusterBatch(prefix))
<1> DEFINE n == Cardinality(old)
           m == Cardinality(S)
           prefix == [k \in 1..n |-> all[k]]
<1>1. n \in Nat /\ n <= m /\ prefix \in OldestFirst(old, n)
  BY OldOnesFirst
<1>2. m \in Nat /\ all \in Seq(S) /\ Len(all) = m /\ Lists(all, S, m)
  BY ListsAll
<1> HIDE DEF m, prefix
<1>3. prefix \in Seq(old) /\ Len(prefix) = n /\ Lists(prefix, old, n)
  BY <1>1, ListsAll
<1> HIDE DEF n
<1>4. prefix \in Seq(S)
  BY <1>3, SeqDef
<1>5. \A k \in 1..n : prefix[k] = all[k]
  BY DEF prefix
<1>6. \A k \in 1..n : ClusterBatch(prefix)[k] = ClusterBatch(all)[k]
  BY <1>1, <1>2, <1>3, <1>4, <1>5, BatchExtends
<1>7. DOMAIN ClusterBatch(prefix) = 1..n /\ DOMAIN ClusterBatch(all) = 1..m
  <2>1. /\ ClusterBatch(prefix) \in Seq(Placements(S)) /\ Len(ClusterBatch(prefix)) = n
        /\ ClusterBatch(all) \in Seq(Placements(S)) /\ Len(ClusterBatch(all)) = m
    BY <1>2, <1>3, <1>4, BatchPlaces
  <2>2. QED
    BY <2>1, LenProperties
<1>8. ToSet(ClusterBatch(prefix)) \subseteq ToSet(ClusterBatch(all))
  BY <1>1, <1>2, <1>6, <1>7 DEF ToSet
<1>9. ASSUME NEW a \in ToSet(ClusterBatch(all)), a.report \in old PROVE a \in ToSet(ClusterBatch(prefix))
  <2>1. PICK k \in 1..n : prefix[k] = a.report
    BY <1>3, <1>9 DEF Lists
  <2>2. k \in 1..m /\ all[k] = a.report
    BY <1>1, <1>2, <1>5, <2>1
  <2>3. ClusterBatch(all)[k] \in ToSet(ClusterBatch(all)) /\ ClusterBatch(all)[k].report = all[k]
    <3>1. ClusterBatch(all)[k].report = all[k]
      BY <1>2, <2>2, BatchPlaces
    <3>2. QED
      BY <1>7, <2>2, <3>1 DEF ToSet
  <2>4. a = ClusterBatch(all)[k]
    BY <1>9, <2>2, <2>3, BatchRows DEF m
  <2>5. QED
    BY <1>6, <1>7, <2>1, <2>4 DEF ToSet
<1>10. QED
  BY <1>1, <1>8, <1>9 DEF n

LEMMA AgreeInit == ClusterInit => ClustersAgree
<1> SUFFICES ASSUME ClusterInit PROVE Distinct(stored) /\ StoriesTogether /\ \A i \in ingestions : FALSE
  BY DEF ClustersAgree
<1>1. stored = {} /\ ingestions = {} /\ \A r \in Report : cluster[r] = Null
  BY DEF ClusterInit
<1>2. \A all \in OldestFirst(stored, Cardinality(stored)) : \A b \in ToSet(ClusterBatch(all)) : b.report \in stored
  BY <1>1, BatchRows
<1>3. QED
  BY <1>1, <1>2 DEF Distinct, StoriesTogether

LEMMA AgreeIngest ==
  ASSUME ClusterInv, ClustersAgree, NEW new \in SUBSET Report, Ingest(new), ~disturbed'
  PROVE  Distinct(stored') /\ StoriesTogether' /\ \A i \in ingestions' : \A a \in i.todo : OnePass(a, stored')
<1>1. /\ stored' = stored \union new /\ cluster' = cluster /\ stored \in SUBSET Report
      /\ ingestions' = ingestions \union {[new |-> new, stage |-> "created", todo |-> {}]}
      /\ ~disturbed
      /\ \A r \in new, q \in stored \union new :
           q # r => OccurredAt[r] # OccurredAt[q] /\ (q \in stored => ~(OccurredAt[r] < OccurredAt[q]))
      /\ new \intersect stored = {}
  BY DEF Ingest, ClusterInv, ClusterTypeOK
<1>2. Distinct(stored) /\ StoriesTogether /\ \A i \in ingestions : \A a \in i.todo : OnePass(a, stored)
  BY <1>1 DEF ClustersAgree
<1>3. stored' \in SUBSET Report /\ stored \subseteq stored'
  BY <1>1
<1>4. \A q \in stored, r \in stored' \ stored : OccurredAt[q] < OccurredAt[r]
  <2> SUFFICES ASSUME NEW q \in stored, NEW r \in new, q # r PROVE OccurredAt[q] < OccurredAt[r]
    BY <1>1
  <2>1. OccurredAt[q] \in Nat /\ OccurredAt[r] \in Nat
    BY <1>1, ClusterAssumption DEF ClusterAssumption
  <2>2. OccurredAt[r] # OccurredAt[q] /\ ~(OccurredAt[r] < OccurredAt[q])
    BY <1>1
  <2>3. QED
    BY <2>1, <2>2
<1>5. Distinct(stored')
  BY <1>1, <1>2 DEF Distinct
<1>6. ASSUME NEW all \in OldestFirst(stored', Cardinality(stored'))
      PROVE  \E prefix \in OldestFirst(stored, Cardinality(stored)) :
               /\ ToSet(ClusterBatch(prefix)) \subseteq ToSet(ClusterBatch(all))
               /\ \A a \in ToSet(ClusterBatch(all)) : a.report \in stored => a \in ToSet(ClusterBatch(prefix))
  BY <1>1, <1>3, <1>4, OldRowsStay
<1>7. StoriesTogether'
  <2> SUFFICES ASSUME NEW all \in OldestFirst(stored', Cardinality(stored')), NEW a \in ToSet(ClusterBatch(all))
               PROVE  cluster'[a.report] \in {Null, a.cluster}
    BY DEF StoriesTogether
  <2>1. a.report \in Report
    BY <1>3, BatchRows
  <2>2. CASE a.report \in stored
    <3>1. PICK prefix \in OldestFirst(stored, Cardinality(stored)) : a \in ToSet(ClusterBatch(prefix))
      BY <1>6, <2>2
    <3>2. QED
      BY <1>1, <1>2, <3>1 DEF StoriesTogether
  <2>3. CASE a.report \notin stored
    BY <1>1, <2>1, <2>3 DEF ClusterInv, ClustersSeeded
  <2>4. QED
    BY <2>2, <2>3
<1>8. ASSUME NEW i \in ingestions', NEW a \in i.todo PROVE OnePass(a, stored')
  <2>1. OnePass(a, stored)
    BY <1>1, <1>2
  <2>2. QED
    BY <1>6, <2>1 DEF OnePass
<1>9. QED
  BY <1>5, <1>7, <1>8

\* When nothing stored was left out, the candidates are the list of everything.
LEMMA CandidatesList ==
  ASSUME ClusterTypeOK, NEW candidates \in Candidates, ToSet(candidates) = stored
  PROVE  candidates \in OldestFirst(stored, Cardinality(stored))
<1> DEFINE recent == {r \in stored : OccurredAt[r] >= hour - WindowHours}
           count == IF Cardinality(recent) <= CandidateCap THEN Cardinality(recent) ELSE CandidateCap
<1>1. candidates \in OldestFirst(recent, count)
  BY DEF Candidates
<1>2. count \in Nat
  <2>1. IsFiniteSet(recent) /\ CandidateCap \in Nat
    BY ClusterAssumption, FS_Subset DEF ClusterAssumption, ClusterTypeOK
  <2> HIDE DEF recent
  <2>2. QED
    BY <2>1, FS_CardinalityType
<1>3. recent \subseteq stored
  OBVIOUS
<1> HIDE DEF recent, count
<1>4. /\ candidates \in [1..count -> recent]
      /\ \A i, j \in 1..count : i < j => candidates[i] # candidates[j]
  BY <1>1 DEF OldestFirst
<1>5. \A r \in stored : \E k \in 1..count : candidates[k] = r
  BY <1>4 DEF ToSet
<1>6. recent = stored
  <2>1. stored \subseteq recent
    BY <1>4, <1>5
  <2>2. QED
    BY <1>3, <2>1
<1>7. \A i, j \in 1..count : candidates[i] = candidates[j] => i = j
  <2> SUFFICES ASSUME NEW i \in 1..count, NEW j \in 1..count, candidates[i] = candidates[j], i # j PROVE FALSE
    OBVIOUS
  <2>1. i < j \/ j < i
    BY <1>2
  <2>2. QED
    BY <1>4, <2>1
<1>8. candidates \in Bijection(1..count, stored)
  BY <1>4, <1>5, <1>6, <1>7, Fun_IsBij
<1>9. Cardinality(stored) = count
  BY <1>2, <1>8, Fun_ExistsBij, FS_CountingElements
<1>10. QED
  BY <1>1, <1>6, <1>9

LEMMA AgreeCluster ==
  ASSUME ClusterInv, ClustersAgree, NEW i \in ingestions, NEW candidates \in Candidates,
         ClusterNewEvents(i, candidates), ~disturbed'
  PROVE  Distinct(stored') /\ StoriesTogether' /\ \A j \in ingestions' : \A a \in j.todo : OnePass(a, stored')
<1> DEFINE todo == {a \in ToSet(ClusterBatch(candidates)) : a.report \in i.new /\ a.cluster # cluster[a.report]}
<1>1. /\ stored' = stored /\ cluster' = cluster /\ ~disturbed /\ ToSet(candidates) = stored
      /\ ingestions' = (ingestions \ {i}) \union
                         (IF todo = {} THEN {} ELSE {[i EXCEPT !.stage = "writing", !.todo = todo]})
  BY DEF ClusterNewEvents
<1>2. Distinct(stored) /\ StoriesTogether /\ \A j \in ingestions : \A a \in j.todo : OnePass(a, stored)
  BY <1>1 DEF ClustersAgree
<1>3. StoriesTogether'
  BY <1>1, <1>2 DEF StoriesTogether
<1>4. \A all \in OldestFirst(stored, Cardinality(stored)) : all = candidates
  BY <1>1, <1>2, CandidatesList, ListsOne DEF ClusterInv, ClusterTypeOK
<1>5. \A a \in todo : OnePass(a, stored)
  BY <1>4 DEF OnePass
<1> HIDE DEF todo
<1>6. [i EXCEPT !.stage = "writing", !.todo = todo].todo = todo
  BY DEF Ingestion, ClusterInv, ClusterTypeOK
<1>7. \A j \in ingestions' : j \in ingestions \/ j.todo = todo
  BY <1>1, <1>6
<1>8. QED
  BY <1>1, <1>2, <1>3, <1>5, <1>7

LEMMA AgreeSet ==
  ASSUME ClusterInv, ClustersAgree, NEW i \in ingestions, NEW a \in i.todo, SetClusterId(i, a), ~disturbed'
  PROVE  Distinct(stored') /\ StoriesTogether' /\ \A j \in ingestions' : \A b \in j.todo : OnePass(b, stored')
<1>1. /\ stored' = stored /\ cluster' = [cluster EXCEPT ![a.report] = a.cluster] /\ ~disturbed
      /\ ingestions' = (ingestions \ {i}) \union (IF i.todo = {a} THEN {} ELSE {[i EXCEPT !.todo = @ \ {a}]})
  BY DEF SetClusterId
<1>2. Distinct(stored) /\ StoriesTogether /\ \A j \in ingestions : \A b \in j.todo : OnePass(b, stored)
  BY <1>1 DEF ClustersAgree
<1>3. [i EXCEPT !.todo = @ \ {a}].todo \subseteq i.todo
  BY DEF Ingestion, ClusterInv, ClusterTypeOK
<1>4. \A j \in ingestions' : j \in ingestions \/ j.todo \subseteq i.todo
  BY <1>1, <1>3
<1>5. \A j \in ingestions' : \A b \in j.todo : OnePass(b, stored)
  BY <1>2, <1>4
<1>6. StoriesTogether'
  <2> SUFFICES ASSUME NEW all \in OldestFirst(stored, Cardinality(stored)), NEW b \in ToSet(ClusterBatch(all))
               PROVE  cluster'[b.report] \in {Null, b.cluster}
    BY <1>1 DEF StoriesTogether
  <2>1. a \in ToSet(ClusterBatch(all))
    BY <1>2 DEF OnePass
  <2>2. b.report \in Report /\ (a.report = b.report => a = b)
    BY <2>1, BatchRows DEF ClusterInv, ClusterTypeOK
  <2>3. cluster'[b.report] = IF b.report = a.report THEN a.cluster ELSE cluster[b.report]
    BY <1>1, <2>2 DEF ClusterInv, ClusterTypeOK
  <2>4. cluster[b.report] \in {Null, b.cluster}
    BY <1>1, <1>2 DEF StoriesTogether
  <2>5. QED
    BY <2>2, <2>3, <2>4
<1>7. QED
  BY <1>1, <1>2, <1>5, <1>6

LEMMA AgreeStepHolds == ClusterInv /\ ClustersAgree /\ [ClusterNext]_clusterVars => ClustersAgree'
<1> SUFFICES ASSUME ClusterInv, ClustersAgree, [ClusterNext]_clusterVars, ~disturbed'
             PROVE  Distinct(stored') /\ StoriesTogether' /\ \A i \in ingestions' : \A a \in i.todo : OnePass(a, stored')
  BY DEF ClustersAgree
<1>1. ASSUME ~disturbed, stored' = stored, cluster' = cluster, ingestions' \subseteq ingestions
      PROVE  Distinct(stored') /\ StoriesTogether' /\ \A i \in ingestions' : \A a \in i.todo : OnePass(a, stored')
  <2>1. Distinct(stored) /\ StoriesTogether /\ \A i \in ingestions : \A a \in i.todo : OnePass(a, stored)
    BY <1>1 DEF ClustersAgree
  <2>2. StoriesTogether'
    BY <1>1, <2>1 DEF StoriesTogether
  <2>3. QED
    BY <1>1, <2>1, <2>2
<1>2. ASSUME NEW i \in ingestions, Abandon(i) PROVE ~disturbed /\ stored' = stored /\ cluster' = cluster /\ ingestions' \subseteq ingestions
  BY <1>2 DEF Abandon
<1>3. CASE HourPasses
  BY <1>1, <1>3 DEF HourPasses
<1>4. CASE UNCHANGED clusterVars
  BY <1>1, <1>4 DEF clusterVars
<1>5. QED
  BY <1>1, <1>2, <1>3, <1>4, AgreeIngest, AgreeCluster, AgreeSet DEF ClusterNext

\* dedupe.ts, clusterBatch: while nothing comes late and everything stored is a
\* candidate, all that any number of ingestions wrote, each from what it saw, is
\* what one pass over everything stored gives: the passes agree on their prefixes.
THEOREM StoriesStayTogether == ClusterSpec => []StoriesTogether
<1>1. ClusterInit => ClusterInv /\ ClustersAgree
  BY ClusterInitHolds, AgreeInit
<1>2. ClusterInv /\ ClustersAgree /\ [ClusterNext]_clusterVars => (ClusterInv /\ ClustersAgree)'
  BY ClusterStepHolds, AgreeStepHolds
<1>3. ClustersAgree => StoriesTogether
  BY DEF ClustersAgree, StoriesTogether
<1>4. QED
  BY <1>1, <1>2, <1>3, PTL DEF ClusterSpec

\* dedupe.ts, findCluster: two stories that no link connects never come to share
\* a cluster, whatever comes late, is lost as a candidate or is ingested beside.
THEOREM StoriesStayApart == ClusterSpec => []StoriesApart
<1>1. QED
  BY ClusterInitHolds, ClusterStepHolds, SeededApart, PTL DEF ClusterSpec
==============================================================================
