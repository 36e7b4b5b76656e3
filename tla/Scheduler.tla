----------------------------- MODULE Scheduler ------------------------------
(***************************************************************************)
(* The collector scheduler, as one connector sees it: start, the #tick     *)
(* that reschedules itself, runNow and stop.  Connectors share nothing but *)
(* start and stop, so one connector is the whole story.                    *)
(*                                                                         *)
(* JavaScript runs to the next await without interruption, so each action  *)
(* is one await-to-await segment.  Timers are identities, not deadlines:   *)
(* an armed timer may fire at any moment, which covers every cadence and   *)
(* every jitter.  "delay" remembers the last delay asked for, in minutes,  *)
(* for each cadence a connector may declare: nothing else depends on it.   *)
(* What a run reads and writes in the database is in Collection.           *)
(*                                                                         *)
(* stop also aborts the run's signal; that only makes collect likelier to  *)
(* fail, which it may do here at any time.                                 *)
(***************************************************************************)
EXTENDS Integers, FiniteSets

CONSTANTS
  Ticks,            \* invocations of #tick that can be past their first checks
  Timers,           \* bound: identities for setTimeout handles
  NoTimer,          \* state.timer = null
  Override,         \* the per-domain INTERVAL_*_MS setting
  Cadences,         \* what descriptor.defaultIntervalMs may be
  BackoffCap,       \* 600_000 ms
  MaxRunNows        \* bound: how many runNow calls may get past its check

ASSUME SchedulerAssumption ==
  /\ IsFiniteSet(Ticks) /\ IsFiniteSet(Timers)
  /\ NoTimer \notin Timers
  /\ Override \in Nat \ {0} /\ Cadences \subseteq Nat \ {0}
  /\ BackoffCap \in Nat \ {0}
  /\ MaxRunNows \in Nat

VARIABLES
  boot,       \* "new" -> "starting" -> "started": the phase of start()
  stopped,    \* #stopped
  listed,     \* the connector is in #states
  armed,      \* timers set and neither fired nor cleared
  handle,     \* state.timer, which may name a timer that has fired
  running,    \* state.running
  failures,   \* state.consecutiveFailures, which saturates at MaxExponent
  pc,         \* pc[k]: the await invocation k stands at
  delay,      \* ghost: the last delay given to setTimeout by #reschedule, by cadence
  runNows     \* ghost: the runNow calls that got past its check

vars == <<boot, stopped, listed, armed, handle, running, failures, pc, delay, runNows>>

\* Math.min(consecutiveFailures, 6): more failures change nothing.
MaxExponent == 6

(***************************************************************************)
(* "read" awaits the coin list and the high-water mark, "collect" the      *)
(* connector, "ingest" the ingestion service, "mark" setState, "record"    *)
(* the telemetry in the finally block, after running was cleared.          *)
(***************************************************************************)
InTry == {"read", "collect", "ingest", "mark"}
PCs == {"idle", "record"} \cup InTry

Larger(a, b) == IF a >= b THEN a ELSE b
Lesser(a, b) == IF a <= b THEN a ELSE b

\* Mutant of Interval: the setting overrides the declared cadence.
IntervalFromSetting(i) == Override

\* #intervalFor a connector that declares i.
Interval(i) == Larger(Override, i)

NextDelay(i, f) ==
  IF f = 0 THEN Interval(i) ELSE Lesser(Interval(i) * 2^f, BackoffCap)

Collecting == {k \in Ticks : pc[k] \in InTry}
Alive == {k \in Ticks : pc[k] # "idle"}

Init ==
  /\ boot = "new"
  /\ stopped = FALSE
  /\ listed = FALSE
  /\ armed = {}
  /\ handle = NoTimer
  /\ running = FALSE
  /\ failures = 0
  /\ pc = [k \in Ticks |-> "idle"]
  /\ delay = [i \in Cadences |-> 0]
  /\ runNows = 0

\* start() registers the Source rows first, which awaits the database.
Start ==
  /\ boot = "new"
  /\ boot' = "starting"
  /\ UNCHANGED <<stopped, listed, armed, handle, running, failures, pc, delay,
                 runNows>>

\* setTimeout into state.timer, from a set of timers that are still armed.
Arm(others) ==
  \E t \in Timers \ (others \cup {handle}) :
    /\ armed' = others \cup {t}
    /\ handle' = t

\* ... then lists the connector and arms its first, staggered, timer.
FinishStart ==
  /\ boot = "starting"
  /\ boot' = "started"
  /\ listed' = TRUE
  /\ Arm(armed)
  /\ UNCHANGED <<stopped, running, failures, pc, delay, runNows>>

\* #reschedule, when the timers in others are still armed.
Reschedule(others) ==
  IF stopped
  THEN /\ armed' = others
       /\ UNCHANGED <<handle, delay>>
  ELSE /\ Arm(others)
       /\ delay' = [i \in Cadences |-> NextDelay(i, failures)]

(***************************************************************************)
(* The synchronous head of #tick: drop out when stopped, skip when a run   *)
(* is in flight, or else take the running flag and begin.                  *)
(***************************************************************************)
\* Mutants of EnterTick: no overlap check; the next timer is armed when the
\* run begins, and again when it ends.
EnterTickOverlapping(k, others) ==
  IF stopped
  THEN armed' = others /\ UNCHANGED <<handle, delay, running, pc>>
  ELSE /\ pc[k] = "idle"
       /\ running' = TRUE
       /\ pc' = [pc EXCEPT ![k] = "read"]
       /\ armed' = others
       /\ UNCHANGED <<handle, delay>>

EnterTickRearming(k, others) ==
  IF stopped
  THEN armed' = others /\ UNCHANGED <<handle, delay, running, pc>>
  ELSE /\ Reschedule(others)
       /\ \/ running /\ UNCHANGED <<running, pc>>
          \/ /\ ~running /\ pc[k] = "idle"
             /\ running' = TRUE
             /\ pc' = [pc EXCEPT ![k] = "read"]

EnterTick(k, others) ==
  \/ /\ stopped
     /\ armed' = others
     /\ UNCHANGED <<handle, delay, running, pc>>
  \/ /\ ~stopped /\ running
     /\ Reschedule(others)
     /\ UNCHANGED <<running, pc>>
  \/ /\ ~stopped /\ ~running
     /\ pc[k] = "idle"
     /\ running' = TRUE
     /\ pc' = [pc EXCEPT ![k] = "read"]
     /\ armed' = others
     /\ UNCHANGED <<handle, delay>>

\* Mutant of TimerFires: setInterval where setTimeout is meant.
TimerFiresAgain(t, k) ==
  /\ t \in armed
  /\ EnterTick(k, armed)
  /\ UNCHANGED <<boot, stopped, listed, failures, runNows>>

TimerFires(t, k) ==
  /\ t \in armed
  /\ EnterTick(k, armed \ {t})
  /\ UNCHANGED <<boot, stopped, listed, failures, runNows>>

\* clearTimeout of state.timer, then a tick in the caller's turn.
RunNow(k) ==
  /\ runNows < MaxRunNows
  /\ runNows' = runNows + 1
  /\ listed /\ ~running
  /\ EnterTick(k, armed \ {handle})
  /\ UNCHANGED <<boot, stopped, listed, failures>>

\* One successful await inside the try block.  The failure count is reset
\* after ingest returns and before setState is awaited.
Advance(k) ==
  /\ \/ pc[k] = "read" /\ pc' = [pc EXCEPT ![k] = "collect"] /\ UNCHANGED failures
     \/ pc[k] = "collect" /\ pc' = [pc EXCEPT ![k] = "ingest"] /\ UNCHANGED failures
     \/ pc[k] = "ingest" /\ pc' = [pc EXCEPT ![k] = "mark"] /\ failures' = 0
  /\ UNCHANGED <<boot, stopped, listed, armed, handle, running, delay, runNows>>

\* The finally block up to its first await.
LeaveTry(k) ==
  /\ pc' = [pc EXCEPT ![k] = "record"]
  /\ running' = FALSE
  /\ UNCHANGED <<boot, stopped, listed, armed, handle, delay, runNows>>

MarkStored(k) ==
  /\ pc[k] = "mark"
  /\ LeaveTry(k)
  /\ UNCHANGED failures

\* collect answered Err, or any of the awaits threw.
RunFails(k) ==
  /\ pc[k] \in InTry
  /\ LeaveTry(k)
  /\ failures' = Lesser(failures + 1, MaxExponent)

\* Mutant of Recorded: a failed connector is not rescheduled.
RecordedUnlessFailed(k) ==
  /\ pc[k] = "record"
  /\ pc' = [pc EXCEPT ![k] = "idle"]
  /\ \/ failures = 0 /\ Reschedule(armed)
     \/ failures > 0 /\ UNCHANGED <<armed, handle, delay>>
  /\ UNCHANGED <<boot, stopped, listed, running, failures, runNows>>

\* recordRun and publish are over, or failed and were logged.
Recorded(k) ==
  /\ pc[k] = "record"
  /\ pc' = [pc EXCEPT ![k] = "idle"]
  /\ Reschedule(armed)
  /\ UNCHANGED <<boot, stopped, listed, running, failures, runNows>>

\* stop() clears the timer it knows of.  main registers the signal handlers
\* that call it only once start() has returned.
Stop ==
  /\ boot = "started"
  /\ ~stopped
  /\ stopped' = TRUE
  /\ armed' = armed \ {handle}
  /\ listed' = FALSE
  /\ UNCHANGED <<boot, handle, running, failures, pc, delay, runNows>>

Next ==
  \/ Start \/ FinishStart \/ Stop
  \/ \E t \in Timers, k \in Ticks : TimerFires(t, k)
  \/ \E k \in Ticks : RunNow(k) \/ Advance(k) \/ MarkStored(k) \/ RunFails(k) \/ Recorded(k)

Spec == Init /\ [][Next]_vars

(***************************************************************************)
(* Fairness: start goes through, an armed timer fires, and an await inside *)
(* a run is answered.  Nobody has to call runNow or stop.                  *)
(***************************************************************************)
Fairness ==
  /\ WF_vars(Start) /\ WF_vars(FinishStart)
  /\ \A t \in Timers : WF_vars(\E k \in Ticks : TimerFires(t, k))
  /\ \A k \in Ticks : WF_vars(Advance(k) \/ MarkStored(k) \/ RunFails(k) \/ Recorded(k))

FairSpec == Spec /\ Fairness
-----------------------------------------------------------------------------
TypeOK ==
  /\ boot \in {"new", "starting", "started"}
  /\ stopped \in BOOLEAN /\ listed \in BOOLEAN /\ running \in BOOLEAN
  /\ armed \in SUBSET Timers
  /\ handle \in Timers \cup {NoTimer}
  /\ failures \in 0..MaxExponent
  /\ pc \in [Ticks -> PCs]
  /\ delay \in [Cadences -> Nat]
  /\ runNows \in Nat

(***************************************************************************)
(* Overlap prevention: whatever mix of timers, skipped ticks and runNow    *)
(* calls there is, at most one run of a connector is between its first     *)
(* read and its last write, and running says exactly whether one is.       *)
(***************************************************************************)
NoOverlap ==
  /\ \A j, k \in Collecting : j = k
  /\ running <=> Collecting # {}

(***************************************************************************)
(* The connector is never forgotten: once started and not stopped, a timer *)
(* is armed or a run that will arm one is under way, whatever failed.      *)
(***************************************************************************)
NeverForgotten == boot = "started" /\ ~stopped => armed # {} \/ Alive # {}

(***************************************************************************)
(* The scheduler implements Polling: whatever mix of timers, skipped ticks,*)
(* runNow calls, failures and a stop there is, a connector's runs follow   *)
(* one another, none before start has listed it and none after stop.       *)
(***************************************************************************)
Phase ==
  CASE stopped -> "halted"
    [] ~stopped /\ boot = "started" -> "open"
    [] OTHER -> "closed"

Contract == INSTANCE Polling WITH Run <- Ticks, phase <- Phase, active <- Collecting

ImplementsPolling == Contract!Spec

\* scheduler.ts #intervalFor, #reschedule: no setting makes a connector poll more
\* often than it declares it may be polled, and no outage stretches its polls
\* beyond the ten minutes of "is still polled"; only where it declares more than
\* those ten minutes do failures bring it below its declaration, to exactly them.
CadenceFloor ==
  [][\A i \in Cadences :
       delay'[i] # delay[i] =>
         /\ delay'[i] >= IF failures = 0 THEN i ELSE Lesser(i, BackoffCap)
         /\ failures > 0 => delay'[i] <= BackoffCap]_vars

(***************************************************************************)
(* One chain of timer, run, timer, run.  Only a runNow adds another: while *)
(* the last run awaits its telemetry, running is clear and state.timer has *)
(* fired, so runNow clears nothing and the run it starts arms a timer      *)
(* besides the one the last run will arm.  No skipped tick, failure or     *)
(* stop forks the chain, and a runNow forks it at most once.               *)
(***************************************************************************)
ChainsBounded == Cardinality(armed) + Cardinality(Alive) <= 1 + runNows

\* A connector that is not stopped is polled again and again, outages included.
PollsForever == [](boot = "started" /\ []~stopped => []<>(Collecting # {}) /\ []<>(Collecting = {}))

\* After stop everything winds down for good: leaked timers and late runs too.
StopQuiesces == stopped ~> [](armed = {} /\ Alive = {})
=============================================================================
