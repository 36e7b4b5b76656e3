---------------------------- MODULE MCScheduler -----------------------------
(***************************************************************************)
(* The worker: one connector in the Scheduler, the process around it       *)
(* (Worker, to which the scheduler is what Polling says, as                *)
(* ImplementsPolling allows), and its container over many graphs, one of   *)
(* the three at a time.                                                    *)
(*                                                                         *)
(* With two runNows there are at most three chains (ChainsBounded), so     *)
(* three invocations and four timers, one of which state.timer may keep    *)
(* busy after it fired, never run out.                                     *)
(***************************************************************************)
EXTENDS Scheduler, Worker

\* What main.ts registers: the cache and the limiter need Redis.
Production == [t \in Token |-> IF t \in {"cache", "rateLimiter"} THEN {"redis"} ELSE {}]

\* ... and gives Redis and the bus a disposer, the cache and the limiter none.
Registered == {"redis", "realtime"}
MCDisposers == {Registered, Registered \union {"cache"}}

\* Every graph over two singletons and a transient, cyclic ones too; only the
\* cache's factory may ask for its own token.
Varied == {"redis", "cache", "view"}
MCGraphs ==
  {[t \in Token |-> IF t \in Varied THEN edges[t] ELSE {}] :
     edges \in {e \in [Varied -> SUBSET Varied] : \A t \in Varied \ {"cache"} : t \notin e[t]}} \union {Production}

MCRoots == <<"cache", "rateLimiter", "circuitBreaker", "realtime">>

VARIABLE exercised   \* "scheduler", "process" or "container"

allVars == <<vars, workerVars, exercised>>

SchedulerStep(A) == exercised = "scheduler" /\ A /\ UNCHANGED <<workerVars, exercised>>
ProcessStep(A) == exercised = "process" /\ A /\ UNCHANGED <<vars, exercised>>

MCInit ==
  /\ Init /\ WorkerInit
  /\ exercised \in {"scheduler", "process", "container"}
  /\ exercised = "container" \/ needs = Production
  /\ needs = Production => disposable = Registered

MCNext ==
  \/ SchedulerStep(Next) \/ ProcessStep(WorkerNext)
  \/ exercised = "container" /\ ContainerNext /\ UNCHANGED <<vars, processVars, exercised>>

\* The fairness of Scheduler, and that of Worker.
MCFairness ==
  /\ WF_allVars(SchedulerStep(Start)) /\ WF_allVars(SchedulerStep(FinishStart))
  /\ \A t \in Timers : WF_allVars(SchedulerStep(\E k \in Ticks : TimerFires(t, k)))
  /\ \A k \in Ticks : WF_allVars(SchedulerStep(Advance(k) \/ MarkStored(k) \/ RunFails(k) \/ Recorded(k)))
  /\ WF_allVars(ProcessStep(process = "up" /\ Shutdown))

MCSpec == MCInit /\ [][MCNext]_allVars /\ MCFairness

\* scheduler.ts, main.ts: StopQuiesces of a connector and ShutdownEnds of the
\* process: after the signal everything winds down.
StopEnds == StopQuiesces /\ ShutdownEnds
=============================================================================
