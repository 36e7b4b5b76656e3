------------------------------- MODULE Worker -------------------------------
(* The life of the worker process (worker/src/main.ts) around its container   *)
(* and its scheduler, of which it sees what Polling says: boot, the loops,    *)
(* and the shutdown, which waits for none of the work that is under way.      *)
EXTENDS Container

CONSTANTS
  Run,         \* a collector's runs, for Polling
  Roots,       \* what main resolves, in its order
  Jobs,        \* the intervals and crons
  MaxFlights   \* bound: runs of one job under way at once

ASSUME WorkerAssumption == MaxFlights \in Nat

VARIABLES
  process,     \* "up", "exited" (0), "failed" (1) or "killed"
  stage,       \* of main: "build" -> "probe" -> "start" -> "running"
  enricher,    \* "none" until the probe, then "model" or "lexicon" for good
  phase,       \* of the scheduler, and its runs, as in Polling
  active,
  timers,      \* the jobs whose interval or cron is set
  flights,     \* how many runs of a job are under way
  enrichment,  \* the loop: "off", "pass", "rest" or "ended"
  stopping,    \* "no" -> "stopped" -> "disposing" -> "disconnected", or "stuck"
  connected    \* the database

processVars == <<process, stage, enricher, phase, active, timers, flights, enrichment, stopping, connected>>
workerVars == <<containerVars, processVars>>
loopVars == <<phase, active, timers, flights, enrichment>>

Collector == INSTANCE Polling

WorkerTypeOK ==
  /\ process \in {"up", "exited", "failed", "killed"} /\ stage \in {"build", "probe", "start", "running"}
  /\ enricher \in {"none", "model", "lexicon"} /\ timers \subseteq Jobs /\ flights \in [Jobs -> 0..MaxFlights]
  /\ enrichment \in {"off", "pass", "rest", "ended"} /\ connected \in BOOLEAN
  /\ stopping \in {"no", "stopped", "disposing", "disconnected", "stuck"}

WorkerInit ==
  /\ ContainerInit /\ Collector!Init
  /\ process = "up" /\ stage = "build" /\ enricher = "none" /\ timers = {} /\ flights = [j \in Jobs |-> 0]
  /\ enrichment = "off" /\ stopping = "no" /\ connected = TRUE

\* main resolves one root after the other; env, logger and the like are values.
Wanted == SelectInSeq(Roots, LAMBDA t : t \notin built)
Build ==
  /\ stage = "build"
  /\ \/ Construct
     \/ \E t \in Token : (resolving = <<>> => Wanted # 0 /\ t = Roots[Wanted]) /\ (Find(t) \/ Enter(t))
  /\ UNCHANGED processVars
BuildDone ==
  /\ stage = "build" /\ resolving = <<>> /\ Wanted = 0 /\ stage' = "probe"
  /\ UNCHANGED <<containerVars, process, enricher, loopVars, stopping, connected>>

\* llm.isAvailable, asked once; without a model there is nothing to ask.
Probe(answers) ==
  /\ stage = "probe" /\ stage' = "start" /\ enricher' = IF answers THEN "model" ELSE "lexicon"
  /\ UNCHANGED <<containerVars, process, loopVars, stopping, connected>>

\* scheduler.start is awaited; the rest of main follows at once: the enrichment
\* loop's first pass, intervals, crons and the signal handlers.
StartLoops(ingestionEnabled) ==
  /\ stage = "start" /\ stage' = "running"
  /\ IF ingestionEnabled THEN Collector!Open ELSE UNCHANGED <<phase, active>>
  /\ timers' = Jobs /\ enrichment' = "pass"
  /\ UNCHANGED <<containerVars, process, enricher, flights, stopping, connected>>

\* main rejects: a bad configuration, a factory that throws, or a database that
\* cannot be reached when scheduler.start registers the sources.
BootFails ==
  /\ stage \in {"build", "start"} /\ process' = "failed"
  /\ UNCHANGED <<containerVars, stage, enricher, loopVars, stopping, connected>>

\* An interval or a cron fires.  Its callback starts the run and returns, so
\* neither setInterval nor croner's `protect` sees one that is under way.
Fires(j) ==
  /\ j \in timers /\ flights[j] < MaxFlights /\ flights' = [flights EXCEPT ![j] = @ + 1]
  /\ UNCHANGED <<containerVars, process, stage, enricher, phase, active, timers, enrichment, stopping, connected>>

\* It ends; what it throws is logged, by itself or as an unhandled rejection.
FlightEnds(j) ==
  /\ flights[j] > 0 /\ flights' = [flights EXCEPT ![j] = @ - 1]
  /\ UNCHANGED <<containerVars, process, stage, enricher, phase, active, timers, enrichment, stopping, connected>>

Collects ==
  /\ \E r \in Run : Collector!Begin(r) \/ Collector!End(r)
  /\ UNCHANGED <<containerVars, process, stage, enricher, timers, flights, enrichment, stopping, connected>>

\* EnrichmentWorker.start: after a pass the loop looks at the signal only if
\* there is a backlog; an abort during a pass is not heard by the rest, which
\* then lasts its whole interval.
Enrich ==
  /\ \/ enrichment = "pass" /\ enrichment' \in {"rest", IF stopping = "no" THEN "pass" ELSE "ended"}
     \/ enrichment = "rest" /\ enrichment' = IF stopping = "no" THEN "pass" ELSE "ended"
  /\ UNCHANGED <<containerVars, process, stage, enricher, phase, active, timers, flights, stopping, connected>>

\* SIGTERM or SIGINT before main has set its handlers.
Kill ==
  /\ stage # "running" /\ process' = "killed"
  /\ UNCHANGED <<containerVars, stage, enricher, loopVars, stopping, connected>>

\* Mutant of StopLoops: the intervals and crons are left to process.exit.
StopOnlyScheduler ==
  /\ stage = "running" /\ stopping = "no" /\ stopping' = "stopped"
  /\ IF phase = "open" THEN Collector!Halt ELSE UNCHANGED <<phase, active>>
  /\ enrichment' = IF enrichment = "rest" THEN "ended" ELSE enrichment
  /\ UNCHANGED <<containerVars, process, stage, enricher, timers, flights, connected>>

\* The first signal: abort, clearInterval, cron.stop and scheduler.stop, which
\* awaits nothing.  Another one changes nothing.
StopLoops ==
  /\ stage = "running" /\ stopping = "no" /\ stopping' = "stopped"
  /\ IF phase = "open" THEN Collector!Halt ELSE UNCHANGED <<phase, active>>
  /\ timers' = {} /\ enrichment' = IF enrichment = "rest" THEN "ended" ELSE enrichment
  /\ UNCHANGED <<containerVars, process, stage, enricher, flights, connected>>

DisposeAll ==
  /\ stopping = "stopped" /\ Dispose /\ stopping' = "disposing"
  /\ UNCHANGED <<process, stage, enricher, loopVars, connected>>
DisposeOne == stopping = "disposing" /\ DisposeNext /\ UNCHANGED processVars

\* db.$disconnect; a rejection is one that nobody handles, and the process,
\* which takes no second signal, stays.
Disconnect(ok) ==
  /\ stopping = "disposing" /\ disposing = <<>>
  /\ stopping' = (IF ok THEN "disconnected" ELSE "stuck") /\ connected' = ~ok
  /\ UNCHANGED <<containerVars, process, stage, enricher, loopVars>>
Exit ==
  /\ stopping = "disconnected" /\ process' = "exited"
  /\ UNCHANGED <<containerVars, stage, enricher, loopVars, stopping, connected>>

Shutdown == DisposeAll \/ DisposeOne \/ Exit \/ \E ok \in BOOLEAN : Disconnect(ok)

WorkerNext ==
  /\ process = "up"
  /\ \/ Build \/ BuildDone \/ BootFails \/ Collects \/ Enrich \/ Kill \/ StopLoops \/ Shutdown
     \/ \E b \in BOOLEAN : Probe(b) \/ StartLoops(b)
     \/ \E j \in Jobs : Fires(j) \/ FlightEnds(j)

WorkerSpec == WorkerInit /\ [][WorkerNext]_workerVars

\* Disposers and the database settle.
WorkerFairness == WF_workerVars(process = "up" /\ Shutdown)

------------------------------------------------------------------------------
\* main.ts:384 "Stop taking new work, abort in-flight HTTP, then close
\* connections": from the signal on no collector, enrichment pass, alert check,
\* report or retention run begins, whatever is under way; the database goes
\* after all that the container has a disposer for, and the process last.
StopsInOrder ==
  /\ []WorkerTypeOK
  /\ [][stopping # "no" =>
          /\ active' \subseteq active /\ (enrichment' = "pass" => enrichment = "pass")
          /\ \A j \in Jobs : flights'[j] <= flights[j]
          /\ connected' # connected => disposable \intersect built = {}
          /\ process' = "exited" => ~connected]_workerVars

\* main.ts: after the signal the process exits, unless the database does not let go.
ShutdownEnds == stopping = "stopped" ~> process = "exited" \/ stopping = "stuck"
=============================================================================
