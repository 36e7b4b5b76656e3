----------------------------- MODULE Enrichment -----------------------------
(***************************************************************************)
(* What happens to an event row after it is inserted: the baseline score   *)
(* that the ingesting run gives it, and the enrichment loop that has it    *)
(* judged by the model, stores the verdict and evaluates alerts on it.     *)
(*                                                                         *)
(* The loop runs passes one after another.  A pass lists a batch and       *)
(* starts a pool of workers over one shared queue; Promise.all ends the    *)
(* pass when every worker has returned, or at once when one throws, and    *)
(* then the rest of the pool goes on on its own while the loop moves on.   *)
(*                                                                         *)
(* DbMayFail lets an await on the database throw.  A verdict that is not   *)
(* ok is no throw: the event just stays queued.  What alerts.process does  *)
(* is AlertEngine's business; here it completes or throws.  Sources stay   *)
(* enabled (the events of a disabled one are judged but raise no alert).   *)
(*                                                                         *)
(* Ghosts: broken holds the passes one of whose workers threw, and missed  *)
(* the events whose worker threw between the verdict and the alerts.       *)
(***************************************************************************)
EXTENDS Integers, FiniteSets

CONSTANTS
  Events,
  Poison,       \* events the model can never judge
  Rank,         \* Rank[e]: the baseline importance of e
  Passes,       \* identities for pools that are still alive
  Concurrency,  \* LLM_CONCURRENCY
  BatchSize,
  DbMayFail,
  Nothing       \* no event in hand, no pass in progress

\* A ranking under which a poison event is in every batch until it is judged.
PoisonFirst == [e \in Events |-> IF e \in Poison THEN 2 ELSE 1]

ASSUME EnrichmentAssumption ==
  /\ IsFiniteSet(Events) /\ Poison \subseteq Events
  /\ Rank \in [Events -> Nat \ {0}]
  /\ IsFiniteSet(Passes)
  /\ Concurrency \in Nat \ {0} /\ BatchSize \in Nat \ {0}
  /\ DbMayFail \in BOOLEAN
  /\ Nothing \notin Events \cup Passes

VARIABLES
  importance,  \* importance[e]: "none" (no row), "null", "base" or "verdict"
  enriched,    \* events whose enrichedAt is set
  scorer,      \* scorer[e]: where the ingesting run's #scoreUnscored stands
  current,     \* the pass the loop awaits
  listing,     \* the loop awaits the batch
  queue,       \* queue[k]: the events of pass k no worker has taken
  at, hand,    \* at[w], hand[w]: worker w's await and its event
  alerted,     \* events on which alerts.process completed
  broken, missed

enrichmentVars == <<importance, enriched, scorer, current, listing, queue, at, hand, alerted,
          broken, missed>>
ghosts == <<broken, missed>>
workerVars == <<queue, at, hand>>

Workers == Passes \X (1..Concurrency)
Pool(k) == {w \in Workers : w[1] = k}
Alive(k) == \E w \in Pool(k) : at[w] # "off"

Importances == {"none", "null", "base", "verdict"}
ScorerStates == {"off", "read", "write", "done"}
Awaits == {"off", "take", "enrich", "update", "alert"}

EnrichmentInit ==
  /\ importance = [e \in Events |-> "none"]
  /\ enriched = {}
  /\ scorer = [e \in Events |-> "off"]
  /\ current = Nothing
  /\ listing = FALSE
  /\ queue = [k \in Passes |-> {}]
  /\ at = [w \in Workers |-> "off"]
  /\ hand = [w \in Workers |-> Nothing]
  /\ alerted = {}
  /\ broken = {}
  /\ missed = {}

\* insertMany creates the row, with the connector's importance hint if there
\* is one; the run goes on to score what it created.
Insert(e) ==
  /\ importance[e] = "none"
  /\ \E hint \in {"null", "base"} : importance' = [importance EXCEPT ![e] = hint]
  /\ scorer' = [scorer EXCEPT ![e] = "read"]
  /\ UNCHANGED <<enriched, current, listing, workerVars, alerted, ghosts>>

\* #scoreUnscored: findById, and on if there is no importance yet ...
ScoreRead(e) ==
  /\ scorer[e] = "read"
  /\ scorer' = [scorer EXCEPT ![e] = IF importance[e] = "null" THEN "write" ELSE "done"]
  /\ UNCHANGED <<importance, enriched, current, listing, workerVars, alerted, ghosts>>

\* ... updateIntelligence with the baseline, whatever the row holds by now.
ScoreWrite(e) ==
  /\ scorer[e] = "write"
  /\ importance' = [importance EXCEPT ![e] = "base"]
  /\ scorer' = [scorer EXCEPT ![e] = "done"]
  /\ UNCHANGED <<enriched, current, listing, workerVars, alerted, ghosts>>

\* The ingesting run throws or dies and never scores the event.
ScoreLost(e) ==
  /\ DbMayFail
  /\ scorer[e] \in {"read", "write"}
  /\ scorer' = [scorer EXCEPT ![e] = "done"]
  /\ UNCHANGED <<importance, enriched, current, listing, workerVars, alerted, ghosts>>

\* runOnce, from the loop.
BeginPass ==
  /\ current = Nothing /\ ~listing
  /\ listing' = TRUE
  /\ UNCHANGED <<importance, enriched, scorer, current, workerVars, alerted, ghosts>>

Pending == {e \in Events : importance[e] # "none"} \ enriched

\* ORDER BY importance DESC NULLS LAST.
Urgency(e) == IF importance[e] = "null" THEN 0 ELSE Rank[e]

\* Mutant of Batches: one row too few is taken.
BatchesShort ==
  {b \in SUBSET Pending :
     /\ Cardinality(b) < BatchSize
     /\ b # Pending => Cardinality(b) = BatchSize - 1
     /\ \A e \in b, f \in Pending \ b : Urgency(e) >= Urgency(f)}

\* listPendingEnrichment(batchSize); ties go either way.
Batches ==
  {b \in SUBSET Pending :
     /\ Cardinality(b) <= BatchSize
     /\ b # Pending => Cardinality(b) = BatchSize
     /\ \A e \in b, f \in Pending \ b : Urgency(e) >= Urgency(f)}

ListBatch(k) ==
  /\ listing
  /\ ~Alive(k)
  /\ listing' = FALSE
  /\ \E batch \in Batches :
       \/ /\ batch = {}
          /\ UNCHANGED <<current, workerVars, broken>>
       \/ /\ batch # {}
          /\ current' = k
          /\ queue' = [queue EXCEPT ![k] = batch]
          /\ at' = [w \in Workers |->
                      IF w \in Pool(k) /\ w[2] <= Cardinality(batch) THEN "take" ELSE at[w]]
          /\ broken' = broken \ {k}
          /\ UNCHANGED hand
  /\ UNCHANGED <<importance, enriched, scorer, alerted, missed>>

\* The list itself throws; the loop logs it and waits for its next turn.
ListFails ==
  /\ DbMayFail
  /\ listing
  /\ listing' = FALSE
  /\ UNCHANGED <<importance, enriched, scorer, current, workerVars, alerted, ghosts>>

Goes(w, where) == at' = [at EXCEPT ![w] = where]

\* queue.shift(), most urgent first or not: the order is not relied on.
Take(w) ==
  /\ at[w] = "take"
  /\ \/ /\ queue[w[1]] = {}
        /\ Goes(w, "off")
        /\ UNCHANGED <<queue, hand>>
     \/ \E e \in queue[w[1]] :
          /\ queue' = [queue EXCEPT ![w[1]] = @ \ {e}]
          /\ hand' = [hand EXCEPT ![w] = e]
          /\ Goes(w, "enrich")
  /\ UNCHANGED <<importance, enriched, scorer, current, listing, alerted, ghosts>>

Enriched(w) ==
  /\ at[w] = "enrich"
  /\ hand[w] \notin Poison
  /\ Goes(w, "update")
  /\ UNCHANGED <<importance, enriched, scorer, current, listing, queue, hand, alerted, ghosts>>

\* The verdict is not ok: enrichedAt stays null, the event stays queued.
NotEnriched(w) ==
  /\ at[w] = "enrich"
  /\ Goes(w, "take")
  /\ hand' = [hand EXCEPT ![w] = Nothing]
  /\ UNCHANGED <<importance, enriched, scorer, current, listing, queue, alerted, ghosts>>

\* Mutant of StoreVerdict: on to the next event without the alerts.
StoreVerdictQuietly(w) ==
  /\ at[w] = "update"
  /\ importance' = [importance EXCEPT ![hand[w]] = "verdict"]
  /\ enriched' = enriched \cup {hand[w]}
  /\ hand' = [hand EXCEPT ![w] = Nothing]
  /\ Goes(w, "take")
  /\ UNCHANGED <<scorer, current, listing, queue, alerted, ghosts>>

StoreVerdict(w) ==
  /\ at[w] = "update"
  /\ importance' = [importance EXCEPT ![hand[w]] = "verdict"]
  /\ enriched' = enriched \cup {hand[w]}
  /\ Goes(w, "alert")
  /\ UNCHANGED <<scorer, current, listing, queue, hand, alerted, ghosts>>

EvaluateAlerts(w) ==
  /\ at[w] = "alert"
  /\ alerted' = alerted \cup {hand[w]}
  /\ hand' = [hand EXCEPT ![w] = Nothing]
  /\ Goes(w, "take")
  /\ UNCHANGED <<importance, enriched, scorer, current, listing, queue, ghosts>>

\* A database await of a worker throws: the coin before enrich, the update,
\* or the reload and the alerts.  The worker is gone; if its pass is the
\* awaited one, Promise.all rejects and the loop is free again.
WorkerThrows(w) ==
  /\ DbMayFail
  /\ at[w] \in {"enrich", "update", "alert"}
  /\ Goes(w, "off")
  /\ hand' = [hand EXCEPT ![w] = Nothing]
  /\ current' = IF current = w[1] THEN Nothing ELSE current
  /\ broken' = broken \cup {w[1]}
  /\ missed' = IF at[w] = "alert" THEN missed \cup {hand[w]} ELSE missed
  /\ UNCHANGED <<importance, enriched, scorer, listing, queue, alerted>>

\* Mutant of EndPass: the first worker to return ends the pass.
EndPassAtFirst ==
  /\ current # Nothing
  /\ \E w \in Pool(current) : at[w] = "off"
  /\ current' = Nothing
  /\ UNCHANGED <<importance, enriched, scorer, listing, workerVars, alerted, ghosts>>

\* Promise.all resolves.
EndPass ==
  /\ current # Nothing
  /\ ~Alive(current)
  /\ current' = Nothing
  /\ UNCHANGED <<importance, enriched, scorer, listing, workerVars, alerted, ghosts>>

Work(w) == Take(w) \/ Enriched(w) \/ NotEnriched(w) \/ StoreVerdict(w) \/ EvaluateAlerts(w)

EnrichmentNext ==
  \/ \E e \in Events : Insert(e) \/ ScoreRead(e) \/ ScoreWrite(e) \/ ScoreLost(e)
  \/ BeginPass \/ ListFails \/ EndPass
  \/ \E k \in Passes : ListBatch(k)
  \/ \E w \in Workers : Work(w) \/ WorkerThrows(w)

EnrichmentSpec == EnrichmentInit /\ [][EnrichmentNext]_enrichmentVars

(***************************************************************************)
(* Fairness: the loop goes round, every await of a worker is answered, and *)
(* outages end: about an event asked for again and again, the database     *)
(* and the model answer in the end, with a verdict unless the event is     *)
(* poison.  Without the answer about poison events, one on which the       *)
(* database throws every time could break off every pass it heads.         *)
(***************************************************************************)
Answered(w) == IF hand[w] \in Poison THEN NotEnriched(w) ELSE Enriched(w)

EnrichmentFairness ==
  /\ WF_enrichmentVars(BeginPass) /\ WF_enrichmentVars(EndPass)
  /\ SF_enrichmentVars(\E k \in Passes : ListBatch(k))
  /\ \A w \in Workers : WF_enrichmentVars(Work(w))
  /\ \A e \in Events : /\ WF_enrichmentVars(ScoreRead(e)) /\ WF_enrichmentVars(ScoreWrite(e))
                        /\ SF_enrichmentVars(\E w \in Workers : hand[w] = e /\ Answered(w))
                        /\ SF_enrichmentVars(\E w \in Workers : hand[w] = e /\ StoreVerdict(w))

EnrichmentFairSpec == EnrichmentSpec /\ EnrichmentFairness
-----------------------------------------------------------------------------
EnrichmentTypeOK ==
  /\ importance \in [Events -> Importances]
  /\ enriched \subseteq Events /\ alerted \subseteq Events
  /\ scorer \in [Events -> ScorerStates]
  /\ current \in Passes \cup {Nothing}
  /\ listing \in BOOLEAN
  /\ queue \in [Passes -> SUBSET Events]
  /\ at \in [Workers -> Awaits]
  /\ hand \in [Workers -> Events \cup {Nothing}]
  /\ broken \subseteq Passes /\ missed \subseteq Events

(***************************************************************************)
(* A pool outlives the pass the loop awaits only after one of its workers  *)
(* threw; as long as nothing throws, passes never overlap, and that is how *)
(* far LLM_CONCURRENCY bounds the requests to the model.                   *)
(***************************************************************************)
PoolsApart == \A k \in Passes : Alive(k) => k = current \/ k \in broken

(***************************************************************************)
(* The workers of a pool share its queue without sharing an event: what    *)
(* one of them holds, no other worker of the pool holds or can still take. *)
(***************************************************************************)
OneWorkerPerEvent ==
  \A k \in Passes : \A v \in Pool(k) : hand[v] # Nothing =>
    /\ hand[v] \notin queue[k]
    /\ \A w \in Pool(k) : hand[w] = hand[v] => w = v

\* The pools: neither two of them at one backlog, nor two workers at one event.
PoolsSound == PoolsApart /\ OneWorkerPerEvent

(***************************************************************************)
(* An event leaves the backlog with its verdict and is not listed again,   *)
(* so its alerts are evaluated by the worker that judged it or never: all  *)
(* that a stored verdict can miss is what that very worker threw on.       *)
(***************************************************************************)
VerdictsReachAlerts ==
  enriched \ alerted \subseteq missed \cup {hand[w] : w \in {v \in Workers : at[v] = "alert"}}

(***************************************************************************)
(* Fewer poison events than a batch holds cannot starve the others, nor    *)
(* can passes that break off half-way: every event the model can judge is  *)
(* judged, whatever its rank.                                              *)
(***************************************************************************)
HealthyEventsEnriched ==
  \A e \in Events \ Poison : importance[e] # "none" ~> e \in enriched
-----------------------------------------------------------------------------
(***************************************************************************)
(* What a comment says, and the code does not do.                          *)
(***************************************************************************)
\* ingestion.ts:291, the baseline is what "the enricher later refines": a
\* stored verdict is not replaced by the baseline.
VerdictSticks ==
  [][\A e \in Events : importance[e] = "verdict" => importance'[e] = "verdict"]_enrichmentVars
=============================================================================
