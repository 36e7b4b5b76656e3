-------------------------- MODULE EnrichmentProofs --------------------------
(***************************************************************************)
(* Theorems about Enrichment, for any events, ranks, batch size, number of *)
(* workers and pools, with or without a database that fails.               *)
(***************************************************************************)
EXTENDS Enrichment, TLAPS

\* What a worker stands at while it has an event in hand.
Busy == {"enrich", "update", "alert"}

\* A worker holds an event exactly between taking it and being done with it.
HandsFull == \A w \in Workers : at[w] \in Busy <=> hand[w] # Nothing

\* The loop lists a batch only when it awaits no pass.
OneAwait == listing => current = Nothing

USE DEF Importances, ScorerStates, Awaits, Busy

\* A worker belongs to one pool, the one its first component names.
LEMMA PoolOfWorker ==
  /\ \A w \in Workers : w[1] \in Passes /\ w \in Pool(w[1])
  /\ \A k \in Passes : Pool(k) \subseteq Workers
  /\ \A k \in Passes : \A w \in Pool(k) : w[1] = k
BY DEF Workers, Pool

(***************************************************************************)
(* Type correctness rests on HandsFull: a worker that stores a verdict has *)
(* an event to store it for.                                               *)
(***************************************************************************)
LEMMA GoesTyped ==
  ASSUME EnrichmentTypeOK, NEW w \in Workers, NEW where \in Awaits, Goes(w, where)
  PROVE  at' \in [Workers -> Awaits]
BY DEF EnrichmentTypeOK, Goes

LEMMA TakeTyped ==
  ASSUME EnrichmentTypeOK, NEW w \in Workers, Take(w)
  PROVE  EnrichmentTypeOK'
<1>1. w[1] \in Passes
  BY PoolOfWorker
<1>2. CASE Goes(w, "off") /\ UNCHANGED <<queue, hand>>
  <2>1. at' \in [Workers -> Awaits]
    BY <1>2, GoesTyped
  <2>2. QED
    BY <1>2, <2>1 DEF Take, ghosts, EnrichmentTypeOK
<1>3. ASSUME NEW e \in queue[w[1]],
             queue' = [queue EXCEPT ![w[1]] = @ \ {e}],
             hand' = [hand EXCEPT ![w] = e], Goes(w, "enrich")
      PROVE  EnrichmentTypeOK'
  <2>1. e \in Events
    BY <1>1, <1>3 DEF EnrichmentTypeOK
  <2>2. queue' \in [Passes -> SUBSET Events] /\ hand' \in [Workers -> Events \cup {Nothing}]
    BY <1>1, <1>3, <2>1 DEF EnrichmentTypeOK
  <2>3. at' \in [Workers -> Awaits]
    BY <1>3, GoesTyped
  <2>4. QED
    BY <2>2, <2>3 DEF Take, ghosts, EnrichmentTypeOK
<1>4. QED
  BY <1>2, <1>3 DEF Take

LEMMA WorkTyped ==
  ASSUME EnrichmentTypeOK, HandsFull, NEW w \in Workers, Work(w) \/ WorkerThrows(w)
  PROVE  EnrichmentTypeOK'
<1>1. w[1] \in Passes
  BY PoolOfWorker
<1>2. at[w] \in Busy => hand[w] \in Events
  BY DEF EnrichmentTypeOK, HandsFull
<1>3. [hand EXCEPT ![w] = Nothing] \in [Workers -> Events \cup {Nothing}]
  BY DEF EnrichmentTypeOK
<1>4. CASE Enriched(w)
  <2>1. at' \in [Workers -> Awaits]
    BY <1>4, GoesTyped DEF Enriched
  <2>2. QED
    BY <1>4, <2>1 DEF Enriched, ghosts, EnrichmentTypeOK
<1>5. CASE NotEnriched(w)
  <2>1. at' \in [Workers -> Awaits]
    BY <1>5, GoesTyped DEF NotEnriched
  <2>2. QED
    BY <1>3, <1>5, <2>1 DEF NotEnriched, ghosts, EnrichmentTypeOK
<1>6. CASE StoreVerdict(w)
  <2>1. at' \in [Workers -> Awaits]
    BY <1>6, GoesTyped DEF StoreVerdict
  <2>2. importance' \in [Events -> Importances] /\ enriched' \subseteq Events
    BY <1>2, <1>6 DEF StoreVerdict, EnrichmentTypeOK
  <2>3. QED
    BY <1>6, <2>1, <2>2 DEF StoreVerdict, ghosts, EnrichmentTypeOK
<1>7. CASE EvaluateAlerts(w)
  <2>1. at' \in [Workers -> Awaits]
    BY <1>7, GoesTyped DEF EvaluateAlerts
  <2>2. alerted' \subseteq Events
    BY <1>2, <1>7 DEF EvaluateAlerts, EnrichmentTypeOK
  <2>3. QED
    BY <1>3, <1>7, <2>1, <2>2 DEF EvaluateAlerts, ghosts, EnrichmentTypeOK
<1>8. CASE WorkerThrows(w)
  <2>1. at' \in [Workers -> Awaits]
    BY <1>8, GoesTyped DEF WorkerThrows
  <2>2. broken' \subseteq Passes /\ missed' \subseteq Events
    BY <1>1, <1>2, <1>8 DEF WorkerThrows, EnrichmentTypeOK
  <2>3. current' \in Passes \cup {Nothing}
    BY <1>8 DEF WorkerThrows, EnrichmentTypeOK
  <2>4. QED
    BY <1>3, <1>8, <2>1, <2>2, <2>3 DEF WorkerThrows, EnrichmentTypeOK
<1>9. QED
  BY <1>4, <1>5, <1>6, <1>7, <1>8, TakeTyped DEF Work

\* What the ingesting runs do to the rows is no business of the pools.
LEMMA RowStep ==
  ASSUME EnrichmentTypeOK, NEW e \in Events,
         Insert(e) \/ ScoreRead(e) \/ ScoreWrite(e) \/ ScoreLost(e)
  PROVE  /\ EnrichmentTypeOK'
         /\ UNCHANGED <<enriched, current, listing, queue, at, hand, alerted, broken, missed>>
<1>1. UNCHANGED <<enriched, current, listing, queue, at, hand, alerted, broken, missed>>
  BY DEF Insert, ScoreRead, ScoreWrite, ScoreLost, workerVars, ghosts
<1>2. importance' \in [Events -> Importances]
  BY DEF Insert, ScoreRead, ScoreWrite, ScoreLost, EnrichmentTypeOK
<1>3. scorer' \in [Events -> ScorerStates]
  BY DEF Insert, ScoreRead, ScoreWrite, ScoreLost, EnrichmentTypeOK
<1>4. QED
  BY <1>1, <1>2, <1>3 DEF EnrichmentTypeOK

\* The steps of the loop that leave the pools alone.
LEMMA LoopStep ==
  ASSUME EnrichmentTypeOK, BeginPass \/ ListFails \/ EndPass
  PROVE  /\ EnrichmentTypeOK'
         /\ UNCHANGED <<enriched, queue, at, hand, alerted, broken, missed>>
<1>1. UNCHANGED <<importance, enriched, scorer, queue, at, hand, alerted, broken, missed>>
  BY DEF BeginPass, ListFails, EndPass, workerVars, ghosts
<1>2. current' \in Passes \cup {Nothing} /\ listing' \in BOOLEAN
  BY DEF BeginPass, ListFails, EndPass, EnrichmentTypeOK
<1>3. QED
  BY <1>1, <1>2 DEF EnrichmentTypeOK

\* Starting a pool: its workers stood idle and now stand at the queue or idle.
LEMMA ListBatchStep ==
  ASSUME EnrichmentTypeOK, NEW k \in Passes, ListBatch(k)
  PROVE  /\ EnrichmentTypeOK'
         /\ UNCHANGED <<enriched, hand, alerted, missed>>
         /\ \A w \in Workers : /\ w \in Pool(k) => at[w] = "off" /\ at'[w] \in {"off", "take"}
                               /\ w \notin Pool(k) => at'[w] = at[w]
         /\ \A j \in Passes \ {k} : queue'[j] = queue[j]
         /\ \/ UNCHANGED <<current, at, broken>>
            \/ current' = k /\ broken' = broken \ {k}
         /\ listing /\ ~listing'
<1>1. \A w \in Pool(k) : w \in Workers /\ at[w] = "off"
  BY PoolOfWorker DEF ListBatch, Alive
<1>2. PICK batch \in Batches :
        \/ UNCHANGED <<current, queue, at, hand, broken>>
        \/ /\ current' = k
           /\ queue' = [queue EXCEPT ![k] = batch]
           /\ at' = [w \in Workers |->
                       IF w \in Pool(k) /\ w[2] <= Cardinality(batch) THEN "take" ELSE at[w]]
           /\ broken' = broken \ {k}
           /\ UNCHANGED hand
  BY DEF ListBatch, workerVars
<1>3. batch \subseteq Events
  BY DEF Batches, Pending
<1>4. queue' \in [Passes -> SUBSET Events] /\ \A j \in Passes \ {k} : queue'[j] = queue[j]
  BY <1>2, <1>3 DEF EnrichmentTypeOK
<1>5. /\ at' \in [Workers -> Awaits]
      /\ \A w \in Workers : /\ w \in Pool(k) => at'[w] \in {"off", "take"}
                            /\ w \notin Pool(k) => at'[w] = at[w]
  <2>1. CASE UNCHANGED at
    BY <1>1, <2>1 DEF EnrichmentTypeOK
  <2>2. CASE at' = [w \in Workers |->
                      IF w \in Pool(k) /\ w[2] <= Cardinality(batch) THEN "take" ELSE at[w]]
    <3>1. \A w \in Workers : at'[w] = IF w \in Pool(k) /\ w[2] <= Cardinality(batch)
                                      THEN "take" ELSE at[w]
      BY <2>2
    <3>2. \A w \in Workers : (at'[w] = "take" /\ w \in Pool(k)) \/ at'[w] = at[w]
      BY <3>1
    <3>3. at' = [w \in Workers |-> at'[w]]
      BY <2>2
    <3>4. QED
      BY <1>1, <3>2, <3>3 DEF EnrichmentTypeOK
  <2>3. QED
    BY <1>2, <2>1, <2>2
<1>6. current' \in Passes \cup {Nothing} /\ broken' \subseteq Passes
  BY <1>2 DEF EnrichmentTypeOK
<1>7. UNCHANGED <<importance, enriched, scorer, hand, alerted, missed>> /\ listing /\ listing' = FALSE
  BY <1>2 DEF ListBatch
<1>8. EnrichmentTypeOK'
  BY <1>4, <1>5, <1>6, <1>7 DEF EnrichmentTypeOK
<1>9. QED
  BY <1>1, <1>2, <1>4, <1>5, <1>7, <1>8

LEMMA TypeKept ==
  ASSUME EnrichmentTypeOK, HandsFull, [EnrichmentNext]_enrichmentVars
  PROVE  EnrichmentTypeOK'
<1>1. ASSUME NEW e \in Events, Insert(e) \/ ScoreRead(e) \/ ScoreWrite(e) \/ ScoreLost(e)
      PROVE  EnrichmentTypeOK'
  BY <1>1, RowStep
<1>2. CASE BeginPass \/ ListFails \/ EndPass
  BY <1>2, LoopStep
<1>3. ASSUME NEW k \in Passes, ListBatch(k) PROVE EnrichmentTypeOK'
  BY <1>3, ListBatchStep
<1>4. ASSUME NEW w \in Workers, Work(w) \/ WorkerThrows(w) PROVE EnrichmentTypeOK'
  BY <1>4, WorkTyped
<1>5. CASE UNCHANGED enrichmentVars
  BY <1>5 DEF enrichmentVars, EnrichmentTypeOK
<1>6. QED
  BY <1>1, <1>2, <1>3, <1>4, <1>5 DEF EnrichmentNext

\* What a worker's step does to its own and to everybody else's await and hand.
LEMMA WorkStep ==
  ASSUME EnrichmentTypeOK, HandsFull, NEW w \in Workers, Work(w) \/ WorkerThrows(w)
  PROVE  /\ at[w] # "off"
         /\ \A v \in Workers \ {w} : at'[v] = at[v] /\ hand'[v] = hand[v]
         /\ \A j \in Passes \ {w[1]} : queue'[j] = queue[j]
         /\ queue'[w[1]] \subseteq queue[w[1]]
         /\ at'[w] \in Busy <=> hand'[w] # Nothing
         /\ \/ hand'[w] = hand[w] \/ hand'[w] = Nothing
            \/ hand'[w] \in queue[w[1]] /\ hand'[w] \notin queue'[w[1]]
         /\ UNCHANGED listing
<1>1. w[1] \in Passes /\ at[w] \in Awaits
  BY PoolOfWorker DEF EnrichmentTypeOK
<1>2. CASE Take(w)
  <2>1. CASE Goes(w, "off") /\ UNCHANGED <<queue, hand>>
    BY <1>2, <2>1 DEF Take, Goes, EnrichmentTypeOK, HandsFull
  <2>2. ASSUME NEW e \in queue[w[1]],
               queue' = [queue EXCEPT ![w[1]] = @ \ {e}],
               hand' = [hand EXCEPT ![w] = e], Goes(w, "enrich")
        PROVE  /\ at'[w] = "enrich" /\ hand'[w] = e
               /\ \A v \in Workers \ {w} : at'[v] = at[v] /\ hand'[v] = hand[v]
               /\ queue'[w[1]] = queue[w[1]] \ {e}
               /\ \A j \in Passes \ {w[1]} : queue'[j] = queue[j]
    BY <1>1, <2>2 DEF Goes, EnrichmentTypeOK
  <2>3. \A e \in queue[w[1]] : e # Nothing
    BY <1>1, EnrichmentAssumption DEF EnrichmentTypeOK
  <2>4. QED
    BY <1>2, <2>1, <2>2, <2>3 DEF Take
<1>3. CASE Enriched(w) \/ StoreVerdict(w)
  BY <1>3 DEF Enriched, StoreVerdict, Goes, EnrichmentTypeOK, HandsFull
<1>4. CASE NotEnriched(w) \/ EvaluateAlerts(w)
  BY <1>4 DEF NotEnriched, EvaluateAlerts, Goes, EnrichmentTypeOK
<1>5. CASE WorkerThrows(w)
  BY <1>5 DEF WorkerThrows, Goes, EnrichmentTypeOK
<1>6. QED
  BY <1>2, <1>3, <1>4, <1>5 DEF Work

LEMMA HandsFullKept ==
  ASSUME EnrichmentTypeOK, HandsFull, [EnrichmentNext]_enrichmentVars
  PROVE  HandsFull'
<1>1. CASE UNCHANGED <<at, hand>>
  BY <1>1 DEF HandsFull
<1>2. ASSUME NEW k \in Passes, ListBatch(k) PROVE HandsFull'
  BY <1>2, ListBatchStep DEF HandsFull
<1>3. ASSUME NEW w \in Workers, Work(w) \/ WorkerThrows(w) PROVE HandsFull'
  BY <1>3, WorkStep DEF HandsFull
<1>4. QED
  BY <1>1, <1>2, <1>3, RowStep, LoopStep DEF EnrichmentNext, enrichmentVars

LEMMA InitiallyIdle == EnrichmentInit => EnrichmentTypeOK /\ HandsFull /\ OneAwait
<1> SUFFICES ASSUME EnrichmentInit PROVE EnrichmentTypeOK /\ HandsFull /\ OneAwait
  OBVIOUS
<1>1. /\ importance \in [Events -> Importances] /\ scorer \in [Events -> ScorerStates]
      /\ queue \in [Passes -> SUBSET Events] /\ at \in [Workers -> Awaits]
      /\ hand \in [Workers -> Events \cup {Nothing}]
  BY DEF EnrichmentInit
<1>2. \A w \in Workers : at[w] = "off" /\ hand[w] = Nothing
  BY DEF EnrichmentInit
<1>3. HandsFull
  BY <1>2 DEF HandsFull
<1>4. QED
  BY <1>1, <1>3 DEF EnrichmentInit, EnrichmentTypeOK, OneAwait

\* The loop and its pools keep their types, and a worker that is to judge,
\* store or alert has an event in hand.
THEOREM TypeCorrect == EnrichmentSpec => [](EnrichmentTypeOK /\ HandsFull)
BY InitiallyIdle, TypeKept, HandsFullKept, PTL DEF EnrichmentSpec

(***************************************************************************)
(* Pools apart.                                                            *)
(***************************************************************************)
LEMMA OneAwaitKept ==
  ASSUME EnrichmentTypeOK, HandsFull, OneAwait, [EnrichmentNext]_enrichmentVars
  PROVE  OneAwait'
<1>1. CASE UNCHANGED <<current, listing>>
  BY <1>1 DEF OneAwait
<1>2. CASE BeginPass \/ ListFails \/ EndPass
  BY <1>2 DEF BeginPass, ListFails, EndPass, OneAwait
<1>3. ASSUME NEW k \in Passes, ListBatch(k) PROVE OneAwait'
  BY <1>3, ListBatchStep DEF OneAwait
<1>4. ASSUME NEW w \in Workers, Work(w) \/ WorkerThrows(w) PROVE OneAwait'
  <2>1. current' = current \/ current' = Nothing
    BY <1>4 DEF Work, Take, Enriched, NotEnriched, StoreVerdict, EvaluateAlerts, WorkerThrows
  <2>2. QED
    BY <1>4, <2>1, WorkStep DEF OneAwait
<1>5. QED
  BY <1>1, <1>2, <1>3, <1>4, RowStep DEF EnrichmentNext, enrichmentVars

LEMMA PoolsApartKept ==
  ASSUME EnrichmentTypeOK, HandsFull, OneAwait, PoolsApart, [EnrichmentNext]_enrichmentVars
  PROVE  PoolsApart'
<1>1. CASE UNCHANGED <<current, at, broken>>
  BY <1>1 DEF PoolsApart, Alive
<1>2. CASE BeginPass \/ ListFails
  BY <1>2, LoopStep DEF BeginPass, ListFails, PoolsApart, Alive
<1>3. CASE EndPass
  <2>1. ~Alive(current) /\ at' = at /\ broken' = broken
    BY <1>3, LoopStep DEF EndPass
  <2>2. QED
    BY <2>1 DEF PoolsApart, Alive
<1>4. ASSUME NEW k \in Passes, ListBatch(k), ~UNCHANGED <<current, at, broken>>
      PROVE  PoolsApart'
  <2>1. current' = k /\ broken' = broken \ {k} /\ current = Nothing
    BY <1>4, ListBatchStep DEF OneAwait
  <2>2. ASSUME NEW j \in Passes, j # k, Alive(j)' PROVE j \in broken'
    <3>1. PICK w \in Pool(j) : at'[w] # "off"
      BY <2>2 DEF Alive
    <3>2. w \in Workers /\ w \notin Pool(k)
      BY <2>2, PoolOfWorker
    <3>3. at[w] # "off"
      BY <1>4, <3>1, <3>2, ListBatchStep
    <3>4. j \in broken
      BY <2>1, <3>3, EnrichmentAssumption DEF PoolsApart, Alive
    <3>5. QED
      BY <2>1, <2>2, <3>4
  <2>3. QED
    BY <2>1, <2>2 DEF PoolsApart
<1>5. ASSUME NEW w \in Workers, Work(w) \/ WorkerThrows(w) PROVE PoolsApart'
  <2>1. ASSUME NEW j \in Passes, Alive(j)' PROVE Alive(j)
    <3>1. PICK v \in Pool(j) : at'[v] # "off"
      BY <2>1 DEF Alive
    <3>2. at[v] # "off"
      BY <1>5, <3>1, WorkStep, PoolOfWorker
    <3>3. QED
      BY <3>2 DEF Alive
  <2>2. \/ UNCHANGED <<current, broken>>
        \/ /\ broken' = broken \cup {w[1]}
           /\ current' = IF current = w[1] THEN Nothing ELSE current
    BY <1>5 DEF Work, Take, Enriched, NotEnriched, StoreVerdict, EvaluateAlerts,
                WorkerThrows, ghosts
  <2>3. QED
    BY <2>1, <2>2 DEF PoolsApart
<1>6. QED
  BY <1>1, <1>2, <1>3, <1>4, <1>5, RowStep DEF EnrichmentNext, enrichmentVars

(***************************************************************************)
(* One worker per event, by the queue that forgets what it hands out.      *)
(***************************************************************************)
LEMMA OneWorkerKept ==
  ASSUME EnrichmentTypeOK, HandsFull, OneWorkerPerEvent, [EnrichmentNext]_enrichmentVars
  PROVE  OneWorkerPerEvent'
<1>1. CASE UNCHANGED <<queue, hand>>
  BY <1>1 DEF OneWorkerPerEvent
<1>2. ASSUME NEW k \in Passes, ListBatch(k) PROVE OneWorkerPerEvent'
  <2>1. hand' = hand /\ \A j \in Passes \ {k} : queue'[j] = queue[j]
    BY <1>2, ListBatchStep
  <2>2. \A v \in Pool(k) : hand[v] = Nothing
    BY <1>2, ListBatchStep, PoolOfWorker DEF HandsFull
  <2>3. QED
    BY <2>1, <2>2 DEF OneWorkerPerEvent
<1>3. ASSUME NEW w \in Workers, Work(w) \/ WorkerThrows(w) PROVE OneWorkerPerEvent'
  <2> SUFFICES ASSUME NEW k \in Passes, NEW v \in Pool(k), hand'[v] # Nothing
               PROVE  /\ hand'[v] \notin queue'[k]
                      /\ \A u \in Pool(k) : hand'[u] = hand'[v] => u = v
    BY DEF OneWorkerPerEvent
  <2>1. v \in Workers /\ queue'[k] \subseteq queue[k]
    BY <1>3, WorkStep, PoolOfWorker
  <2>2. CASE w \notin Pool(k)
    BY <1>3, <2>2, WorkStep, PoolOfWorker DEF OneWorkerPerEvent
  <2>3. CASE w \in Pool(k) /\ hand'[w] \in {hand[w], Nothing}
    BY <1>3, <2>1, <2>3, WorkStep, PoolOfWorker DEF OneWorkerPerEvent
  <2>4. CASE w \in Pool(k) /\ hand'[w] \in queue[k] /\ hand'[w] \notin queue'[k]
    BY <1>3, <2>1, <2>4, WorkStep, PoolOfWorker DEF OneWorkerPerEvent
  <2>5. QED
    BY <1>3, <2>2, <2>3, <2>4, WorkStep, PoolOfWorker
<1>4. QED
  BY <1>1, <1>2, <1>3, RowStep, LoopStep DEF EnrichmentNext, enrichmentVars

\* Two pools are at the backlog together only after one of them broke, and no
\* two workers of one pool are ever at one event.
THEOREM PoolsStaySound == EnrichmentSpec => []PoolsSound
<1>1. EnrichmentInit => PoolsApart /\ OneWorkerPerEvent
  <2> SUFFICES ASSUME EnrichmentInit PROVE PoolsApart /\ OneWorkerPerEvent
    OBVIOUS
  <2>1. \A k \in Passes : \A w \in Pool(k) : at[w] = "off" /\ hand[w] = Nothing
    BY PoolOfWorker DEF EnrichmentInit
  <2>2. QED
    BY <2>1 DEF PoolsApart, Alive, OneWorkerPerEvent
<1>2. PoolsApart /\ OneWorkerPerEvent => PoolsSound
  BY DEF PoolsSound
<1>3. QED
  BY <1>1, <1>2, InitiallyIdle, TypeKept, HandsFullKept, OneAwaitKept, PoolsApartKept,
     OneWorkerKept, PTL DEF EnrichmentSpec

(***************************************************************************)
(* Verdicts reach the alerts.                                              *)
(***************************************************************************)
LEMMA VerdictsKept ==
  ASSUME EnrichmentTypeOK, HandsFull, VerdictsReachAlerts, [EnrichmentNext]_enrichmentVars
  PROVE  VerdictsReachAlerts'
<1> USE DEF VerdictsReachAlerts
<1>1. CASE UNCHANGED <<enriched, alerted, missed, at, hand>>
  BY <1>1
<1>2. ASSUME NEW k \in Passes, ListBatch(k) PROVE VerdictsReachAlerts'
  <2>1. UNCHANGED <<enriched, alerted, missed, hand>>
    BY <1>2, ListBatchStep
  <2>2. \A w \in Workers : at[w] = "alert" => at'[w] = "alert"
    BY <1>2, ListBatchStep
  <2>3. QED
    BY <2>1, <2>2
<1>3. ASSUME NEW w \in Workers, Work(w) \/ WorkerThrows(w) PROVE VerdictsReachAlerts'
  <2>1. \A v \in Workers \ {w} : at'[v] = at[v] /\ hand'[v] = hand[v]
    BY <1>3, WorkStep
  <2>2. CASE at[w] # "alert" /\ UNCHANGED <<enriched, alerted>> /\ missed \subseteq missed'
    BY <2>1, <2>2
  <2>3. CASE StoreVerdict(w)
    <3>1. /\ at'[w] = "alert" /\ hand' = hand /\ UNCHANGED <<alerted, missed>>
          /\ enriched' = enriched \cup {hand[w]}
      BY <2>3 DEF StoreVerdict, Goes, ghosts, EnrichmentTypeOK
    <3>2. QED
      BY <2>1, <3>1
  <2>4. CASE EvaluateAlerts(w)
    <3>1. alerted' = alerted \cup {hand[w]} /\ UNCHANGED <<enriched, missed>>
      BY <2>4 DEF EvaluateAlerts, ghosts
    <3>2. QED
      BY <2>1, <3>1
  <2>5. CASE WorkerThrows(w) /\ at[w] = "alert"
    <3>1. missed' = missed \cup {hand[w]} /\ UNCHANGED <<enriched, alerted>>
      BY <2>5 DEF WorkerThrows
    <3>2. QED
      BY <2>1, <3>1
  <2>6. QED
    BY <1>3, <2>2, <2>3, <2>4, <2>5
    DEF Work, Take, Enriched, NotEnriched, WorkerThrows, ghosts
<1>4. QED
  BY <1>1, <1>2, <1>3, RowStep, LoopStep DEF EnrichmentNext, enrichmentVars

\* All that a stored verdict can miss is the alerts of the worker that threw.
THEOREM VerdictsAlwaysReachAlerts == EnrichmentSpec => []VerdictsReachAlerts
<1>1. EnrichmentInit => VerdictsReachAlerts
  BY DEF EnrichmentInit, VerdictsReachAlerts
<1>2. QED
  BY <1>1, InitiallyIdle, TypeKept, HandsFullKept, VerdictsKept, PTL DEF EnrichmentSpec
=============================================================================
