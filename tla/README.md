# Verification of the Crypto Intelligence Dashboard

TLA+ models of the parts of this repository where the order of things, or what a
service makes of odd inputs, decides whether it is right: polling, ingestion,
enrichment, alerting, live updates, the worker's life, the terminal in the browser,
and the services and queries they rest on. Every module is translated from the
TypeScript; the file and lines behind each definition are in `PROJECT.json` under
`map`.

    tlc -workers 2 -config http.cfg MCHttpClient          # one run
    tlapm HttpClientProofs.tla                            # one proof module

## 1. The system

A worker process polls providers and writes to Postgres; a web process serves
the dashboard and pushes what the worker announces over Redis. More than one
worker may run against one database (docs/ARCHITECTURE.md, "Horizontal").

| Component | State it keeps | Operations | Talks to |
| --- | --- | --- | --- |
| Scheduler (`worker/scheduler.ts`) | per connector: timer, running, failures | start, #tick, #reschedule, runNow, stop | connectors, ingestion, telemetry |
| Connectors (`connectors/*`) | none between polls | collect(since) | HTTP client |
| HTTP client and circuit breaker (`platform/http-client.ts`, `circuit-breaker.ts`) | per provider: state, failures, successes, cooldown, probe flag | request; canRequest, recordSuccess, recordFailure | rate limiter, cache, fetch |
| Rate limiter (`platform/rate-limiter.ts`) | token buckets, in memory or in Redis | acquire, tryAcquire, configure | Redis |
| Cache (`platform/cache.ts`) | entries, in-flight promises | get, set, remember, invalidate | Redis |
| Container (`platform/container.ts`) | registrations, instances, order of creation | resolve, dispose | everything the process builds |
| Ingestion (`worker/ingestion.ts`, `event-repository.ts`) | Event rows, typed records, clusters, listings, `ConnectorState.lastItemAt` | ingest: insertMany, link, cluster, score, publish | Postgres, realtime bus |
| Enrichment (`worker/enrichment.ts`) | `enrichedAt`, importance; #running | start, runOnce, backfillEmbeddings | model server, alerts |
| Alerts (`worker/alerts.ts`, `alert-repository.ts`) | Alert, AlertTrigger, NotificationDelivery rows | process, processMany, recordTrigger, recordDelivery | rules, notifiers, bus |
| Realtime (`platform/redis.ts`, `api/stream`, `use-live-stream.ts`) | subscriber connections, handlers, open streams | publish, subscribe, unsubscribe, connect | Redis, browsers |
| Timeline and terminal (`event-repository.ts`, `terminal.tsx`) | the browser's list, cursor, filters, requests out | keyset pages, refresh, load more, live frames | Postgres, stream |
| Research console (`ask-panel.tsx`, `api/ask`, `agent.ts`, `llm.ts`) | the panel's answer, two half-read lines | ask, askStream, streamNdjson | model server |
| Palette and watchlist (`command-palette.tsx`, `watchlist-repository.ts`) | results shown, searches out; positions, pins | search, import, add, remove, reorder | coin repository |
| Worker process (`worker/main.ts`) | intervals, crons, shutting down | boot, signal loops, reports, stop | all of the above |
| Pure services (`core/services/*`, `ai/*`, repositories' queries) | none | rules, dedupe, scoring, sentiment, matching, extraction, retrieval, aggregates | — |

What is hard in it:

- **Awaits.** JavaScript does not preempt, so state is only torn at an await —
  and nearly every handler reads a row or a flag, awaits, and acts on it.
- **Replicas.** Two workers share the tables without a lock; the claim in
  `recordTrigger`, unique keys and `skipDuplicates` are all that keeps them apart.
- **Partial failure.** Every step behind `insertMany` can throw or be cut off by
  a crash, and the high-water mark decides whether it is ever repeated.
- **Late answers.** The breaker is told outcomes of calls it admitted in another
  state; the browser gets answers to questions it has given up.
- **Time.** Cooldowns compare timestamps captured at different moments.
- **Bytes.** A model's answer and the route's events arrive cut anywhere.

What makes each component right, in a sentence: a connector has one run at a
time, is polled for ever, and no setting makes that faster than it allows; a broken provider is
left alone for longer and longer and comes back when it is healthy; what lies
below the mark is stored, with its own record, and clustered with its story and
no other; an event is judged once and alerts see it; a notification goes out at
most once per cooldown and its delivery is on record; a live stream delivers to
everyone connected and releases what it holds; a paged timeline shows each row
once and skips none; an answer on the screen is what was said; a shutdown begins
nothing and ends; a score, a rule or a query is monotone in what it is told and
indifferent to what it is not.

## 2. The modules

| Module | Models | Proofs |
| --- | --- | --- |
| `CircuitBreaker` | one provider's breaker entry, as operators | |
| `HttpClient` (extends it) | concurrent `request` calls over one entry | `HttpClientProofs` |
| `RateLimiter` | one key's token bucket, in memory or in Redis, and its callers | `CollectionProofs` |
| `Cache` | both response caches, `remember`'s flights, the client's get and set | `RealtimeBusProofs` |
| `Polling` | what the scheduler promises: the abstract specification | |
| `Scheduler` | one connector's timers, runs, runNow, stop; implements `Polling` | `SchedulerProofs` |
| `Container` | factories that resolve others, builds that fail, disposal | `SchedulerProofs` |
| `Worker` (extends `Container`) | boot, loops, crons and shutdown around the container and `Polling` | `SchedulerProofs` |
| `Connectors` | what each connector makes of its provider's answers | `ServicesProofs` |
| `Collection` | mark, fetch, insertMany, records, clustering, push | `CollectionProofs` |
| `Clustering` | `findCluster`, `clusterBatch`, and ingestions that cluster beside each other | `SchedulerProofs` |
| `Listings` | trading pairs and the listings made of them, by replicas that may die | `SchedulerProofs` |
| `Enrichment` | baseline score, passes, worker pools, verdicts | `EnrichmentProofs` |
| `Delivery` | what the alert runtime promises: the abstract specification | |
| `AlertEngine` | batches, the claim, delivery, edits, deletion; implements `Delivery` | `AlertEngineProofs` |
| `AlertRules` | `evaluateRule` for every rule that `alertRuleSchema` admits; the signals the worker builds | `ServicesProofs` |
| `Scoring`, `CoinMatcher` | scores and sentiment, and matches of `core` | `ServicesProofs` |
| `ModelOutput` (extends `Scoring`) | JSON extraction and the model's verdict | `ServicesProofs` |
| `Services` | what these services and `Connectors` can be asked, and what is promised of the answers | `ServicesProofs` |
| `Identifiers`, `Retrieval`, `Queries` | identifier candidates; search, citations, key events; aggregating queries | |
| `Roster` | the watchlist and the coins it imports, by concurrent requests | `SchedulerProofs` |
| `RealtimeBus` | subscriber connections, handlers, and the event streams on them | `RealtimeBusProofs` |
| `LiveStream` | the browser's reconnecting hook and its watchdog | |
| `Dashboard` | the timeline's paged query, and the terminal's list over it | `DashboardProofs` |
| `AskConsole` | panel, route, agent and model stream of one question | `DashboardProofs` |
| `Palette` | the debounced search and the import of a coin | `DashboardProofs` |

`MC*` modules give instances, small input sets and symmetry; `Enrichment` carries
its own for the runs of it alone. The `MC*` modules put
systems that share no state side by side and let a run exercise one of them at a
time (`exercised`, or `input.about`): that costs the sum of their states, not the
product, and says the same. `MCHttpClient` holds the client and one collector's
polls, `MCAlerts` the alert engine and the enrichment's passes, `MCCollection` the polls of two replicas and the rate limiter, `MCScheduler` the
scheduler, the process and the container, `MCRealtimeBus` the bus and the caches,
`MCDashboard` the four parts of the browser, `MCServices` the pure services and three
small machines.

How to read them against the code:

- **An action is the code between two awaits.** A process's `pc`, `phase` or `at`
  names the await it stands at. A transaction is one action only where the
  database makes it one: Postgres runs at read committed, so `recordTrigger`'s
  `findUnique` and its conditional `updateMany` are two steps
  (`ClaimRead`, `ClaimWon`/`ClaimLost`), while the `updateMany` re-evaluates its
  WHERE under the row lock and is one.
- **Failures are actions of their own** (`RunFails`, `AbandonUnrecorded`,
  `WorkerThrows`, `Fail`, `Abandon`, `BootFails`), or a choice of one (`errs`).
- **Data is abstract.** An item is a number, a verdict is ok or not, a text is a
  sequence of what the patterns tell apart, an amount a small number. `Collection`
  is told of a connector how it behaves: its targets, whether a failed request
  skips a target (`etherscan.ts`, `github.ts`, `reddit.ts`) or fails the run
  (`rss.ts`), and whether it emits records without events; `Connectors` has what
  each really emits. An item carries any date: it may tie with others, appear long
  after it, or be dated ahead of its appearance.
- **Pure services** are operators. Their properties are operators too, over an
  input, and the run of `MCServices` evaluates them at every input of a bounded set,
  which is the set of the initial states. `Stored` in `Services` says what the program
  can ask: the rules that `alertRuleSchema` admits, signals of the types their rows
  have, numbers on their scales. Every input of the run satisfies it (`InputsAreStored`). Each compares a service with a reference, with
  itself on a related input (a rule on a stronger signal, a batch with one request
  failed, a text at an earlier poll), or with what a consumer assumes of it.
- **Time** is a counter. In `RateLimiter` a caller reads it with an error of up to
  `Slack`, because processes' clocks differ and a reading takes time to reach Redis;
  tokens are counted in the time they take to refill, so no fractions are needed.
- **Ghosts** are named as such: `era` and `strays` in `HttpClient`, `delay` and
  `runNows` in `Scheduler`, `firings`, `attempts` and `lost` in `AlertEngine`,
  `broken` and `missed` in `Enrichment`, `created`, `dropped` and `late` in `Collection`,
  `spent`, `given`, `rewound` and `opened` in `RateLimiter`, `orphans`, `starved` and `deaf` in
  `RealtimeBus`, `base` in `Dashboard`, `seen` in `Roster`, `lost` in `Listings`,
  `disturbed` in `Clustering`. No guard of the code depends on them. `runNows`,
  `given` and `rewound` also carry the bounds `MaxRunNows`, `MaxGiven` and
  `MaxRewound`.
- **Mutants.** An operator commented as a mutant is not part of any
  specification. It is the definition next to it with a plausible bug, and
  shows that a property can fail: with it in place TLC refutes the property
  named in `PROJECT.json`.

How the modules fit: `Scheduler` implements `Polling`, which is all that `Worker`
knows of it and which is why `Collection` gives each replica one runner;
`Collection` says which events are reported as created, which is where
`Enrichment`'s `Insert` starts and what `Clustering` is called with; `Enrichment`
ends where `alerts.process` begins, which is `AlertEngine`, with `AlertRules` for
which rule matches and what it is asked about; `HttpClient` is
under every `Fetch`, as an answer or a failure, `RateLimiter` is its
`AcquirePermit`, and `Cache` stands before both. `RealtimeBus` carries what
`Collection` and `AlertEngine` publish, `LiveStream` is its other end, and a frame
is `Dashboard`'s `OnEvent`, or lost (redis.ts:88). Its pages show the clusters that
`Clustering` sets.

## 3. What the runs show

Passing runs; the bounds are the cfg's, the state counts are of one run each.

| Run | Shows | Instance |
| --- | --- | --- |
| `http` | Trials are bounded by probe plus late reports; the cooldown only escalates; calls return; a healthy provider's circuit closes again; what a failing collector polls is stored in the end | 2 calls, thresholds 2, cooldown 1 doubling to the cap, limiter may throw; 1 collector, 3 items; 56 k states |
| `scheduler` | The scheduler implements `Polling`; it polls for ever, no setting takes it below its cadence and only the backoff's cap does, forks its chain only by runNow, is quiet after stop; the process stops in order; what dispose has yet to come to holds nothing that it has taken | 3 invocations, 4 timers, 2 runNow calls, a cadence below the backoff's cap and one above it; a boot and its jobs; every graph of two singletons and a transient with and without a disposer on the second, and the production one with its own; 555 k states |
| `alerts` | The engine implements `Delivery`; claims are spaced; rows agree with history; pools overlap only behind a throw; no event in two hands of a pool; verdicts miss their alerts only where a worker throws | 2 processors, cooldown 0 or 1, edits, deletion, crashes; 2 events, 2 pools of 2 workers, batch 2; 648 k states |
| `enrichment_backlog` | Healthy events are judged in spite of poison and of passes that break off | 3 events, the poison one first, pools of 1; 20 k states |
| `collection` | No gaps at or below the mark but items that appeared too late for it; records match; what was created is handled or went down with its run; in any window the limiter grants no more than bucket, refill, reconfiguration and twice-credited time | 2 replicas, 3 items of any of 2 dates, skips and crashes; 2 callers, a bucket of 2 permits, readings 1 off; 4.0 M states |
| `realtime` | Subscribers are fed unless torn down or starved; leavers clean up and leave nothing behind; callers of a cache share their flights and all return | 3 streams on a channel, SUBSCRIBE may fail; 2 callers of either cache; 160 k states |
| `dashboard` | No row twice, no hole, the end is reached; the stream comes back; the console shows what was said and never hangs; results move forward | 4 events, pages of 2; 2 questions of up to 3 tokens; 3 texts in the palette; 60 k states |
| `services` | Every pure service and query, at every input of its set; stories stay apart and together; the roster; the listings | see `MCServices`: 5 reports, 3 coins, 2 replicas, some 147 k inputs; 308 k states |

The properties of `services` are conjunctions by theme, so that a reader finds one
name for each question; each conjunct is stated, with a comment of its own, in the
module of its service: `ServicesSound` (rules and the worker's signals; scores,
sentiment, matching and the model's verdict; what a failed request takes of a
connector's batch), `QueriesSound` (retrieval, citations, reports, aggregates),
`AnswersReadBack` (symbols, timestamps, identifiers, feeds, JSON, and what a
connector makes of several answers).

`ImplementsDelivery` is the alert runtime's contract without batches, rows or
awaits. A firing is owed from the claim until the last channel's record, so a
second holder, a send after the holder is gone, a record before every channel was
tried, or a firing that is neither held, lost nor on record is a step `Delivery` does not
have. `FiringsAccounted` in `AlertEngine`, which the proof of it rests on, says the
same of states: who holds a firing, with whom it is lost, and what is on record of
one that nobody holds.

Violation runs: each takes a sentence of the docs or of a comment as its one
property and TLC finds a behaviour of the code that breaks it. Each is a finding
in `PROJECT.json` with the sentence it quotes.

| Run | The sentence | What happens |
| --- | --- | --- |
| `enrich_verdict` | the baseline is what "the enricher later refines" | the baseline is written over the verdict |
| `collect_gap_targets` | "resumes without gaps" | the mark of a later-asked target covers an earlier one's new item |
| `collect_zip` | records "zipped by position" | records without events shift the zip |
| `probe_leak` | the flag is "True while a HALF_OPEN trial request is in flight" (circuit-breaker.ts:37) | the limiter throws after the admission (http-client.ts:121): the flag stays set, the provider is refused until a late report or a restart |

Other sentences the models contradict, stated here and not run: the passing
properties are worded to say what holds instead.

*Providers and polling*

- circuit-breaker.ts:82 "admits exactly one probe at a time": a call admitted
  before the circuit opened releases the gate when it reports (circuit-breaker.ts:106,
  :129). `TrialsBounded` counts such reports.
- docs/ARCHITECTURE.md:375 "retries count toward opening it": a request is
  reported once, after its retries (http-client.ts:173).
- rate-limiter.ts:106, the script makes the limit not drift: it stores the caller's
  clock though it runs behind the stored one (rate-limiter.ts:134; the limiter
  in memory does not, :68), so the time in between is credited twice.
  `GrantsBounded` counts it as `rewound`.
- cache.ts:9: the single flight is for collectors asking the same URL, but the HTTP
  client uses `get` and `set`, not `remember`, so concurrent misses all go upstream.
  A flight may store its value after a `del` or `invalidate`, and a `null` is never
  a hit.
- scheduler.ts:35 "consecutive failures push the next attempt out": the backoff is
  capped at ten minutes with no floor (scheduler.ts:312), and DefiLlama declares
  fifteen (connectors/src/market/dex.ts:214), so it is asked sooner after a failure.
  `CadenceFloor` has cadences on both sides of the cap and says that the cap is as
  low as it gets.
- docs/ARCHITECTURE.md:212, each connector has one timer: a runNow between the
  clearing of `running` (scheduler.ts:263) and the next timer forks the chain.
  `ChainsBounded` counts runNow calls; today only a test makes one.
- main.ts:322, `protect` skips a report whose predecessor is going: the callbacks
  return at once, so `protect` never sees one. After the first signal a second one
  is ignored (main.ts:389), and a `db.$disconnect` that rejects leaves the process
  up: `ShutdownEnds`, a half of `StopEnds`, calls it "stuck". An abort during an enrichment pass is not
  heard by the rest that follows.
- container.ts:119 "so a dependency outlives its dependents": of the singletons that
  main.ts registers, the cache, the limiter and the breaker have no disposer
  (main.ts:79-96). `dispose` passes over them (container.ts:127): they outlive the
  Redis client they hold and stay resolvable. `DependenciesOutlive` says what holds,
  of what dispose has yet to come to, and that nothing with a disposer is left
  behind; `Leftovers` are the others.
- dex.ts:143 "Deepest pool wins" holds within one request of thirty addresses; of
  several protocols with one gecko id any may be a coin's latest tokenomics. A
  releases request that fails counts as no releases (github.ts), and a base
  that ends in T, B or FD before USD is read as quoted in TUSD, BUSD or FDUSD.
- base.ts:180 "the two must agree": the search sees every active coin, a
  connector the tracked ones.
- snapshot.ts:162: a proposal is an event once, whatever becomes of it later.
  rss.ts:289: an item without id, url and date is stored again at each poll.

*Ingestion and enrichment*

- docs/DEPLOYMENT.md:344 "resumes without gaps", again, of one request: the connectors
  skip what is dated at or below the mark (rss.ts:294, etherscan.ts:191, github.ts:198),
  and dates are whole seconds or days. An item that appears late, ties with the
  mark, or follows one dated ahead (rss.ts:300 accepts an hour) is never stored.
  `NoGaps` names these, as `late` (`TooLate`), and says that nothing else is missing.
- docs/ARCHITECTURE.md:160 "`created` is exact": two replicas may both report an event.
  `CreatedPerReplica` is what is left.
- docs/ARCHITECTURE.md:165, a story's rows share a `clusterId`: a run that fails behind
  `createMany` leaves its events unclustered. `CreatedAreHandled` names them.
- dedupe.ts:352 "the earliest report seeds the cluster" needs reports in the order
  of their hours and all of them candidates, which `StoriesTogether` assumes.
- ingestion.ts:175 "new ones are listings, which are themselves events": no event
  is made. On the first boot every pair becomes a listing, and a crash between a
  pair and its listing loses it: `ListingsDated` names those.
- enrichment.ts:16 "Concurrency is bounded by `LLM_CONCURRENCY`": one throw frees the
  loop while its pool goes on. `PoolsApart` says when pools overlap.
- enrichment.ts:176 "rather than retrying forever": an event whose embedding has the
  wrong dimension is listed again by the next backfill.
- sentiment.ts:239, the reconciliation exists to catch a disclosure that keeps "a
  model's bullish verdict": terms of both signs may average to a lexicon mild enough
  for the verdict to stay. `BadNewsStaysBad` is about bad terms only.
- identifiers.ts:253 "leave case-sensitive base58 untouched": only Solana's is. Tron's
  and legacy Bitcoin's addresses, and any base58 named under a chain of another
  format, are lower-cased (:257), and an L among its letters becomes the l that no base58 pattern
  takes, so `chain:address` may be read as a symbol of that chain.
  `CandidatesReadBack` allows just this, and no other contract.
- coin-matcher.ts:465-468: a coin's aliases are tried in the order of its list, and the
  first that occurs counts (:538-559). So a text that goes on may move an alias match
  to a later position, and a coin of the same confidence goes first.
  `PrimaryIsStable` calls this `Overtaken`.

*Alerts*

- docs/ARCHITECTURE.md:359 "one notification rather than forty": the claim uses the
  time its batch began (alerts.ts:52, :138), so two can go out closer together on
  the clock than the cooldown. `SpacedFirings` is about the claims' own times.
- docs/ARCHITECTURE.md:361 "each attempt is recorded": the rows follow the sends and
  nothing repeats them. `Delivery` has a firing owed or lost, and `FiringsAccounted`
  says with whom.
- docs/API.md:499 "Past `AlertTrigger` rows are retained" by DELETE: the foreign key
  cascades (schema.prisma:899).
- alert-engine.ts:77 has rules for eleven kinds of signal, and the worker builds
  three: market, unlock and event (alerts.ts:190, :216; enrichment.ts:122). Rules about
  exchange listings, sentiment, social velocity, releases, whales, governance,
  funding and authors never fire. A rule's `leadTimeHours`
  and `windowMinutes` are read by its texts only (alert-engine.ts:142, :353): the worker
  looks back an hour and ahead two days for every rule (alerts.ts:194, :220).

*Web*

- redis.ts:71 "One subscriber connection per channel, with its handler set": the handler
  goes into the set after SUBSCRIBE is awaited (redis.ts:124, :127), when a stream
  that joined and left may have torn the connection down. `SubscribersFed` calls these
  `orphans`. When SUBSCRIBE throws, the entry stays in the map and later streams join a
  connection that nothing subscribed, though docs/DEPLOYMENT.md:33 has a lost
  Redis cost "a cold cache". `SubscribersFed` names those on it `starved`, and says that nobody
  starves otherwise and that the next subscriber behind the last of them is fed again;
  `ListedAreUsed` allows the entry as "broken".
- stream/route.ts:38 "The client vanished between the closed check and the enqueue":
  the failed send sets `closed`, and the cleanup that would unsubscribe returns
  at its first line (route.ts:71). An abort before the listener is attached
  (route.ts:84) is not heard either. `LeaversCleanUp`, a half of
  `NobodyWaitsForever`, calls both `deaf`.
- event-repository.ts:180: from the second page on the cursor's OR replaces the text
  query's, so pages hold rows that the query would not admit. `NoHoles` says that
  none is missing. A story may show again on a later page (:210). The timeline
  route drops a value it does not know where its comment wants a 400.
- terminal.tsx: an answer for older filters may arrive last and stay; `NoHoles`
  excludes the list that got one.
- llm.ts: a stream the model ends early is reported as `done`, and a panel that is
  closed does not stop the generation. `FinishedMeansWhole` is about lines the
  server did read.
- command-palette.tsx: a coin that left the watchlist is still `tracked` and choosing
  it does not add it again; an import that ends closes a palette opened since.
- content-repository.ts:147: the baseline of mentions is read before the current
  window is stored, so `slice(1)` drops the newest of the earlier ones.
- use-live-stream.ts: until a first frame comes, the watchdog replaces the
  connection at each of its periods.

**Why the bounds are enough.** They are the smallest at which the hazard can
happen, plus one where it was affordable. Two calls give a probe and a late report
and, the reporter calling again, a second trial; three invocations and two runNow
calls give a chain that forks twice, and four timers one more than those chains can
hold; two processors and two firings give a stale and a fresh claim, and the horizon
exceeds the cooldown; three items of two dates and two replicas give an older item, a
mark and a newer one or a tie, with one replica behind, and an item that appears too late
for a mark, or for one that a run holds; a cadence below and one above the cap lie on
both sides of what the backoff can do; three events in batches of two leave one
waiting behind a poison event, and two pools of two over two events let one outlive its
pass and judge what the next judges.
A bucket of two permits and a time to live shorter than the horizon give an entry
that is drained, expires and is refilled; a third stream is what a torn-down
connection needs to take a second one with it. Two callers and one place in the
store give a shared flight, an expiry and an eviction. Four events in pages of two,
two of them at one moment and three of one story, give a tie at a page's end and a
cluster that spans pages. Five reports over four hours, a window of two and three
candidates give a late report, a chain of likeness and a report that is no
candidate. The graphs of two singletons and a transient have every cycle and every
order of creation, and of the two singletons one has a disposer, or both. Two words under aliases of two
places give an alias that overtakes. The inputs of a pure service hold a value on each side of each of
its thresholds and the value itself. Streams on different channels share
nothing but their own loop, and two streams on two channels pass as well.
Counters that no branch reads further saturate (`FailureCap`, `MaxExponent`,
`elapsed`), and `Horizon`, `MaxFirings`, `LastItem`, `LastDate`, `Timers`, `MaxRunNows`,
`Passes`, `MaxGiven`, `MaxRewound`, `Clients`, `MaxRequests`, `MaxRefreshes`,
`MaxQuestions`, `MaxKeys`, `MaxFlights`, `LastMoment`, `LastHour` and `MaxPosition`
are bounds of the model, not of the code. The theorems of section 4 remove them for
the safety properties they cover. `CHECK_DEADLOCK FALSE` stands in the cfgs of
`MCScheduler`, which comes to rest after `stop` and after the exit, of `MCAlerts`, whose engine
does at the clock's horizon when its processors are done, of `MCRealtimeBus`,
where all streams may have gone, of `MCDashboard`, where nobody need ask again, and
of `MCServices`, whose inputs are states without steps.

**Fairness.** Only what the code or its environment owes is assumed fair. Armed
timers fire; an await is answered (every fetch has a timeout, every backoff a
timer, every database call returns or throws); the loops that call themselves
go round. Nobody has to call runNow, stop, edit an alert, post an item, send a
signal, or open or leave a stream; but a stream's loops go on, and a request whose
client has left has its abort event. Strong
fairness is used where an outage may interrupt again and again and "outages end":
a collector's await that is reached again and again is answered properly in the
end, so is a question to the model about an event (`Answered`: with a
verdict, or for a poison event without), a page that a reader asks for again and
again, and a connection the browser tries to open. Without these, one event on which
the database throws every time could break off every pass it heads.
`Recovers` is conditional: a provider that stays up is closed again as long as
the probe flag is always held by a call, which a limiter that throws breaks: that is
`probe_leak`. `HealthyEventsEnriched` is checked with a batch larger than the poison: as
many events that always throw as a batch holds stop all below them.
`EndReached` is of a reader who keeps asking, and of a bounded number of refreshes.
`StopEnds` assumes that a shutdown's awaits are answered, or that the database
does not let go. `AsksEnd` rests on the timeouts of llm.ts; nothing bounds the
answer's length but the model.

## 4. What is proved

TLAPS checks these for every value of the constants that satisfies the named
assumptions in the modules (`BreakerAssumption`, `ClientAssumption`,
`SchedulerAssumption`, `AlertAssumption`, `CollectionAssumption`, `EnrichmentAssumption`,
`LimiterAssumption`, `BusAssumption`, `CacheAssumption`, `ContainerAssumption`, `WorkerAssumption`,
`EventAssumption`, `DashboardAssumption`, `ConsoleAssumption`, `RosterAssumption`,
`ClusterAssumption`, `MatcherAssumption`).

- `HttpClientProofs`. `TypeCorrect`; `StatesStayConsistent`: the consistency of the
  three states is inductive with the types. `TrialsStayBounded` needs more: at
  every release of the gate either the reporting call was a trial, and leaves
  the set, or it was a stray, and is counted; the lemmas about cardinalities of
  the set of trials carry it. `CooldownOnlyEscalates` is read off
  `AfterSuccess` and `AfterFailure`.
- `SchedulerProofs`. `RunsNeverOverlap`: `NoOverlap` is inductive in the form "running
  iff some invocation is inside the try block, and no two are".
  `ConnectorsNeverForgotten` needs that the boot phase, the listing and the stop flag
  agree. `DeclaredCadenceIsAFloor` is for every cadence and every cap: the larger of
  setting and declaration doubles until the cap cuts it off, so a delay is below the
  declaration only where the cap is, and then is the cap. `ChainsStayBounded` counts: a timer
  that fires becomes at most one invocation, an invocation that ends arms at most
  one timer, and a skipped tick arms none, so only runNow adds one.
  `SchedulerImplementsPolling` is the refinement: under the mapping `phase <- Phase`,
  `active <- Collecting` (the invocations inside the try block) the tick that takes the
  flag is `Begin`, the finally block is `End`, the end of start is `Open`, stop is
  `Halt`, and every other step stutters. `NoOverlap` gives `Begin` its guard and `End`
  its only run, and `NothingBeforeStart` puts every timer inside the open phase.
- `SchedulerProofs`, the container. `InstancesHoldUp` is for every graph, cyclic ones and
  ones whose factories throw too. `DependenciesOutlive` says nothing of the resolves under
  way, so `ContainerInv` adds them: what a factory on the stack needs is built, held
  by a transient, still left to it, or being built right above it (`StackReady`), and every
  beginning of `#created` is complete in itself, but for what an earlier disposal
  passed over (`Leftovers`): a singleton without a disposer, which resolve still hands out.
  A factory on top with nothing left is then complete when it returns, and a disposal
  from the end has a beginning yet to come to (`Awaiting`).
- `SchedulerProofs`, the worker. `WorkerStopsInOrder` needs `StopSound`: once stopping, main
  was running, no timer is set and the collectors are not open; a disposal that has gone
  through everything has emptied `#created`, so with `DisposalSound` nothing that has a disposer is
  left when the database goes. `WorkerInstancesHoldUp` lifts the container's invariant to the process.
- `EnrichmentProofs`. `TypeCorrect` with `HandsFull`: a worker that is busy holds an event,
  without which the verdict it stores has no type. `PoolsStaySound` adds `OneAwait`,
  that the loop awaits the pool it started last, so a pool that is alive and not the
  current one was left by a throw; and that what a worker takes leaves the queue in
  the same step. `VerdictsAlwaysReachAlerts` follows the one worker that stored the
  verdict: at its next await it holds the event still, evaluates, or throws.
- `AlertEngineProofs`. `RowsTellTheHistory` is the heart: the row's last and count equal
  what the firings say, whoever claimed. From it `FiringsAreSpaced`
  follows: a claim under a cooldown passes the conditional update, so it lies
  more than its cooldown above the last firing, and the claims before it are no
  later than that one as long as none of them had cooldown 0. `FiringsAreAccounted`
  strengthens `FiringsAccounted` by what a holder has done at each await (`HandsInv`:
  past the dispatch every channel was tried, past the records every row written), and
  by the history only growing (`Monotone`): nobody comes to hold a firing that
  is already there, and whoever lets go of one has delivered or lost it.
- `AlertEngineProofs`, the refinement. `EngineImplementsDelivery` maps what is owed to the
  firings of the processors between their claim and their last record (`Owed`), and
  what is gone to the rows that are (`Gone`). `ClaimWon` is `Fire`: `RowsTellTheHistory`
  turns the row's `lastTriggeredAt` into the last entry of the history, which is all that
  `OffCooldown` knows, and `FiringsAreAccounted` keeps the new firing from being one
  that somebody owes. A sending step is `Send`, a recording step `Record` since
  `HandsInv` has every channel tried by then, a throw behind the claim is `Lose`, a
  deletion `Delete`; the rest stutters (`OtherStepsStutter`).
- `CollectionProofs`. `MarkNeverRunsAhead`, for any replicas, targets and failures: what
  a runner holds past the insert is stored, so any mark it sets is a stored
  date. `RecordsNeverShift`: if records and events are the same set, position i of
  one is position i of the other, so a link is 0 or the item itself.
  `OneRequestLeavesNoGaps` assumes `OneRequest`, that a poll is one request whose records
  have events, and nothing of the dates. It strengthens `NoGaps` by what
  a runner knows at each await: its batch is everything above the mark it read
  that had appeared when it asked, and every item dated up to its `since` is stored with
  its record, every one dated up to its newest event is that or in the batch, or is `late`. `CreatedAlwaysHandled`
  is inductive with the types: an event leaves a run's hands clustered and published,
  or dropped with the run.
- `CollectionProofs`, the limiter. `GrantsStayBounded` balances the books at the bucket's own
  clock: what was spent and what is left never exceed a full bucket, what was
  given, and the time from the window's opening to the last stored reading, plus what
  was rewound. Stored readings are never more than `Slack` ahead, which turns the
  bucket's clock into the time. An expired entry gives nothing because
  `Margin >= 2 * Slack`: by the time it expires, it would be full.
- `RealtimeBusProofs`. `BusInv` adds to the four properties what each waiting stream
  knows (`WaitsOK`): a stream whose SUBSCRIBE is out waits alone for a connection that
  is still subscribing or already closing, one that tears a connection down
  waits alone for a closing one, and cleanup runs only behind `closed`; and that a
  handler on a listed connection has its unsubscriber (`HandlersOK`). `SubscribersFed` follows with
  `SubscribersListed` and `StarvedNamed`: whoever is on the listed connection is starved
  exactly if it is broken. The heart is
  `UnsubscribeKeeps`: the entry an unsubscriber finds need not be the one it
  subscribed with, and still nobody else's handler goes.
- `RealtimeBusProofs`, the caches. `FlightsStayShared` needs, beside itself, that a caller on
  its way has a key and one that does not await waits for nobody (`CallsSound`): without it
  a flight that lands could let go a caller of another flight. `LandKeeps` is the heart:
  who waits for c waits for a flight that c shares, and all of them return with it.
- `DashboardProofs`. First the query: `Newer` is a strict total order whatever dates are
  equal, so every place is taken once (`PlacesTaken`, by cardinality), a page has the rows
  down to its cursor (`PageCovers`), and collapsing leaves a row for each
  (`CollapseRepresents`). `DashInv` then adds to `NoDuplicateRows` and `NoHoles` what the
  queries in flight know: an answer represents what was stored when it was given
  (`AnswerSound`), at most one next page is out (`OneNextPage`, which is `loadingMore`), and it
  goes on at the list's cursor unless the list was replaced meanwhile (`QuerySound`). Down to
  the old cursor the list had no hole, below it the page has none: `AppendedKeeps`.
  `ResultsAlwaysMoveForward`: only a search for the text on screen is not cancelled.
- `DashboardProofs`, the console. A reader that keeps its partial line completes in every
  chunk exactly the lines that follow those it has (`ReadsOn`), and what is picked from a
  wire at some places and then at later ones is what is picked at all of them
  (`PickedAppends`). So the words on the route's wire are always those of the lines that
  were read of the model's (`ServerSound`, by `HeardWords` and `ChunkOfWords`, which also says
  that nothing behind a `[DONE]` passes), and the panel has heard a beginning of them
  (`PanelSound`). `AnswersStayFaithful` composes the two; that a broken answer never looks
  finished needs that a route that breaks off tells the panel, or turned it away.
- `SchedulerProofs`, the roster. `RosterStaysSound` rests on `RankProperties`: in a finite set
  under a strict order as many elements precede p as p's place says, so the polled coins are
  the first of the order (`FirstOf`). `ReadBounds` is the invariant an add rests on: what a
  request saw and nobody moved stands at or before the position it read.
- `SchedulerProofs`, the clusters. `StoriesStayApart` follows reports, not ids: every id that
  was written or is about to be is that of a report no union of stories separates it from
  (`ClustersSeeded`). `StoriesStayTogether` compares the passes of different ingestions: as long
  as nothing is late, the candidates of an earlier pass are a beginning of those of a later
  one (`OldOnesFirst`), and a pass places the reports of a beginning where it would place them
  alone (`BatchExtends`), so all that was written agrees with the one pass over everything. The
  pass is a recursive function; `UpTo` is the induction over its length, by the least
  number at which it would fail.
- `SchedulerProofs`, the listings. `ListingsStayDated` rests on `RowsBehind`: rows are never deleted, and
  what a replica has looked up or found new has one; so a pair without a row is
  unknown to every replica, and whoever makes the row finds the pair new and holds
  it until it is listed or the run ends. `StartsEmpty` keeps the next look-up from
  dropping what an earlier run held.
- `ServicesProofs`. `ServicesAlwaysSound`: as long as the services are asked only what
  `Stored` admits, `ServicesSound` holds: of every rule, signal, text, score input and
  provider answer, not only of those the run enumerates. Beside `Stored` it assumes that
  null is no number (`None \notin Int`) and `MatcherAssumption`. The parts have theorems of
  their own.
  - *Rules.* `RelaxedRulesFire` goes through one relation, `Weaker`: the same type, and
    each field asks for no more. `WeakerAllows` is that an empty list means any,
    `WeakerAdmits` that a lower bound, or none, admits no less, and `WeakerFires` is one step per rule type.
    `LevelAlertsReportCrossings`: the prices of the window have a first one beyond the
    level, and the one before it is not. `QuietCoinsNeverFire` and `UnlocksAlwaysSeen` are of
    the signals the worker builds, by the latest row not after a date (`LatestExists`)
    and the checks' period.
  - *Scores.* A weighted score is two sums, and `SumOf` is a recursive function. What a sum
    keeps is proved by the least prefix at which it would fail (`LeastOf`, `SumsCompare`,
    `SumsChange`). Two scores are then compared as fractions (`QuotientsCompare`),
    which gives `UnknownsAreNeutral`, `MoreNeverLowers` and `AgreementIsRepeated` for any
    components, and with them `ImportanceAlwaysSound`, `ConfidenceAlwaysSound`,
    `TrendsAlwaysSound`, `ActivityAlwaysSound`. `NothingDominates` and `ModelAlwaysOneVoice` compute
    the model's share of a score with nothing else known.
  - *Sentiment.* A lexicon's score is on its scale (`LexiconKeepsItsScales`), and
    `VerdictsLieBetween` blends it with the model's. The terms of strong bad news sum to at
    most -80 for each (`OnesCount`, `SumsCompare`) and the strongest gives a confidence
    of at least 80 (`BadNewsReadsBad`), with which the blend is not bullish
    (`StrongBearishStands`). `MeanAlwaysBetween` compares the weighted sum with the least and the
    greatest score times the sum of the weights (`SharesLieBetween`).
  - *Matching.* `PrimaryAlwaysStable`: the first match is the one no other is before
    (`SomeMatchIsFirst`, `FirstMatch`), so it says what sorting and cutting the matches gives;
    the words of a beginning of a text say of a coin what they say of it in the whole,
    or the whole says more (`BeginningsSay`). An alias match moves only where an alias
    earlier in the coin's list comes into the text, which is the exception the property names.
  - *Batches.* `FailuresStayAlone`, by `MarketsFailAlone`, `CandlesFailAlone` and
    `RepositoriesFailAlone`: whichever requests fail, what is left and what is lost make
    up the whole.
  - Beyond `ServicesSound`, `TimestampsAlwaysReadBack` and `SupportAlwaysHelps` are two parts of
    `AnswersReadBack` for all numbers.

Only model-checked:

- the liveness properties (`CallsReturn`, `Recovers`, `PollsForever`, `StopEnds`,
  `HealthyEventsEnriched`, `EventuallyStored`, `NobodyWaitsForever`, `EndReached`, `LiveAgain`,
  `AsksEnd`), because TLAPS does not do ENABLED or liveness under fairness here;
- `QueriesSound` and `AnswersReadBack` as wholes: what `FoldLeft`, `SelectSeq` and
  `SortSeq` compute of an input is an induction over the data, out of these provers' reach
  where the definition is not a recursive function of ours. They are checked at every
  input of the sets in `MCServices`;
- that the inputs of the run are `Stored`, an assumption TLC evaluates;
- the findings' properties, which are false.

## 5. Not modelled, and why

- `Collection` takes the new events to be among the candidates of
  `listRecentForClustering` (`Clustering` does not) and a page to hold all that is new.
  A feed's item without a date is taken as of now and passes the mark (rss.ts:293), and
  one dated more than an hour ahead is skipped (rss.ts:300): neither is an item here. Upserts of wallets, aggregates and market rows are
  single statements that link to no event.
- `listPendingDeliveries` and `updateDelivery` exist but nothing calls them, so there
  is no retry of a delivery to model. Creating an alert only adds a row.
- `Scheduler.runNow` is modelled because the code offers it; today only a test
  calls it.
- `Enrichment` does not have `backfillEmbeddings`, which touches nothing that another
  part reads but search, and takes sources to be enabled.
- `RateLimiter` leaves open how long `acquire` sleeps and whether it is ever served:
  the loop is not a queue, so a caller may starve. Redis losing the key otherwise
  than by expiry is left out.
- `RealtimeBus` leaves out what is sent, `publish` and `close`, and takes ioredis to
  subscribe again after a reconnect. The bus in memory has no connections to lose.
- Similarity of headlines, regular expressions and logarithms are parameters or
  levels: `Clustering` holds for any similarity, `CoinMatcher` and `Identifiers` take a
  word by the pattern that matches it, `Scoring` a magnitude by its level.
- Etherscan's transfers, the field mapping of each connector, the registry, prompts,
  the prose of reports, plain upserts and lists of the repositories,
  `upsertProposals`, and `createScope`, which the program does not use.
- Rendering, request validation, logging, metrics and configuration decide
  nothing about order and are left out for good.

## 6. What could follow

1. `Proposals` beside `Listings`, and `backfillEmbeddings` beside `Enrichment`'s pools.
2. `Dashboard` over `Clustering` instead of any clusters, with late clusters only
   where an ingestion can give them.
3. The aggregates of `Queries` as recursive functions, for proofs as of `SumOf`.
