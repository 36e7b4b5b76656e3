----------------------------- MODULE MCServices -----------------------------
(* The pure services and queries, one bounded input at a time, and the three  *)
(* that keep state, one at a time: the clustering of stored reports, the      *)
(* watchlist and the listings.                                                *)
EXTENDS Services, Clustering, Roster, Listings, TLC

Names == INSTANCE Identifiers
Search == INSTANCE Retrieval WITH OverFetch <- 2, KeyRows <- 4, KeyEvents <- 2
Tables == INSTANCE Queries

\* The ranks of the coins of the watchlist.
MCRank == [c \in Coin |-> c]

\* Reports 1, 2, 3 and 5 are a chain of alike ones, 4 is another story.
MCOccurredAt == <<0, 1, 2, 1, 3>>
MCUrl == <<"u", Null, "v", "w", Null>>
MCHeadline == <<"lists", "listed", "trading", "hack", "trading">>
MCSimilarity(a, b) ==
  CASE a = b -> 3 [] {a, b} = {"lists", "listed"} -> 2 [] {a, b} = {"listed", "trading"} -> 1 [] OTHER -> 0

Lists == {{}, {"x"}}
Known == {"x", "y"}
Maybe == {None, "x", "y"}
Directions == {"ANY", "UP", "DOWN"}
Comparators == {"ABOVE", "BELOW"}
Of(type) == {[type |-> type, coinIds |-> ids] : ids \in Lists}
With(rules, fields) == {rule @@ field : rule \in rules, field \in fields}

MarketSignals ==
  [kind : {"market"}, coinId : Known, price : {0, 95, 110}, reference : {None, 0, 100},
   volume : {None, 0, 30}, baseline : {None, 0, 10}]
SocialSignals ==
  [kind : {"social"}, coinId : Maybe, platform : Known, score : {None, -60, 150}, previous : {None, 0, 40},
   velocity : {None, NotFinite, 2, 5}]
EventSignals ==
  [kind : {"event"}, coinId : {None, "x"}, category : {"NEWS", "x"}, sourceKey : Known, subtype : {None, "x"},
   sentiment : {None, "x"}, impact : {"y"}, importance : {None, 70, 80}, contains : {{}, {"x", "y"}}]
OtherSignals ==
       [kind : {"listing"}, coinId : Maybe, venue : Known]
  \union [kind : {"release"}, coinId : Maybe, repo : Known]
  \union [kind : {"onchain"}, coinId : Maybe, type : Known, amount : {None, 5, 9}]
  \union [kind : {"unlock"}, coinId : Known, share : {None, 0, 9}, supply : {None, 0, 1000}, amount : {4, 9}]
  \union [kind : {"governance"}, coinId : Maybe, state : Known]
  \union [kind : {"derivatives"}, coinId : Maybe, rate : {None, -1, 2}]
  \union [kind : {"socialPost"}, coinId : Maybe, verified : BOOLEAN, handle : Maybe]

MarketRules ==
       With(Of("PRICE_CHANGE"), [threshold : {5, 6}, direction : Directions])
  \union With(Of("PRICE_LEVEL"), [price : {100}, comparator : Comparators])
  \union With(Of("VOLUME_SPIKE"), [multiplier : {3, 4}])
SocialRules ==
       With(Of("SENTIMENT_SHIFT"), [minDelta : {60, 100}, direction : Directions])
  \union With(Of("SOCIAL_VELOCITY"), [platforms : Lists, minVelocity : {3}])
EventRules ==
       With(Of("EVENT_MATCH"), [categories : Lists, subtypes : Lists, sourceKeys : Lists, sentiments : Lists,
                                impacts : {{}}, minImportance : {None, 75}, keywords : Lists])
  \union With(Of("BREAKING_NEWS"), [minImportance : {75}])
OtherRules ==
       With(Of("EXCHANGE_LISTING"), [venues : Lists]) \union With(Of("GITHUB_RELEASE"), [repos : Lists])
  \union With(Of("WHALE_TRANSFER"), [types : Lists, minUsd : {6}])
  \union With(Of("TOKEN_UNLOCK"), [minShare : {5}]) \union With(Of("GOVERNANCE_PROPOSAL"), [states : Lists])
  \union With(Of("FUNDING_RATE"), [comparator : Comparators, threshold : {0}])
  \union With(Of("AUTHOR_POST"), [handles : Lists, verifiedOnly : BOOLEAN])

Sequences3(S) == UNION {[1..n -> S] : n \in 0..3}
\* Coin 1 has two aliases, which may be the first or the second of coin 2.
Words ==
  [form : {"cashtag", "name", "alias", "symbol"}, coins : {{1}, {1, 2}, {2}, {3}}, place : {<<1, 1, 1>>}]
  \union [form : {"alias"}, coins : {{1}, {1, 2}}, place : {<<2, 1, 1>>}]

\* What the services are asked, by the service.
ServiceInputs ==
       [about : {"rule"}, rule : MarketRules, signal : MarketSignals]
  \union [about : {"rule"}, rule : SocialRules, signal : SocialSignals]
  \union [about : {"rule"}, rule : EventRules, signal : EventSignals]
  \union [about : {"rule"}, rule : OtherRules, signal : OtherSignals]
  \union [about : {"level"}, comparator : Comparators, prices : [1..6 -> {1, 2, 3}], window : {1, 2}]
  \union [about : {"importance"}, category : {"SECURITY", "NEWS", "SOCIAL"}, model : {None, 0, 100},
          hint : {None, 70}, magnitude : {None, 40}, authority : {None, 80}, engagement : {None, 90},
          doublings : {None, 0, 1, 3}, credibility : {0, 50, 100}, decay : {60, 100}]
  \union [about : {"confidence"}, credibility : {0, 40, 100}, model : {None, 0, 100}, doublings : {None, 0, 1, 2, 3},
          hardData : BOOLEAN, agree : BOOLEAN]
  \union [about : {"whales"}, in : 0..20, out : 0..20]
  \union [about : {"trend"}, velocity : {None, 0, 40, 90}, volume : {0, 40, 90}, mentions : {0, 4}, authors : {0, 2, 4},
          engagement : {None, 80}]
  \union [about : {"development"}, commits : {None, 0, 80}, contributors : {None, 80}, releases : {None, 50},
          stars : {None, 99}, days : {None, 0, 7, 8, 50, 90, 91}]
  \union [about : {"samples"}, samples : Sequences3([score : {-150, -51, 0, 100}, weight : {0, 1, 3}])]
  \union [about : {"sentiment"}, tokens : Sequences3({Negator, Plain, 60, -35, -80, -95}),
          model : {None, -100, -30, 0, 25, 60, 100}, confidence : {1, 20, 90}]
  \union [about : {"coins"}, text : Sequences3(Words), minimum : {60, 75}]
  \union [about : {"identifier"}, shape : Names!Shapes,
          prefix : {None, "coingecko", "cmc", "symbol", "slug", "site"} \union DOMAIN Names!Format]

Arrangements(S) == {f \in [1..Cardinality(S) -> S] : \A a, b \in DOMAIN f : a # b => f[a] # f[b]}

\* An answer of a model: a string, alone or before another member; every escape
\* in it escapes something.
Contents == {FlattenSeq(pieces) : pieces \in UNION {[1..n -> {<<"{">>, <<"}">>, <<",">>, <<"escape", "quote">>, <<"letter">>}] : n \in 0..2}}
Quoted(content) == <<"quote">> \o content \o <<"quote">>
Objects == UNION {{<<"{">> \o Quoted(content) \o <<"}">>,
                   <<"{">> \o Quoted(content) \o <<",", "{">> \o Quoted(<<"letter">>) \o <<"}", "}">>} : content \in Contents}
ModelInputs ==
       [about : {"output"}, before : {<<>>, <<"letter">>, <<"quote">>, <<"smart">>}, object : Objects,
        after : {<<>>, <<"letter", "}">>, <<"quote", "}">>, <<"}", "quote">>}]
  \union [about : {"verdict"},
          raw : [summary : {"s", None}, importance : {None, Unknown, -5, 70, 1000}, confidence : {Unknown, 100},
                 sentiment : {"VERY_BULLISH", "BEARISH", Unknown}, category : {"SECURITY", None}],
          of : [category : {"NEWS"}, credibility : {0, 100}, decay : {100},
                tokens : UNION {[1..n -> {Negator, Plain, 60, -80, -95}] : n \in 0..2}]]

RetrievalInputs ==
       [about : {"search"}, corpus : [1..3 -> [rank : {None, 1, 3}, near : {None, 2, 9}]], limit : 1..3, vector : BOOLEAN]
  \union [about : {"cite"}, hits : UNION {Arrangements(S) : S \in SUBSET (1..3)}, present : SUBSET (1..3), later : SUBSET (1..3)]
  \union [about : {"report"}, corpus : UNION {[1..n -> [cluster : {None, "c", "d"}]] : n \in 0..6}]
  \union UNION {[about : {"embed"}, texts : [1..n -> {"a", "b", "c"}], order : Arrangements(1..n)] : n \in 1..3}

Quote(at, row) == [at |-> at, price |-> row[1], volume |-> row[2]]
Quotes == {{Quote(t, rows[t]) : t \in {u \in 0..4 : rows[u][1] # None}} :
             rows \in [0..4 -> {<<None, None>>, <<0, 3>>, <<1, None>>, <<2, 5>>}]}
Transfers == [1..3 -> {"TRANSFER", "EXCHANGE_INFLOW", "EXCHANGE_OUTFLOW"} \X {"EXCHANGE", "UNKNOWN"} \X {"EXCHANGE", "UNKNOWN"}]
RatedEvents ==
  {{[id |-> k, at |-> 0, coin |-> IF k \in {1, 5} THEN "c" ELSE "d", score |-> rows[k][1], importance |-> rows[k][2],
     credibility |-> 2 + (k % 2), narratives |-> {}] : k \in 1..5} :
   rows \in [1..5 -> ({-9, 8} \X {None, 80}) \union {<<None, None>>}]}
QueryInputs ==
       [about : {"quotes"}, rows : Quotes, from : {0, 1}, to : {3, 5}, points : {1, 3}]
  \union [about : {"flows"}, rows : Transfers, width : 1..3, least : {0, 2}]
  \union [about : {"rated"}, rows : RatedEvents]
  \union [about : {"topics"}, narratives : [1..4 -> SUBSET {"n", "m"}], score : [1..2 -> {-9, 8}], limit : {1, 3}]
  \union [about : {"mentions"}, mentions : UNION {[1..n -> {0, 7}] : n \in 1..4}, periods : 1..3]
  \union [about : {"telemetry"}, runs : [1..2 -> {"c", "d"} \X {"FAILED", "OK"}], stored : [1..2 -> (0..2) \X (0..3)]]
  \union [about : {"prose"}, events : {0, 2}, sections : [1..2 -> [rows : {<<>>, <<"row">>}]],
          model : {"absent", "fails", "answers"}]

TickerCoins == [id : {1, 2, 3}, symbol : {"s", "t"}, rank : {None, 1, 2}]
Pools == [base : {"a", "b"}, address : {"p", "q"}, price : {None, 1, 2}, liquidity : {None, 0, 5}]
Tickers == UNION {[1..n -> [symbol : {<<"X", "USD", "T">>, <<"X", "X", "USD">>, <<"C", "USD">>}, price : {None, 2}]] : n \in 0..2}
Items == [id : {None, "i", "j"}, url : {None, "u"}, title : {None, "t"}, date : {None, 1, 5}]
\* Polls of a subreddit show some of four posts, two of one moment, one undated.
Posts == {SelectSeq([k \in 1..4 |-> [id |-> k, at |-> <<1, 2, 2, None>>[k], hidden |-> k \in hidden, notable |-> k \in notable]],
                    LAMBDA post : post.id \in shown) :
            shown \in SUBSET (1..4), hidden \in {{}, {2}}, notable \in SUBSET (1..3)}
Owners == {<<[id |-> 1, contracts |-> {"a"}], [id |-> 2, contracts |-> {"a", "b"}]>>, <<[id |-> 1, contracts |-> {"a", "b"}]>>}
ProviderInputs ==
       [about : {"symbol"}, base : UNION {[1..n -> DOMAIN Providers!Letters] : n \in 0..3}, quote : Providers!Quotes]
  \union [about : {"ticker"}, coins : {t \in UNION {[1..n -> TickerCoins] : n \in 0..3} : \A j, k \in DOMAIN t : j < k => t[j].id < t[k].id}]
  \union [about : {"time"}, day : {1229, 1230, 1779, 1780, 1875}]
  \union [about : {"feed"}, items : UNION {[1..n -> Items] : n \in 0..2}, first : {1, 2}, second : {2, 3}, since : {None, 1}]
  \union [about : {"pools"}, coins : Owners, pairs : UNION {[1..n -> Pools] : n \in 0..2}]
  \union [about : {"markets"}, tickers : Tickers, premium : Tickers, answers : BOOLEAN, interest : [1..2 -> {None, 3}]]
  \union [about : {"pages"}, coins : UNION {[1..n -> [gecko : {None, "g", "h"}]] : n \in 0..2},
          pages : [1..2 -> {None} \union UNION {[1..n -> [id : {None, "g", "h"}, price : {None, 1}]] : n \in 0..1}]]
  \union [about : {"candles"}, answers : [1..3 -> {None, <<>>, <<[opens |-> 1, close |-> 5]>>}], fails : SUBSET (1..3)]
  \union [about : {"repo"}, releases : [1..2 -> [tag : {"v", "w"}, draft : BOOLEAN, at : {None, 1, 5}]],
          fails : SUBSET {"commits", "releases"}, since : {None, 1}]
  \union [about : {"proposal"}, state : {"closed", "active", "pending"}, quorum : {None, 0, 2},
          scores : UNION {[1..n -> 0..2] : n \in 0..3}]
  \union [about : {"posts"}, first : Posts, second : Posts]

SignalInputs ==
       [about : {"signals"}, now : 4..6, window : 1..3,
        rows : {{Quote(t, <<rows[t], None>>) : t \in {u \in 0..4 : rows[u] # None}} : rows \in [0..4 -> {None, 1, 3}]}]
  \union [about : {"unlocks"}, lead : 2..3, period : 1..2,
          unlocks : SUBSET [coin : {"btc"}, at : 3..6, share : {None, 3}, amount : {4}],
          quote : [cap : {None, 0, 8}, price : {0, 2}] \union {None}]

Inputs == SignalInputs \union ServiceInputs \union ModelInputs \union RetrievalInputs \union QueryInputs \union ProviderInputs

MCInit ==
  /\ input \in Inputs \union [about : {"clustering", "roster", "listings"}]
  /\ ClusterInit /\ ListingsInit
  /\ RosterInit /\ (About("roster") \/ coins = {CHOOSE c \in Coin : TRUE})

MCNext ==
  \/ About("clustering") /\ ClusterNext /\ UNCHANGED <<rosterVars, listingVars, input>>
  \/ About("roster") /\ RosterNext /\ UNCHANGED <<clusterVars, listingVars, input>>
  \/ About("listings") /\ ListingsNext /\ UNCHANGED <<clusterVars, rosterVars, input>>

MCSpec == MCInit /\ [][MCNext]_<<clusterVars, rosterVars, listingVars, input>>

\* Requests are alike; they are named as the replicas of the listings are.
Symmetry == Permutations(Request)

ASSUME InputsAreStored == \A i \in ServiceInputs \union SignalInputs \union ModelInputs : Stored(i)

\* The repositories' aggregates: what Queries says of charts, baselines, flows,
\* rankings, telemetry and reports.
TablesSound ==
  /\ About("quotes") => /\ Tables!ChartsEndOnTheQuote(input.rows, input.from, input.to, input.points)
                        /\ Tables!BaselineIsDaily(input.rows, input.from, 3)
  /\ About("flows") =>
       Tables!FlowsAddUp({[at |-> k - 1, type |-> input.rows[k][1], from |-> input.rows[k][2], to |-> input.rows[k][3], usd |-> k] :
                            k \in 1..3}, 0, 2, input.width, input.least)
  /\ About("rated") => Tables!RankingIsWeighted(input.rows, 0, 1, 90)
  /\ About("topics") =>
       Tables!TopicsAreTheMostTold({[id |-> k, at |-> 0, coin |-> IF k = 4 THEN "c" ELSE "d", score |-> input.score[1 + (k % 2)],
                                     importance |-> None, credibility |-> k, narratives |-> input.narratives[k]] : k \in 1..4},
                                   0, 1, input.limit)
  /\ About("mentions") =>
       Tables!SpikesStandOut({[at |-> k, mentions |-> input.mentions[k]] : k \in DOMAIN input.mentions}, input.periods)
  /\ About("quotes") => Tables!ChartsAreReadable
  /\ About("prose") => Tables!ReportsKeepTheirTables(input.events, input.sections, input.model)
  /\ About("telemetry") =>
       Tables!TelemetryIsConsistent({[at |-> k, connector |-> input.runs[k][1], status |-> input.runs[k][2]] : k \in 1..2},
                                    {[id |-> k, at |-> input.stored[k][1], ingested |-> input.stored[k][2]] : k \in 1..2}, 1)

\* retriever.ts, agent.ts, reports.ts, llm.ts: the better of two hits comes
\* first, a number in an answer is that of its source, a report cites the most
\* important stories, and vectors belong to their texts; and TablesSound.
QueriesSound ==
  /\ About("search") => Search!BetterComesFirst(input.corpus, input.limit, input.vector)
  /\ About("cite") => Search!CitedAsNumbered(input.hits, input.present, input.later)
  /\ About("report") => Search!ReportCitesTheTop(input.corpus)
  /\ About("embed") => Search!VectorsMatchTexts(input.texts, input.order)
  /\ TablesSound

\* What a connector makes of several answers: the deepest pool gives the price,
\* support helps a proposal, and a post is an event once.
BatchesSound ==
  /\ About("pools") => Providers!DeepestPoolWins(input.coins, input.pairs)
  /\ About("pages") =>
       Providers!CoinsKeepTheirIds([k \in DOMAIN input.coins |-> input.coins[k] @@ [id |-> k]], input.pages)
  /\ About("proposal") =>
       Providers!SupportHelps([state |-> input.state, quorum |-> input.quorum, scores |-> input.scores,
                               total |-> FoldLeft(LAMBDA sum, score : sum + score, 0, input.scores)])
  /\ About("posts") => Providers!PostsAreEventsOnce(input.first, input.second, 2, 1)

\* What a provider or a model writes is read as it was meant: symbols, tickers,
\* times, identifiers, feed items at every poll, and the object in an answer; and
\* BatchesSound.
AnswersReadBack ==
  /\ About("symbol") => Providers!SymbolsReadBack(input.base, input.quote)
  /\ About("ticker") => Providers!TickersAgree(input.coins, "s")
  /\ About("time") => Providers!TimestampsReadBack(input.day, 1780)
  /\ About("identifier") => Names!CandidatesReadBack(input.prefix, input.shape)
  /\ About("feed") => Providers!FeedItemsStoredOnce(input.items, input.first, input.second, input.since)
  /\ About("output") => Model!ReadAsWritten(input.before, input.object, input.after)
  /\ BatchesSound
=============================================================================
