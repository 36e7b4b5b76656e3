------------------------------ MODULE Queries ------------------------------
(* What the dashboard, the alerts and the reports read: the aggregating       *)
(* queries of market-, content-, event- and analytics-repository.ts, the      *)
(* chart route and the structured half of a report.  A table is a set of      *)
(* records of one coin unless they name it; times are in units of a query.    *)
EXTENDS Integers, Sequences, FiniteSets, FiniteSetsExt, SequencesExt

CONSTANT None

AtLeast(a, b) == IF a < b THEN b ELSE a
Total(rows, Value(_)) == MapThenSumSet(Value, rows)
Within(rows, from, to) == {row \in rows : from <= row.at /\ row.at <= to}

\* (array_agg(... ORDER BY at))[1], descending and ascending.
Latest(rows) == CHOOSE row \in rows : \A other \in rows : other.at <= row.at
Earliest(rows) == CHOOSE row \in rows : \A other \in rows : row.at <= other.at

\* GROUP BY date_bin: the rows of each bucket, counted from the first instant.
Binned(rows, width, from) ==
  LET bin(row) == from + width * ((row.at - from) \div width)
  IN  [bucket \in {bin(row) : row \in rows} |-> {row \in rows : bin(row) = bucket}]

------------------------------------------------------------------------------
\* quoteAt, the reference of a PRICE_CHANGE rule, and latestQuotes.
QuoteAt(quotes, at) ==
  LET known == {row \in quotes : row.at <= at} IN IF known = {} THEN None ELSE Latest(known).price
LatestQuote(quotes) == IF quotes = {} THEN None ELSE Latest(quotes).price

\* The last price of each bucket, the width the span over maxPoints, rounded up.
History(quotes, from, to, maxPoints) ==
  LET buckets == Binned(Within(quotes, from, to), AtLeast(1, (to - from + maxPoints - 1) \div maxPoints), from)
  IN  [bucket \in DOMAIN buckets |-> Latest(buckets[bucket]).price]

\* baselineVolume: the last known volume of each day, summed, and the days.
BaselineVolume(quotes, from, day) ==
  LET daily == Binned({row \in quotes : row.at >= from /\ row.volume # None}, day, 0)
  IN  [sum |-> Total(DOMAIN daily, LAMBDA d : Latest(daily[d]).volume), days |-> Cardinality(DOMAIN daily)]

\* rankByPriceMove: the first and the last price of the window, of coins that
\* had a price above zero at first.
PriceMove(quotes, from, to) ==
  LET seen == Within(quotes, from, to)
  IN  IF seen = {} \/ Earliest(seen).price = 0 THEN None
      ELSE [first |-> Earliest(seen).price, last |-> Latest(seen).price]

------------------------------------------------------------------------------
\* whaleFlows: by the type or the labels, so a transfer from one exchange to
\* another flows both ways.  `net` is the chart route's.
Inflow(rows) ==
  Total({row \in rows : row.type = "EXCHANGE_INFLOW" \/ row.to = "EXCHANGE"}, LAMBDA row : row.usd)
Outflow(rows) ==
  Total({row \in rows : row.type = "EXCHANGE_OUTFLOW" \/ row.from = "EXCHANGE"}, LAMBDA row : row.usd)
WhaleFlows(transfers, from, to, width, minUsd) ==
  LET buckets == Binned({row \in Within(transfers, from, to) : row.usd >= minUsd}, width, from)
  IN  [b \in DOMAIN buckets |-> [net |-> Outflow(buckets[b]) - Inflow(buckets[b]), count |-> Cardinality(buckets[b])]]

\* liquidationTotals and githubActivityHistory: a total or a count per kind.
TotalsByKind(rows, from, to, width) ==
  LET buckets == Binned(Within(rows, from, to), width, from)
  IN  [b \in DOMAIN buckets |->
        [kind \in {row.kind : row \in rows} |-> Total({row \in buckets[b] : row.kind = kind}, LAMBDA row : row.amount)]]

\* mentionBaseline: the `periods` windows before the newest stored one.
MentionBaseline(metrics, periods) ==
  LET newest == SetToSortSeq(metrics, LAMBDA a, b : a.at > b.at)
  IN  Tail(SubSeq(newest, 1, IF Len(newest) <= periods THEN Len(newest) ELSE periods + 1))

------------------------------------------------------------------------------
Rated(events, coin, from, to) == {e \in Within(events, from, to) : e.coin = coin /\ e.score # None}

\* An event counts by importance (50 until it is known) and credibility.
WeightOf(e) == (IF e.importance = None THEN 50 ELSE e.importance) * e.credibility

\* Mutant of Score: every event counts the same.
ScoreUnweighted(rated) == [num |-> Total(rated, LAMBDA e : e.score), den |-> Cardinality(rated)]

\* The weighted mean, as a fraction.
Score(rated) == [num |-> Total(rated, LAMBDA e : e.score * WeightOf(e)), den |-> Total(rated, WeightOf)]

Above(x, y) == x.num * y.den > y.num * x.den

\* rankBySentiment: coins of three or more rated events, the best first (the
\* order of equals is the database's).
RankedCoins(events, from, to) ==
  {coin \in {e.coin : e \in events} : Cardinality(Rated(events, coin, from, to)) >= 3}
RankBySentiment(events, from, to, direction, limit) ==
  LET score(coin) == Score(Rated(events, coin, from, to))
      sorted == SetToSortSeq(RankedCoins(events, from, to),
                  LAMBDA a, b : IF direction = "bullish" THEN Above(score(a), score(b)) ELSE Above(score(b), score(a)))
  IN  SubSeq(sorted, 1, IF Len(sorted) < limit THEN Len(sorted) ELSE limit)

\* topNarratives: told by two or more events, the most told first.
Telling(events, narrative) == {e \in events : narrative \in e.narratives}
TopNarratives(events, from, to, limit) ==
  LET seen == Within(events, from, to)
      told == {n \in UNION {e.narratives : e \in seen} : Cardinality(Telling(seen, n)) >= 2}
      sorted == SetToSortSeq(told, LAMBDA a, b : Cardinality(Telling(seen, a)) > Cardinality(Telling(seen, b)))
  IN  SubSeq(sorted, 1, IF Len(sorted) < limit THEN Len(sorted) ELSE limit)

------------------------------------------------------------------------------
\* connectorHealth, of the runs since an hour ago.
ConnectorHealth(runs, since) ==
  LET recent(c) == {run \in runs : run.connector = c /\ run.at >= since}
  IN  [c \in {run.connector : run \in {r \in runs : r.at >= since}} |->
        [runs |-> Cardinality(recent(c)), failures |-> Cardinality({run \in recent(c) : run.status = "FAILED"}),
         last |-> Latest(recent(c)).status]]

\* The connectors the health route and the status bar call failing.
Failing(health) == {c \in DOMAIN health : health[c].last = "FAILED"}

\* ingestionLag: percentile_cont in hundredths of the unit, the events that
\* were published and stored in the window, in this order.
Lags(stored, since) ==
  LET counted == {e \in stored : e.ingested >= since /\ e.at >= since /\ e.ingested >= e.at}
  IN  SetToSortSeq({<<e.ingested - e.at, e.id>> : e \in counted}, LAMBDA x, y : x[1] < y[1])
Percentile(lags, percent) ==
  LET place == percent * (Len(lags) - 1)
      below == lags[1 + place \div 100][1]
      above == lags[1 + (place + 99) \div 100][1]
  IN  100 * below + (place % 100) * (above - below)
IngestionLag(stored, since) ==
  LET lags == Lags(stored, since)
  IN  IF lags = <<>> THEN None
      ELSE [p50 |-> Percentile(lags, 50), p95 |-> Percentile(lags, 95), max |-> 100 * lags[Len(lags)][1]]

------------------------------------------------------------------------------
\* generate: the model's prose comes before the tables, never in their place;
\* nothing is asked about a period without events.
Prose == [rows |-> <<"prose">>]
ReportOf(events, sections, model) ==
  LET structured == IF events = 0 THEN <<>> ELSE SelectSeq(sections, LAMBDA section : section.rows # <<>>)
  IN  IF model = "answers" /\ events > 0 THEN <<Prose>> \o structured ELSE structured

\* renderDeterministicReport: five of the bullish and five of the bearish coins.
SentimentTable(bullish, bearish) ==
  SubSeq(bullish, 1, IF Len(bullish) < 5 THEN Len(bullish) ELSE 5)
    \o SubSeq(bearish, 1, IF Len(bearish) < 5 THEN Len(bearish) ELSE 5)

\* /api/chart: minutes per bucket of a range in minutes, rounded to about 200.
BucketMinutes(range) == AtLeast(1, (2 * range + 200) \div 400)
Ranges == {60, 1440, 7 * 1440, 30 * 1440, 90 * 1440}

------------------------------------------------------------------------------
\* market-repository.ts:143 and reports: a chart has at most one point more
\* than it may, the last one is the quote of the window's end, and so is the
\* last price of the window's move.
ChartsEndOnTheQuote(quotes, from, to, maxPoints) ==
  LET points == History(quotes, from, to, maxPoints)
      move == PriceMove(quotes, from, to)
  IN  /\ Cardinality(DOMAIN points) <= maxPoints + 1
      /\ DOMAIN points # {} => points[Max(DOMAIN points)] = QuoteAt(quotes, to)
      /\ move # None => move.last = QuoteAt(quotes, to)
      /\ to >= Max({0} \union {row.at : row \in quotes}) => QuoteAt(quotes, to) = LatestQuote(quotes)

\* market-repository.ts:190: a coin that is polled more often than another has
\* no other baseline than with the last poll of each day alone.
BaselineIsDaily(quotes, from, day) ==
  LET later(row, other) == other.at > row.at /\ other.at \div day = row.at \div day /\ other.volume # None
      lasts == {row \in quotes : ~\E other \in quotes : later(row, other)}
  IN  BaselineVolume(quotes, from, day) = BaselineVolume(lasts, from, day)

\* content-repository.ts:213 and the chart: however the window is cut into
\* buckets, the flows add up to the window's, and what exchanges send each
\* other is no net flow.
FlowsAddUp(transfers, from, to, width, minUsd) ==
  LET flows == WhaleFlows(transfers, from, to, width, minUsd)
      kinds == TotalsByKind({[at |-> t.at, kind |-> t.from, amount |-> t.usd] : t \in transfers}, from, to, width)
      outside == {t \in Within(transfers, from, to) : ~(t.from = "EXCHANGE" /\ t.to = "EXCHANGE") /\ t.usd >= minUsd}
  IN  /\ Total(DOMAIN flows, LAMBDA b : flows[b].net) = Outflow(outside) - Inflow(outside)
      /\ Total(DOMAIN flows, LAMBDA b : flows[b].count) = Cardinality({t \in Within(transfers, from, to) : t.usd >= minUsd})
      /\ minUsd = 0 => DOMAIN kinds = DOMAIN flows

\* analytics-repository.ts:69: a coin's score lies between those of its events,
\* an event that becomes more important draws the score towards its own, the
\* best is first, and no coin is ranked for fewer than three events.
RankingIsWeighted(events, from, to, more) ==
  LET bullish == RankBySentiment(events, from, to, "bullish", 10)
      raised(e) == (events \ {e}) \union {[e EXCEPT !.importance = more]}
      score(table, coin) == Score(Rated(table, coin, from, to))
      fraction(n) == [num |-> n, den |-> 1]
  IN  /\ \A k \in 1..Len(bullish) :
           LET rated == Rated(events, bullish[k], from, to)
           IN  /\ Cardinality(rated) >= 3
               /\ \E low, high \in rated : /\ ~Above(fraction(low.score), Score(rated))
                                           /\ ~Above(Score(rated), fraction(high.score))
               /\ ~Above(Score(rated), score(events, bullish[1]))
      /\ \A e \in events :
           LET before == score(events, e.coin)
               after == score(raised(e), e.coin)
           IN  (e.coin \in RankedCoins(events, from, to) /\ e \in Rated(events, e.coin, from, to)
                 /\ WeightOf(e) < more * e.credibility)
               => /\ Above(fraction(e.score), before) => Above(after, before)
                  /\ Above(before, fraction(e.score)) => Above(before, after)

\* analytics-repository.ts:217 and reports.ts: no narrative of the window that
\* two events tell is left out for one that fewer tell, and the two halves of
\* the sentiment table are the best of each ranking, in its order.
TopicsAreTheMostTold(events, from, to, limit) ==
  LET top == TopNarratives(events, from, to, limit)
      told(n) == Cardinality(Telling(Within(events, from, to), n))
      half(direction) == RankBySentiment(events, from, to, direction, 10)
      table == SentimentTable(half("bullish"), half("bearish"))
  IN  /\ \A n \in UNION {e.narratives : e \in events} \ Range(top) :
           told(n) < 2 \/ (Len(top) = limit /\ \A m \in Range(top) : told(m) >= told(n))
      /\ \A k \in 1..(Len(top) - 1) : told(top[k]) >= told(top[k + 1])
      /\ Range(table) = RankedCoins(events, from, to)

\* content-repository.ts:147: however high the newest window spikes, it has no
\* part in its own baseline, and no other window that is asked for is missing.
SpikesStandOut(metrics, periods) ==
  LET spike == Latest(metrics)
      calm == (metrics \ {spike}) \union {[spike EXCEPT !.mentions = 0]}
      others == Cardinality(metrics) - 1
  IN  /\ MentionBaseline(metrics, periods) = MentionBaseline(calm, periods)
      /\ Len(MentionBaseline(metrics, periods)) = IF others < periods THEN others ELSE periods

\* chart route: every range has about 200 points when the coin has all quotes.
ChartsAreReadable == \A range \in Ranges : range <= 240 * BucketMinutes(range) /\ range >= 60 * BucketMinutes(range)

\* analytics-repository.ts:337 and :395: a connector all of whose runs failed
\* is called failing, one that is called so has failures, and the percentiles
\* are in order whatever clocks say.
TelemetryIsConsistent(runs, stored, since) ==
  LET health == ConnectorHealth(runs, since)
      lag == IngestionLag(stored, since)
  IN  /\ \A c \in Failing(health) : health[c].failures >= 1
      /\ \A c \in DOMAIN health : health[c].failures = health[c].runs => c \in Failing(health)
      /\ lag # None => 0 <= lag.p50 /\ lag.p50 <= lag.p95 /\ lag.p95 <= lag.max

\* reports.ts:92: a model's outage costs the prose, never the tables, and a
\* report without events has no prose to invent.
ReportsKeepTheirTables(events, sections, model) ==
  LET report == ReportOf(events, sections, model)
  IN  /\ events > 0 => \A section \in Range(sections) : section.rows # <<>> => Contains(report, section)
      /\ Contains(report, Prose) => events > 0 /\ report[1] = Prose
=============================================================================
