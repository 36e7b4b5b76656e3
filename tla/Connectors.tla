----------------------------- MODULE Connectors -----------------------------
(* What the connectors make of a provider's answers (packages/connectors):    *)
(* the batch of one run, a table of rows [of, value] for each bucket, or      *)
(* Failed when the run throws and its batch is lost.  An answer is None when  *)
(* its request failed or did not have the expected shape.  Amounts are small  *)
(* numbers, None where the provider sends nothing that num() can read.        *)
EXTENDS Integers, Sequences, FiniteSets, FiniteSetsExt, SequencesExt

CONSTANTS None, Failed, InterestCap

------------------------------------------------------------------------------
\* splitSymbol: a base and a quote, over pieces of a symbol.  USDT, USDC, BUSD,
\* TUSD and FDUSD are USD with a piece before or behind it.
Quotes == {<<"USD">>, <<"USD", "T">>, <<"USD", "C">>, <<"B", "USD">>, <<"T", "USD">>, <<"FD", "USD">>, <<"DAI">>}
Letters == [USD |-> 3, T |-> 1, C |-> 1, B |-> 1, FD |-> 2, DAI |-> 3, X |-> 1]
Length(pieces) == FoldLeft(LAMBDA sum, piece : sum + Letters[piece], 0, pieces)

Split(symbol) ==
  LET fits == {q \in Quotes : IsSuffix(q, symbol) /\ q # symbol}
      quote == CHOOSE q \in fits : \A other \in fits : Length(q) >= Length(other)
  IN  IF fits = {} THEN None ELSE <<SubSeq(symbol, 1, Len(symbol) - Len(quote)), quote>>

\* indexBySymbol: of the coins with a symbol the one ranked best, the first of
\* equals; without a rank the last.
Unranked == 1000
RankOf(coin) == IF coin.rank = None THEN Unranked ELSE coin.rank
IndexBySymbol(coins, symbol) ==
  LET called == SelectSeq(coins, LAMBDA coin : coin.symbol = symbol)
      better(best, coin) == IF RankOf(coin) < RankOf(best) THEN coin ELSE best
  IN  IF called = <<>> THEN None ELSE FoldLeft(better, called[1], Tail(called)).id

\* #findByIdentifier, kind SYMBOL: any of the best ranked active coins.
FoundBySymbol(coins, symbol) ==
  LET called == {coin \in Range(coins) : coin.symbol = symbol}
  IN  {coin.id : coin \in {c \in called : \A d \in called : RankOf(c) <= RankOf(d)}}

\* parseTimestamp, of numbers, in units of 1 000 000 (1e12 ms is 2001): what
\* is larger counts milliseconds; the year must be from 2009 to two years on.
FirstDay == 1230
Timestamp(number, now) ==
  LET ms == IF number > 1000000 THEN number ELSE number * 1000
  IN  IF number <= 0 \/ ms < FirstDay * 1000 \/ ms > (now + 94) * 1000 THEN None ELSE ms

------------------------------------------------------------------------------
\* The coin of a row's symbol, and the perpetuals of the polled coins.
CoinOf(coins, row) == IF Split(row.symbol) = None THEN None ELSE IndexBySymbol(coins, Split(row.symbol)[1])
Traded(coins, tickers) == SelectSeq(tickers, LAMBDA row : CoinOf(coins, row) # None /\ row.price # None)
Perpetuals(coins, premium) == SelectSeq(premium, LAMBDA row : CoinOf(coins, row) # None)

\* The spot half throws; the futures half and each open interest, asked for the
\* first perpetuals only, may fail alone.
BinanceBatch(coins, tickers, premium, interest) ==
  LET perpetual == Perpetuals(coins, premium)
      open(k) == IF k > InterestCap \/ interest[k] = None \/ perpetual[k].price = None THEN None
                 ELSE interest[k] * perpetual[k].price
  IN  IF coins = <<>> THEN [tradingPairs |-> {}, derivatives |-> {}]
      ELSE IF tickers = None THEN Failed
      ELSE [tradingPairs |-> {[of |-> row.symbol, value |-> CoinOf(coins, row)] : row \in Range(Traded(coins, tickers))},
            derivatives |-> IF premium = None THEN {}
                            ELSE {[of |-> perpetual[k].symbol, value |-> open(k)] : k \in DOMAIN perpetual}]

\* What the answers say of the polled coins, which they call by their CoinGecko
\* id; a row without a number is none.
ByGeckoId(coins, rows) ==
  LET told(c) == {row \in rows : row.id = c.gecko /\ row.price # None}
  IN  UNION {{[of |-> c.id, value |-> row.price] : row \in told(c)} :
             c \in {d \in Range(coins) : d.gecko # None}}

\* CoinGecko: the first page that fails fails the run.
GeckoBatch(coins, pages) ==
  IF \A c \in Range(coins) : c.gecko = None THEN [marketSnapshots |-> {}]
  ELSE IF \E k \in DOMAIN pages : pages[k] = None THEN Failed
  ELSE [marketSnapshots |-> ByGeckoId(coins, UNION {Range(pages[k]) : k \in DOMAIN pages})]

\* DefiLlama: several protocols may be one coin's, and some are no coin's.
LlamaBatch(coins, protocols) ==
  IF coins = <<>> THEN [tokenomics |-> {}]
  ELSE IF protocols = None THEN Failed
  ELSE [tokenomics |-> ByGeckoId(coins, Range(protocols))]

\* Candles, of the first coins only: one without a USDT pair answers with an
\* error, which is expected.
CandlesBatch(coins, answers, cap) ==
  LET rows(k) == {[of |-> <<coins[k].id, candle.opens>>, value |-> candle.close] : candle \in Range(answers[k])}
  IN  [candles |-> UNION {rows(k) : k \in {j \in DOMAIN coins : j <= cap /\ answers[j] # None}}]

------------------------------------------------------------------------------
\* DexScreener: the coin of an address, the last one if several coins have it.
CoinAt(coins, address) ==
  LET owners == {k \in DOMAIN coins : address \in coins[k].contracts}
  IN  IF owners = {} THEN None ELSE coins[Max(owners)].id

Depth(pool) == IF pool.liquidity = None THEN 0 ELSE pool.liquidity

\* The deepest pool with a price, the first of equals.
PricePool(pools, coin) ==
  LET priced == {k \in DOMAIN pools : pools[k].coin = coin /\ pools[k].price # None}
      deepest == {k \in priced : \A j \in priced : Depth(pools[j]) <= Depth(pools[k])}
  IN  IF priced = {} THEN None ELSE pools[Min(deepest)]

\* One request of up to 30 addresses: pools of the coins asked about, as base.
DexRows(coins, pairs) ==
  LET pools == SelectSeq([k \in DOMAIN pairs |-> pairs[k] @@ [coin |-> CoinAt(coins, pairs[k].base)]],
                         LAMBDA pool : pool.coin # None)
      priced == {pool.coin : pool \in {p \in Range(pools) : p.price # None}}
  IN  [liquidityPools |-> {[of |-> pool.address, value |-> pool.price] : pool \in Range(pools)},
       marketSnapshots |-> {[of |-> coin, value |-> PricePool(pools, coin).price] : coin \in priced}]

------------------------------------------------------------------------------
\* resolveState: Snapshot says of a vote only that it is closed; choice 1 is
\* "for", and wins a draw.
ProposalState(vote) ==
  CASE vote.state = "active" -> "ACTIVE"
    [] vote.state # "closed" -> "PENDING"
    [] vote.quorum # None /\ vote.quorum > vote.total -> "FAILED"
    [] vote.scores = <<>> -> "EXPIRED"
    [] OTHER -> IF vote.scores[1] > 0 /\ \A k \in DOMAIN vote.scores : vote.scores[k] <= vote.scores[1]
                THEN "PASSED" ELSE "FAILED"

\* Reddit: every post that is neither pinned nor adult is recorded and, within
\* the hour, counted; the notable and new ones are events.
RedditRows(posts, now, hour, since) ==
  LET kept == {p \in Range(posts) : ~p.hidden /\ p.at # None}
  IN  [posts |-> {p.id : p \in kept},
       mentions |-> Cardinality({p \in kept : p.at >= now - hour}),
       events |-> {p.id : p \in {q \in kept : q.notable /\ (since = None \/ q.at > since)}}]

\* GitHub: the numbers of a repository.  Releases that could not be fetched
\* count as none in the activity score.
GithubNumbers(repo, commits, published, now) ==
  [of |-> repo, value |-> <<IF commits = None THEN None ELSE Len(commits),
                            Cardinality({r \in published : r.at >= now - 90})>>]

\* What a repository's three answers give; without the first nothing.
GithubRows(repo, commits, releases, now, since) ==
  LET published == IF releases = None THEN {} ELSE {r \in Range(releases) : ~r.draft /\ r.at # None}
      fresh == {[of |-> r.tag, value |-> r.at] : r \in {q \in published : since = None \/ q.at > since}}
      dated == IF commits = None THEN {} ELSE {c \in Range(commits) : c.at # None}
  IN  IF repo = None THEN [events |-> {}, githubActivity |-> {}, githubSnapshots |-> {}]
      ELSE [events |-> fresh,
            githubActivity |-> fresh \union {[of |-> c.sha, value |-> c.at] : c \in dated},
            githubSnapshots |-> {GithubNumbers(repo, commits, published, now)}]

------------------------------------------------------------------------------
\* parseFeed and the RSS connector: titled items above the mark and at most an
\* hour ahead, those without a date as of now.
FeedEvents(items, now, since) ==
  LET at(item) == IF item.date = None THEN now ELSE item.date
      counts(item) == /\ item.title # None
                      /\ item.date = None \/ since = None \/ item.date > since
                      /\ at(item) <= now + 1
      kept == SelectSeq(items, counts)
  IN  [k \in DOMAIN kept |-> kept[k] @@ [at |-> at(kept[k])]]

\* Mutant of Identity: the hour belongs to every item.
IdentityDated(event) ==
  <<IF event.id # None THEN event.id ELSE IF event.url # None THEN event.url ELSE event.title, event.at>>

\* computeDedupeHash: the provider's id, else the address, else the headline
\* and the hour.
Identity(event) ==
  IF event.id # None THEN <<"id", event.id>>
  ELSE IF event.url # None THEN <<"url", event.url>>
  ELSE <<"txt", event.title, event.at>>

------------------------------------------------------------------------------
\* base.ts:226: the symbol of a base and a quote is read as these, so a coin
\* never gets the market of another, unless the end of the base and the quote
\* are a longer quote together (a base in T against USD).
SymbolsReadBack(base, quote) ==
  \/ base = <<>>
  \/ \E longer \in Quotes : Length(longer) > Length(quote) /\ IsSuffix(longer, base \o quote)
  \/ Split(base \o quote) = <<base, quote>>

\* base.ts:194: a ticker means the same coin to a connector that polls all
\* coins and to the search, as long as ranks tell the coins apart.
TickersAgree(coins, symbol) ==
  LET found == FoundBySymbol(coins, symbol)
  IN  Cardinality(found) = 1 => found = {IndexBySymbol(coins, symbol)}

\* base.ts:250: seconds and milliseconds of a plausible day are the same time.
TimestampsReadBack(day, now) ==
  (FirstDay <= day /\ day <= now) => Timestamp(day, now) = Timestamp(day * 1000, now) /\ Timestamp(day, now) # None

\* dex.ts:141: of the pools of one answer no priced one is deeper than the one
\* whose price is recorded, and a coin with a priced pool has a price.
DeepestPoolWins(coins, pairs) ==
  \A k \in DOMAIN pairs :
    LET coin == CoinAt(coins, pairs[k].base)
    IN  (coin # None /\ pairs[k].price # None) =>
          \E row \in DexRows(coins, pairs).marketSnapshots :
            /\ row.of = coin
            /\ \E j \in DOMAIN pairs : /\ CoinAt(coins, pairs[j].base) = coin
                                       /\ pairs[j].price = row.value
                                       /\ Depth(pairs[j]) >= Depth(pairs[k])

\* binance.ts:187, github.ts:116: unless the run fails, a failed request takes
\* from a batch what it would have told and nothing else: a row of the smaller
\* batch is one of the whole batch, or lacks only the number that this request
\* tells, and a row that is missing is one of those that the failed requests
\* alone would have given.
RequestsFailAlone(whole, part, lost) ==
  part = Failed \/ \A table \in DOMAIN whole :
    /\ \A row \in part[table] :
         \/ row \in whole[table]
         \/ table \in {"derivatives", "githubSnapshots"} /\ \E full \in whole[table] : full.of = row.of
    /\ \A row \in whole[table] : row \in lost[table] \/ \E kept \in part[table] : kept.of = row.of

\* coingecko.ts:130, dex.ts:240: a price or a TVL is never that of another coin
\* of the same name or symbol, the order of coins and answers tells nothing, and
\* a run of several pages has all of them or fails.
CoinsKeepTheirIds(coins, pages) ==
  LET answered == SelectSeq(pages, LAMBDA page : page # None)
      rows == FlattenSeq(answered)
      batch == GeckoBatch(coins, pages)
      llama == LlamaBatch(coins, rows)
  IN  /\ batch # Failed => batch = GeckoBatch(Reverse(coins), Reverse(answered))
      /\ llama = LlamaBatch(Reverse(coins), Reverse(rows))
      /\ \A row \in llama.tokenomics : \E c \in Range(coins), r \in Range(rows) : c.id = row.of /\ r.id = c.gecko /\ r.price = row.value

\* snapshot.ts:50: one more vote for a proposal never turns it from passed to
\* anything else, and nothing that nobody voted for passes.
SupportHelps(vote) ==
  ProposalState(vote) = "PASSED" =>
    /\ vote.total > 0
    /\ ProposalState([vote EXCEPT !.scores[1] = @ + 1, !.total = @ + 1]) = "PASSED"

\* reddit.ts:158: the runner's mark is the newest event, so no post is an event
\* of two polls, whatever became notable between them; every event is a post
\* that is recorded, and no more posts are counted than recorded.
PostsAreEventsOnce(first, second, now, hour) ==
  LET before == RedditRows(first, now, hour, None)
      mark == IF before.events = {} THEN None ELSE Max({p.at : p \in {q \in Range(first) : q.id \in before.events}})
      after == RedditRows(second, now, hour, mark)
  IN  /\ before.events \intersect after.events = {}
      /\ after.events \subseteq after.posts /\ after.mentions <= Cardinality(after.posts)

\* rss.ts:287 and dedupe.ts:203: an item that has an id, an address or a date
\* is the same event at every poll that shows it above the mark, and two items
\* of a poll with different ids are two events.
FeedItemsStoredOnce(items, first, second, since) ==
  LET before == FeedEvents(items, first, since)
      after == FeedEvents(items, second, since)
      stable(e) == e.id # None \/ e.url # None \/ e.date # None
      same(e, f) == [e EXCEPT !.at = 0] = [f EXCEPT !.at = 0]
  IN  /\ \A e \in Range(before), f \in Range(after) : (stable(e) /\ same(e, f)) => Identity(e) = Identity(f)
      /\ \A e, f \in Range(after) : (e.id # f.id /\ {e.id, f.id} \cap {None} = {}) => Identity(e) # Identity(f)
      /\ \A e \in Range(before) : e.date # None => \E f \in Range(after) : same(e, f)
=============================================================================
