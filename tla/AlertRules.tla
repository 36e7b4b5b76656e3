----------------------------- MODULE AlertRules -----------------------------
(* evaluateRule (packages/core/src/services/alert-engine.ts): whether a rule *)
(* fires on a signal; and the signals that the worker builds every few       *)
(* minutes (worker/src/alerts.ts) from what Queries finds in the tables.  A  *)
(* list of a rule is a set, case and "@" already folded; an amount is an     *)
(* integer in the unit its comments give; None is null and NotFinite is      *)
(* Infinity or NaN.  Titles, messages and the observed value are left out.   *)
EXTENDS Integers, Sequences, FiniteSets

CONSTANTS None, NotFinite

Tables == INSTANCE Queries

Absolute(x) == IF x < 0 THEN -x ELSE x

\* An empty list means any; an unknown value is in no list.
Allows(list, value) == list = {} \/ (value # None /\ value \in list)

AtLeast(value, bound) == value # None /\ value # NotFinite /\ value >= bound

Matches(change, direction) ==
  (direction = "UP" => change > 0) /\ (direction = "DOWN" => change < 0)

Beyond(value, comparator, bound) == IF comparator = "ABOVE" THEN value > bound ELSE value < bound

SignalKind(type) ==
  CASE type \in {"PRICE_CHANGE", "PRICE_LEVEL", "VOLUME_SPIKE"} -> "market"
    [] type \in {"EVENT_MATCH", "BREAKING_NEWS"} -> "event"
    [] type \in {"SENTIMENT_SHIFT", "SOCIAL_VELOCITY"} -> "social"
    [] type = "EXCHANGE_LISTING" -> "listing"
    [] type = "GITHUB_RELEASE" -> "release"
    [] type = "WHALE_TRANSFER" -> "onchain"
    [] type = "TOKEN_UNLOCK" -> "unlock"
    [] type = "GOVERNANCE_PROPOSAL" -> "governance"
    [] type = "FUNDING_RATE" -> "derivatives"
    [] type = "AUTHOR_POST" -> "socialPost"

\* pctChange is null from 0; the threshold is in percent.
PriceChange(rule, s) ==
  /\ s.reference \notin {None, 0}
  /\ Absolute(s.price - s.reference) * 100 >= rule.threshold * Absolute(s.reference)
  /\ Matches(s.price - s.reference, rule.direction)

\* A crossing, when the earlier price is known.
PriceLevel(rule, s) ==
  /\ Beyond(s.price, rule.comparator, rule.price)
  /\ s.reference # None => ~Beyond(s.reference, rule.comparator, rule.price)

VolumeSpike(rule, s) ==
  /\ s.volume # None /\ s.baseline # None
  /\ s.baseline > 0 /\ s.volume >= rule.multiplier * s.baseline

EventMatch(rule, s) ==
  /\ Allows(rule.categories, s.category) /\ Allows(rule.sourceKeys, s.sourceKey)
  /\ Allows(rule.subtypes, s.subtype) /\ Allows(rule.sentiments, s.sentiment)
  /\ Allows(rule.impacts, s.impact)
  /\ rule.minImportance # None => AtLeast(s.importance, rule.minImportance)
  /\ rule.keywords # {} => rule.keywords \intersect s.contains # {}

BreakingNews(rule, s) ==
  /\ s.category \in {"NEWS", "SECURITY", "REGULATORY", "PARTNERSHIP"}
  /\ AtLeast(s.importance, rule.minImportance)

\* The share of the circulating supply, in thousandths: the stored one, else
\* derived from the amount.
UnlockShare(s) ==
  IF s.share # None THEN s.share
  ELSE IF s.supply # None /\ s.supply > 0 THEN (s.amount * 1000) \div s.supply ELSE None

Bounded(score) == IF score > 100 THEN 100 ELSE IF score < -100 THEN -100 ELSE score

\* Sentiment is in hundredths; no shift from or to an unknown one.
SentimentShift(rule, s) ==
  /\ s.previous # None /\ s.score # None
  /\ LET delta == Bounded(s.score) - Bounded(s.previous)
     IN  Absolute(delta) >= rule.minDelta /\ Matches(delta, rule.direction)

AuthorPost(rule, s) ==
  /\ rule.verifiedOnly => s.verified
  /\ Allows(rule.handles, s.handle)

Fires(rule, s) ==
  /\ SignalKind(rule.type) = s.kind
  /\ Allows(rule.coinIds, s.coinId)
  /\ CASE rule.type = "PRICE_CHANGE"        -> PriceChange(rule, s)
       [] rule.type = "PRICE_LEVEL"         -> PriceLevel(rule, s)
       [] rule.type = "VOLUME_SPIKE"        -> VolumeSpike(rule, s)
       [] rule.type = "EVENT_MATCH"         -> EventMatch(rule, s)
       [] rule.type = "BREAKING_NEWS"       -> BreakingNews(rule, s)
       [] rule.type = "EXCHANGE_LISTING"    -> Allows(rule.venues, s.venue)
       [] rule.type = "GITHUB_RELEASE"      -> Allows(rule.repos, s.repo)
       [] rule.type = "WHALE_TRANSFER"      -> Allows(rule.types, s.type) /\ AtLeast(s.amount, rule.minUsd)
       [] rule.type = "TOKEN_UNLOCK"        -> AtLeast(UnlockShare(s), rule.minShare)
       [] rule.type = "GOVERNANCE_PROPOSAL" -> Allows(rule.states, s.state)
       [] rule.type = "SENTIMENT_SHIFT"     -> SentimentShift(rule, s)
       [] rule.type = "FUNDING_RATE"        -> s.rate # None /\ Beyond(s.rate, rule.comparator, rule.threshold)
       [] rule.type = "SOCIAL_VELOCITY"     -> Allows(rule.platforms, s.platform) /\ AtLeast(s.velocity, rule.minVelocity)
       [] rule.type = "AUTHOR_POST"         -> AuthorPost(rule, s)

\* buildMarketSignals, times in the unit of the window: coins without a quote have
\* none.  `now` is not before the newest quote; the volumes are those of Queries
\* and left out here.
MarketSignals(quotes, now, window) ==
  {[kind |-> "market", coinId |-> c, price |-> Tables!LatestQuote(quotes[c]),
    reference |-> Tables!QuoteAt(quotes[c], now - window), volume |-> None, baseline |-> None] :
     c \in {d \in DOMAIN quotes : quotes[d] # {}}}

\* buildUnlockSignals, the supply derived from market cap and price; for no
\* coins at all it would ask for the unlocks of every coin.
UnlockSignals(unlocks, coins, quote, now, lead) ==
  {[kind |-> "unlock", coinId |-> u.coin, share |-> u.share, amount |-> u.amount,
    supply |-> LET q == quote[u.coin]
               IN  IF q # None /\ q.cap # None /\ q.price > 0 THEN q.cap \div q.price ELSE None] :
     u \in {v \in Tables!Within(unlocks, now, now + lead) : coins = {} \/ v.coin \in coins}}

------------------------------------------------------------------------------
\* alertRuleSchema: the fields of a stored rule, by its type, but for the window
\* and the lead time, which only its titles and messages read.
Fields(type) ==
  {"type", "coinIds"} \union
    CASE type = "PRICE_CHANGE"        -> {"threshold", "direction"}
      [] type = "PRICE_LEVEL"         -> {"price", "comparator"}
      [] type = "VOLUME_SPIKE"        -> {"multiplier"}
      [] type = "EVENT_MATCH"         -> {"categories", "subtypes", "sourceKeys", "sentiments", "impacts",
                                          "minImportance", "keywords"}
      [] type = "BREAKING_NEWS"       -> {"minImportance"}
      [] type = "EXCHANGE_LISTING"    -> {"venues"}
      [] type = "GITHUB_RELEASE"      -> {"repos"}
      [] type = "WHALE_TRANSFER"      -> {"types", "minUsd"}
      [] type = "TOKEN_UNLOCK"        -> {"minShare"}
      [] type = "GOVERNANCE_PROPOSAL" -> {"states"}
      [] type = "SENTIMENT_SHIFT"     -> {"minDelta", "direction"}
      [] type = "FUNDING_RATE"        -> {"comparator", "threshold"}
      [] type = "SOCIAL_VELOCITY"     -> {"platforms", "minVelocity"}
      [] type = "AUTHOR_POST"         -> {"handles", "verifiedOnly"}

ListFields == {"coinIds", "categories", "subtypes", "sourceKeys", "sentiments", "impacts", "keywords",
               "venues", "repos", "types", "states", "platforms", "handles"}

\* What a field that is no list may hold: only an event rule may leave its
\* importance open, and only a funding rate may be compared with 0 or less.
Values(type, field) ==
  CASE field = "direction"     -> {"ANY", "UP", "DOWN"}
    [] field = "comparator"    -> {"ABOVE", "BELOW"}
    [] field = "verifiedOnly"  -> BOOLEAN
    [] field = "minShare"      -> 0..1000
    [] field = "minDelta"      -> 1..200
    [] field = "minImportance" -> 1..100 \union (IF type = "EVENT_MATCH" THEN {None} ELSE {})
    [] field = "threshold"     -> IF type = "FUNDING_RATE" THEN Int ELSE Nat \ {0}
    [] OTHER                   -> Nat \ {0}

Types == {"PRICE_CHANGE", "PRICE_LEVEL", "VOLUME_SPIKE", "EVENT_MATCH", "BREAKING_NEWS", "EXCHANGE_LISTING",
          "GITHUB_RELEASE", "WHALE_TRANSFER", "TOKEN_UNLOCK", "GOVERNANCE_PROPOSAL", "SENTIMENT_SHIFT",
          "FUNDING_RATE", "SOCIAL_VELOCITY", "AUTHOR_POST"}

IsRule(rule) ==
  /\ rule.type \in Types
  /\ rule = [f \in Fields(rule.type) |-> rule[f]]
  /\ \A f \in Fields(rule.type) \ (ListFields \union {"type"}) : rule[f] \in Values(rule.type, f)

\* AlertSignal: what a signal of each kind tells in numbers, None being null.
IsSignal(s) ==
  /\ s.kind = "market" => s.price \in Int /\ {s.reference, s.volume, s.baseline} \subseteq Int \union {None}
  /\ s.kind = "event"  => s.importance \in Int \union {None}
  /\ s.kind = "social" => /\ {s.score, s.previous} \subseteq Int \union {None}
                          /\ s.velocity \in Int \union {None, NotFinite}
  /\ s.kind = "onchain" => s.amount \in Int \union {None}
  /\ s.kind = "unlock" => {s.share, s.supply} \subseteq Int \union {None} /\ s.amount \in Int
  /\ s.kind = "derivatives" => s.rate \in Int \union {None}

------------------------------------------------------------------------------
Bounds == {"multiplier", "minUsd", "minShare", "minDelta", "minVelocity", "minImportance"}

\* The rules that ask for less than this one: a list emptied or lengthened, a
\* bound lowered, a restriction dropped.
Relaxed(rule, values) ==
  {[rule EXCEPT ![f] = {}] : f \in DOMAIN rule \intersect ListFields}
  \union {[rule EXCEPT ![f] = @ \union {v}] :
            f \in {g \in DOMAIN rule \intersect ListFields : rule[g] # {}}, v \in values}
  \union {[rule EXCEPT ![f] = @ - 1] : f \in {g \in DOMAIN rule \intersect Bounds : rule[g] # None}}
  \union {[rule EXCEPT ![f] = "ANY"] : f \in DOMAIN rule \intersect {"direction"}}
  \union {[rule EXCEPT ![f] = FALSE] : f \in DOMAIN rule \intersect {"verifiedOnly"}}

\* alert-engine.ts, alert.ts: a rule that asks for less fires whenever the
\* stricter one does: empty lists, nulls and thresholds agree on what "any",
\* "unknown" and "at least" mean, for all fourteen rule types.
RelaxingKeepsFiring(rule, s, values) ==
  Fires(rule, s) => \A r \in Relaxed(rule, values) : Fires(r, s)

\* The market signal of tick t, with the price of `window` ticks before.
LevelSignal(prices, t, window) ==
  [kind |-> "market", coinId |-> "btc", price |-> prices[t], volume |-> None, baseline |-> None,
   reference |-> IF t > window THEN prices[t - window] ELSE None]

\* alert-engine.ts:180: a level alert reports crossings, not a condition that
\* persists: with a known earlier price it fires only when the price came over
\* the level within the window, and always on the first tick beyond the level
\* after a window on the other side.
LevelReportsCrossings(rule, prices, window) ==
  \A t \in (window + 1)..Len(prices) :
    LET beyond(u) == Beyond(prices[u], rule.comparator, rule.price)
        fires == Fires(rule, LevelSignal(prices, t, window))
    IN  /\ fires => \E u \in (t - window + 1)..t : beyond(u) /\ ~beyond(u - 1)
        /\ beyond(t) /\ (\A u \in (t - window)..(t - 1) : ~beyond(u)) => fires

PriceRules ==
       [type : {"PRICE_CHANGE"}, coinIds : {{}}, threshold : {1, 50}, direction : {"ANY", "UP", "DOWN"}]
  \union [type : {"PRICE_LEVEL"}, coinIds : {{}}, price : {1, 2}, comparator : {"ABOVE", "BELOW"}]

\* alerts.ts, main.ts: the checks run whether or not quotes still come.  A coin
\* whose last quote is a window old, or older, fires no price rule.
QuietCoinsStaySilent(quotes, now, window) ==
  \A s \in MarketSignals(quotes, now, window), rule \in PriceRules :
    Fires(rule, s) => \E q \in quotes[s.coinId] : q.at > now - window

\* main.ts "an unlock is known days in advance": an unlock known `lead` ahead is
\* signalled by a check before it comes, if the checks are no further apart than
\* that, and with a share to compare if one is stored or can be derived.
UnlocksAreSeen(unlocks, quote, lead, period) ==
  \A u \in unlocks : u.at >= lead + period =>
    \E now \in (u.at - lead)..u.at :
      /\ now % period = 0
      /\ \E s \in UnlockSignals(unlocks, DOMAIN quote, quote, now, lead) :
           /\ s.coinId = u.coin /\ s.amount = u.amount
           /\ u.share # None \/ (quote[u.coin] # None /\ quote[u.coin].cap # None /\ quote[u.coin].price > 0)
                => UnlockShare(s) # None \/ s.supply = 0
=============================================================================
