------------------------------ MODULE Services ------------------------------
(***************************************************************************)
(* The pure services, one input at a time: what each can be asked, and     *)
(* what is promised of its answers.                                        *)
(***************************************************************************)
EXTENDS Integers, Sequences, FiniteSets

CONSTANTS
  None, NotFinite, Negator, Plain, Missing, Unknown, Failed, InterestCap,
  Matchable,   \* the coins a text is matched against
  AmbiguousTicker, AmbiguousName, MaxMatches

Rules == INSTANCE AlertRules
Coins == INSTANCE CoinMatcher WITH Coin <- Matchable
Model == INSTANCE ModelOutput
Providers == INSTANCE Connectors

VARIABLE input   \* of a service

About(service) == input.about = service

\* 0 is no coin, and some match is asked for.
ASSUME MatcherAssumption == IsFiniteSet(Matchable) /\ Matchable \subseteq Nat \ {0} /\ MaxMatches \in Nat \ {0}

\* What a service is asked is what alert.ts, the tables and the settings admit,
\* and numbers are on their scales.
Has(i, fields, S) == \A f \in fields : f \in DOMAIN i /\ i[f] \in S
Known100 == 0..100 \union {None}
OnScale(i) ==
  /\ i.about = "importance" => /\ Has(i, Model!OptionalInputs, Known100) /\ Has(i, {"credibility", "decay"}, 0..100)
                               /\ Has(i, {"category"}, DOMAIN Model!Prior) /\ Has(i, {"doublings"}, Nat \union {None})
  /\ i.about = "confidence" => /\ Has(i, {"model"}, Known100) /\ Has(i, {"credibility"}, 0..100)
                               /\ Has(i, {"doublings"}, Nat \union {None}) /\ Has(i, {"hardData", "agree"}, BOOLEAN)
  /\ i.about = "trend" => /\ Has(i, {"velocity", "engagement"}, Known100) /\ Has(i, {"volume"}, 0..100)
                          /\ Has(i, {"mentions", "authors"}, Nat)
  /\ i.about = "development" => /\ Has(i, {"commits", "contributors", "releases", "stars"}, Known100)
                                /\ Has(i, {"days"}, Nat \union {None})
  /\ i.about = "whales" => Has(i, {"in", "out"}, Nat)
  /\ i.about = "samples" => i.samples \in Seq([score : Int, weight : Int])
  /\ i.about = "sentiment" => /\ i.tokens \in Seq(Int \union {Negator, Plain})
                              /\ i.model \in (-100..100) \union {None} /\ i.confidence \in 1..100
  /\ i.about = "verdict" => /\ Has(i.raw, {"importance", "confidence"}, Int \union {None, Missing, Unknown})
                            /\ Has(i.of, {"category"}, DOMAIN Model!Prior) /\ Has(i.of, {"credibility", "decay"}, 0..100)
                            /\ Has(i.of, {"tokens"}, Seq(Int \union {Negator, Plain}))
  /\ i.about = "coins" => /\ i.text \in Seq([form : {"cashtag", "name", "alias", "symbol"}, coins : SUBSET Matchable,
                                            place : [Matchable -> Nat]])
                          /\ i.minimum \in Int

Stored(i) ==
  /\ OnScale(i)
  /\ i.about = "rule" => Rules!IsRule(i.rule) /\ Rules!IsSignal(i.signal)
  /\ i.about = "level" => i.prices \in Seq(Int) /\ i.window \in Nat \ {0}
  /\ i.about = "signals" => /\ i.now \in Int /\ i.window \in Int
                            /\ \A q \in i.rows : q.at \in Int /\ q.at <= i.now /\ q.price \in Int
  /\ i.about = "unlocks" => /\ i.lead \in Nat /\ i.period \in 1..i.lead
                            /\ \A u \in i.unlocks : u.coin = "btc" /\ u.at \in Int /\ u.amount \in Int
                            /\ i.quote # None => i.quote.price \in Int /\ i.quote.cap \in Nat \union {None}

\* alert-engine.ts, alerts.ts: RelaxingKeepsFiring of every rule and signal,
\* LevelReportsCrossings of every course of prices, QuietCoinsStaySilent and
\* UnlocksAreSeen of the signals the worker builds.
SignalsSound ==
  /\ About("rule") => Rules!RelaxingKeepsFiring(input.rule, input.signal, {"y"})
  /\ About("level") =>
       Rules!LevelReportsCrossings([type |-> "PRICE_LEVEL", coinIds |-> {}, price |-> 2, comparator |-> input.comparator],
                                   input.prices, input.window)
  /\ About("signals") => Rules!QuietCoinsStaySilent([c \in {"btc"} |-> input.rows], input.now, input.window)
  /\ About("unlocks") =>
       Rules!UnlocksAreSeen(input.unlocks, [c \in {"btc"} |-> input.quote], input.lead, input.period)

\* scoring.ts, sentiment.ts, coin-matcher.ts, enricher.ts: the scores of every
\* input are on their scales, monotone in what is known, indifferent to what is
\* not and dominated by none; a verdict lies between the lexicon and the model,
\* bad news stays bad, and the model is one voice; and PrimaryIsStable of every
\* text.
VerdictsSound ==
  /\ About("importance") => Model!ImportanceSound(input)
  /\ About("confidence") => Model!ConfidenceSound(input)
  /\ About("trend") => Model!TrendingSound(input)
  /\ About("development") => Model!DevActivitySound(input)
  /\ About("samples") => Model!MeanBetween(input.samples)
  /\ About("whales") => Model!WhalesMirrored(input.in, input.out) /\ Model!NoInputDominates
  /\ About("sentiment") => /\ Model!VerdictBetween(input.tokens, input.model, input.confidence)
                           /\ Model!BadNewsStaysBad(input.tokens, input.model, input.confidence)
  /\ About("verdict") => Model!ModelIsOneVoice(input.raw, input.of)
  /\ About("coins") => Coins!PrimaryIsStable(input.text, input.minimum)

MarketCoins == <<[id |-> 1, symbol |-> <<"X">>, rank |-> 1], [id |-> 2, symbol |-> <<"X", "X">>, rank |-> None]>>
Candled == <<[id |-> 1], [id |-> 2], [id |-> 3]>>
Commits == <<[sha |-> "s", at |-> 1], [sha |-> "t", at |-> None]>>

\* The batches of the answers, None in place of those that `gone` says.
Unless(gone, answer) == IF gone THEN None ELSE answer
Markets(gone, interest) == Providers!BinanceBatch(MarketCoins, input.tickers, Unless(gone, input.premium), interest)
Candles(gone) == Providers!CandlesBatch(Candled, [k \in 1..3 |-> Unless(k \in gone, input.answers[k])], 2)
Repo(gone) ==
  Providers!GithubRows("repo", Unless("commits" \in gone, Commits), Unless("releases" \in gone, input.releases), 5, input.since)

\* binance.ts, candles.ts, github.ts: RequestsFailAlone, whichever of the
\* requests behind a batch fail.
FailuresTakeTheirOwn ==
  /\ About("markets") =>
       Providers!RequestsFailAlone(Markets(FALSE, <<3, 3>>), Markets(~input.answers, input.interest), Markets(input.answers, <<3, 3>>))
  /\ About("candles") =>
       Providers!RequestsFailAlone(Candles({}), Candles(input.fails), Candles((1..3) \ input.fails))
  /\ About("repo") =>
       Providers!RequestsFailAlone(Repo({}), Repo(input.fails), Repo({"commits", "releases"} \ input.fails))

\* The services of which every input is answered for by a theorem: rules and
\* signals, scores and verdicts, and the requests behind a batch.
ServicesSound == SignalsSound /\ VerdictsSound /\ FailuresTakeTheirOwn
=============================================================================
