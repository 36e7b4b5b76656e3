------------------------------ MODULE Scoring ------------------------------
(* The deterministic scores (packages/core/src/services/scoring.ts and       *)
(* packages/core/src/utils/math.ts).  Values are whole points of 0..100,     *)
(* weights tenths; the logarithmic normalisations, which only squeeze a      *)
(* magnitude onto the scale, are taken as levels already on it.              *)
(* And sentiment, on a scale of -100..100 hundredths                         *)
(* (packages/core/src/services/sentiment.ts): the lexicon, the five labels   *)
(* and the reconciliation of the model's verdict with the lexicon.  A text   *)
(* is a sequence of tokens; a token is a weight of the lexicon, Negator or   *)
(* Plain.                                                                    *)
EXTENDS Integers, Sequences, FiniteSets, FiniteSetsExt

CONSTANTS None, Negator, Plain

NamedPrior == [SECURITY |-> 88, REGULATORY |-> 78, EXCHANGE_LISTING |-> 76, TOKENOMICS |-> 62,
               GOVERNANCE |-> 58, WHALE |-> 60, LIQUIDATION |-> 55, ONCHAIN |-> 50, DERIVATIVES |-> 48,
               PARTNERSHIP |-> 55, NEWS |-> 50, MARKET_STRUCTURE |-> 45, DEVELOPMENT |-> 42,
               PRICE_ACTION |-> 40, MACRO |-> 45, SOCIAL |-> 30]

Prior == [category \in DOMAIN NamedPrior \union {"OTHER"} |-> IF category = "OTHER" THEN 25 ELSE NamedPrior[category]]

\* The sum of a sequence of numbers.
SumOf(terms) ==
  LET upTo[k \in 0..Len(terms)] == IF k = 0 THEN 0 ELSE upTo[k - 1] + terms[k] IN upTo[Len(terms)]

\* Components are <<value or None, weight>>; the unknown ones are dropped and
\* the other weights renormalised.  The mean is a fraction <<sum, weight>>.
WeightedScore(components) ==
  LET known(k) == components[k][1] # None
  IN  <<SumOf([k \in DOMAIN components |-> IF known(k) THEN components[k][1] * components[k][2] ELSE 0]),
        SumOf([k \in DOMAIN components |-> IF known(k) THEN components[k][2] ELSE 0])>>

Clamp(x, low, high) == IF x < low THEN low ELSE IF x > high THEN high ELSE x

\* A fraction times a percentage, clamped to 0..100 and rounded half up.
ToScore100(fraction, percent) ==
  LET sum == fraction[1] * percent
      weight == fraction[2] * 100
  IN  Clamp((2 * sum + weight) \div (2 * weight), 0, 100)

\* log2 of how many sources tell the story, saturating.
Corroboration(base, step, doublings) ==
  IF doublings = None \/ doublings = 0 THEN None ELSE Clamp(base + step * doublings, 0, 100)

ImportanceParts(i) ==
  <<<<Prior[i.category], 30>>, <<i.model, 25>>, <<i.hint, 20>>, <<i.magnitude, 20>>, <<i.authority, 12>>,
    <<i.engagement, 10>>, <<Corroboration(50, 18, i.doublings), 15>>, <<i.credibility, 15>>>>

\* decay is the recency multiplier in percent, floored at 60.
ComputeImportance(i) == Clamp(ToScore100(WeightedScore(ImportanceParts(i)), i.decay), 1, 100)

ImpactFloor == [LOW |-> 0, MEDIUM |-> 40, HIGH |-> 65, CRITICAL |-> 85]

ImportanceToImpact(score) ==
  IF score >= ImpactFloor.CRITICAL THEN "CRITICAL" ELSE IF score >= ImpactFloor.HIGH THEN "HIGH"
  ELSE IF score >= ImpactFloor.MEDIUM THEN "MEDIUM" ELSE "LOW"

ConfidenceParts(i) ==
  <<<<i.credibility, 30>>, <<i.model, 20>>, <<Corroboration(40, 20, i.doublings), 20>>,
    <<IF i.hardData THEN 95 ELSE None, 25>>>>

ComputeConfidence(i) ==
  Clamp(ToScore100(WeightedScore(ConfidenceParts(i)), IF i.agree THEN 100 ELSE 65), 1, 100)

\* Breadth and volume count as 0 without mentions, velocity and engagement are
\* dropped when unknown.
TrendParts(i) ==
  <<<<i.velocity, 40>>, <<i.volume, 20>>,
    <<IF i.mentions = 0 THEN 0 ELSE Clamp((i.authors * 100) \div i.mentions, 0, 100), 15>>, <<i.engagement, 15>>>>

ComputeTrending(i) == ToScore100(WeightedScore(TrendParts(i)), 100)

\* Freshness: full within a week, nothing after a quarter.
Freshness(days) ==
  IF days = None THEN None ELSE Clamp(100 - (IF days > 7 THEN ((days - 7) * 100) \div 83 ELSE 0), 0, 100)

ActivityParts(i) ==
  <<<<i.commits, 30>>, <<i.contributors, 30>>, <<i.releases, 20>>, <<Freshness(i.days), 25>>, <<i.stars, 10>>>>

ComputeDevActivity(i) ==
  LET base == WeightedScore(ActivityParts(i)) IN IF base[2] = 0 THEN 0 ELSE ToScore100(base, 100)

\* Flow onto exchanges is bearish; the thresholds are 15% and 50% of the gross.
WhaleSentiment(inflow, outflow) ==
  LET net == outflow - inflow
      gross == inflow + outflow
  IN  CASE net * 2 > gross    -> "VERY_BULLISH"
        [] net * 2 <= gross /\ net * 20 > gross * 3 -> "BULLISH"
        [] net * 2 < -gross   -> "VERY_BEARISH"
        [] net * 2 >= -gross /\ net * 20 < -gross * 3 -> "BEARISH"
        [] OTHER -> "NEUTRAL"

------------------------------------------------------------------------------
OptionalInputs == {"model", "hint", "magnitude", "authority", "engagement"}

\* Of the given inputs only f is known, and the rest says what the prior says.
OnlyAgreeing(i, f) ==
  [g \in DOMAIN i |->
     CASE g = f \/ g = "credibility" -> Prior[i.category]
       [] g \in (OptionalInputs \union {"doublings"}) \ {f} -> None
       [] g = "decay" -> 100
       [] OTHER -> i[g]]

\* math.ts, weightedScore: an unknown input neither adds nor drags (the score
\* without it lies between those with the input at either end of its scale),
\* more of a known one never lowers the score, and inputs that all say the same
\* are repeated by the score however few of them are known.
ImportanceSound(i) ==
  /\ ComputeImportance(i) \in 1..100
  /\ \A f \in OptionalInputs :
       LET at(value) == ComputeImportance([i EXCEPT ![f] = value])
       IN  /\ at(0) <= at(None) /\ at(None) <= at(100)
           /\ i[f] # None /\ i[f] < 100 => at(i[f]) <= at(i[f] + 1)
           /\ ComputeImportance(OnlyAgreeing(i, f)) = Prior[i.category]

\* scoring.ts:71: no input dominates: a model that is certain does not make a
\* SOCIAL item critical however credible its source, and a perfectly credible
\* source does not make a trivial one important.
NoInputDominates ==
  LET alone(category, model) ==
        [category |-> category, model |-> model, hint |-> None, magnitude |-> None, authority |-> None,
         engagement |-> None, doublings |-> None, credibility |-> 100, decay |-> 100]
  IN  /\ ImportanceToImpact(ComputeImportance(alone("SOCIAL", 100))) # "CRITICAL"
      /\ \A value \in {None} \union 0..20 :
           ImportanceToImpact(ComputeImportance(alone("OTHER", value))) \in {"LOW", "MEDIUM"}

\* scoring.ts: contradiction never raises the confidence, and neither a more
\* credible source nor, of a story told by several, one more doubling of its
\* sources lowers it.
ConfidenceSound(i) ==
  /\ ComputeConfidence(i) \in 1..100
  /\ ComputeConfidence([i EXCEPT !.agree = FALSE]) <= ComputeConfidence([i EXCEPT !.agree = TRUE])
  /\ i.credibility < 100 => ComputeConfidence(i) <= ComputeConfidence([i EXCEPT !.credibility = @ + 1])
  /\ i.doublings \notin {None, 0} =>
       ComputeConfidence(i) <= ComputeConfidence([i EXCEPT !.doublings = @ + 1])

\* scoring.ts:201 "Velocity is the dominant term on purpose": an unknown
\* velocity neither adds nor drags, more of what is known never lowers a trend,
\* the same mentions by more authors never do, and what is fast and quiet never
\* trends less than what is as loud and as slow.
TrendingSound(i) ==
  LET at(f, value) == ComputeTrending([i EXCEPT ![f] = value])
  IN  /\ ComputeTrending(i) \in 0..100
      /\ at("velocity", 0) <= at("velocity", None) /\ at("velocity", None) <= at("velocity", 100)
      /\ i.volume < 100 => ComputeTrending(i) <= at("volume", i.volume + 1)
      /\ ComputeTrending(i) <= at("authors", i.authors + 1)
      /\ (i.velocity # None /\ i.velocity >= i.volume) =>
           ComputeTrending(i) >= ComputeTrending([i EXCEPT !.velocity = i.volume, !.volume = i.velocity])

\* scoring.ts: a repository's score has no reward for what nobody could
\* fetch and none for silence: an older last commit never raises it.
DevActivitySound(i) ==
  LET at(f, value) == ComputeDevActivity([i EXCEPT ![f] = value])
  IN  /\ ComputeDevActivity(i) \in 0..100
      /\ \A f \in {"commits", "contributors", "releases", "stars"} : at(f, 0) <= at(f, None) /\ at(f, None) <= at(f, 100)
      /\ i.days # None => at("days", i.days + 1) <= ComputeDevActivity(i)

Mirror == [VERY_BULLISH |-> "VERY_BEARISH", BULLISH |-> "BEARISH", NEUTRAL |-> "NEUTRAL",
           BEARISH |-> "BULLISH", VERY_BEARISH |-> "VERY_BULLISH"]

\* scoring.ts: what flows in and what flows out are judged alike.
WhalesMirrored(in, out) == WhaleSentiment(out, in) = Mirror[WhaleSentiment(in, out)]

------------------------------------------------------------------------------
(* Sentiment. *)

Magnitude(x) == IF x < 0 THEN -x ELSE x
Sign(x) == IF x < 0 THEN -1 ELSE IF x > 0 THEN 1 ELSE 0

Anchor == [VERY_BULLISH |-> 100, BULLISH |-> 50, NEUTRAL |-> 0, BEARISH |-> -50, VERY_BEARISH |-> -100]

\* Halfway between the anchors, ties to the more extreme label.
ScoreToSentiment(score) ==
  CASE score >= 75 -> "VERY_BULLISH"
    [] score >= 25 /\ score < 75 -> "BULLISH"
    [] score > -25 /\ score < 25 -> "NEUTRAL"
    [] score > -75 /\ score <= -25 -> "BEARISH"
    [] score <= -75 -> "VERY_BEARISH"

\* Samples are [score, weight]; no sample with weight says nothing, not 0.
AggregateSentiment(samples) ==
  LET counts(k) == samples[k].weight > 0
      weighted == SumOf([k \in DOMAIN samples |->
                          IF counts(k) THEN Clamp(samples[k].score, -100, 100) * samples[k].weight ELSE 0])
      total == SumOf([k \in DOMAIN samples |-> IF counts(k) THEN samples[k].weight ELSE 0])
  IN  IF total = 0 THEN None ELSE weighted \div total

Negated(tokens, i) == \E j \in (IF i > 3 THEN i - 3 ELSE 1)..(i - 1) : tokens[j] = Negator

\* The terms of the lexicon in a text, and what they weigh in all: a negator
\* among the three tokens before turns one round.
Hits(tokens) == {i \in DOMAIN tokens : tokens[i] \notin {Negator, Plain}}
Weighed(tokens) ==
  SumOf([i \in DOMAIN tokens |-> CASE i \notin Hits(tokens) -> 0
                                  [] i \in Hits(tokens) /\ Negated(tokens, i) -> -tokens[i]
                                  [] OTHER -> tokens[i]])

\* Mutant of ClassifyWithLexicon: breadth alone makes confidence.
ClassifyWithLexiconBroad(tokens) ==
  LET found == Cardinality(Hits(tokens))
  IN  IF found = 0 THEN [score |-> 0, confidence |-> 0]
      ELSE [score |-> Clamp(Weighed(tokens) \div found, -100, 100), confidence |-> Clamp(25 * found, 0, 100)]

\* The mean of the weights found; confidence is in the number of terms (four
\* are plenty) or in the weight of the strongest.  A phrase is one token
\* nothing negates and is counted with the words.
ClassifyWithLexicon(tokens) ==
  LET found == Cardinality(Hits(tokens))
      strongest == Max({Magnitude(tokens[i]) : i \in Hits(tokens)})
  IN  IF found = 0 THEN [score |-> 0, confidence |-> 0]
      ELSE [score |-> Clamp(Weighed(tokens) \div found, -100, 100),
            confidence |-> Clamp(IF 25 * found > strongest THEN 25 * found ELSE strongest, 0, 100)]

\* The verdict of the model, None without one, with a confidence of 1..100.  A
\* wide gap to the other side of neutral moves it to the lexicon.
ReconcileSentiment(model, confidence, lexicon) ==
  LET conflicting == /\ Magnitude(model - lexicon.score) > 80
                     /\ Sign(model) # Sign(lexicon.score)
      blended == (model * (100 - lexicon.confidence) + lexicon.score * lexicon.confidence) \div 100
      lowered == (2 * confidence * (200 - lexicon.confidence) + 200) \div 400
  IN  CASE model = None /\ lexicon.confidence = 0 -> [score |-> None, confidence |-> 0, disagreed |-> FALSE]
        [] model = None /\ lexicon.confidence > 0 ->
             [score |-> lexicon.score, confidence |-> (lexicon.confidence + 1) \div 2, disagreed |-> FALSE]
        [] model # None /\ (lexicon.confidence = 0 \/ ~conflicting) ->
             [score |-> model, confidence |-> confidence, disagreed |-> FALSE]
        [] OTHER -> [score |-> blended, confidence |-> Clamp(lowered, 1, 100), disagreed |-> TRUE]

------------------------------------------------------------------------------
\* sentiment.ts: nothing is said of a text without terms, and the verdict lies
\* between the model's and the lexicon's (rounding aside) and is no more
\* confident than the model was.
VerdictBetween(tokens, model, confidence) ==
  LET lexicon == ClassifyWithLexicon(tokens)
      verdict == ReconcileSentiment(model, confidence, lexicon)
  IN  /\ lexicon.confidence = 0 => verdict.score = model
      /\ model # None =>
           /\ verdict.score >= Min({model, lexicon.score}) - 1
           /\ verdict.score <= Max({model, lexicon.score})
           /\ verdict.confidence <= confidence

\* sentiment.ts:35 and reddit.ts:242: samples without weight are as good as
\* none, whatever they say, and of the others the mean is no further out than
\* the outermost one.
MeanBetween(samples) ==
  LET counted == {k \in DOMAIN samples : samples[k].weight > 0}
      scores == {Clamp(samples[k].score, -100, 100) : k \in counted}
      mean == AggregateSentiment(samples)
  IN  /\ \A other \in {0, 100} :
           mean = AggregateSentiment([k \in DOMAIN samples |->
                                       IF k \in counted THEN samples[k] ELSE [samples[k] EXCEPT !.score = other]])
      /\ IF counted = {} THEN mean = None ELSE Min(scores) <= mean /\ mean <= Max(scores)

\* All the terms of a text are strong bearish ones, and there are some.
OnlyBadNews(tokens) ==
  Hits(tokens) # {} /\ \A i \in Hits(tokens) : tokens[i] <= -80 /\ ~Negated(tokens, i)

\* sentiment.ts:219: a disclosure whose only terms are strong bearish ones,
\* even a single one, never keeps the bullish verdict of a model that was
\* cheered by its wording ("funds are safe"), however sure the model is.
BadNewsStaysBad(tokens, model, confidence) ==
  model # None /\ OnlyBadNews(tokens) =>
    ScoreToSentiment(ReconcileSentiment(model, confidence, ClassifyWithLexicon(tokens)).score)
      \in {"NEUTRAL", "BEARISH", "VERY_BEARISH"}
=============================================================================
