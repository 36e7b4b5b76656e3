--------------------------- MODULE ServicesProofs ----------------------------
(***************************************************************************)
(* The pure services, for every rule, signal, text, score and answer they  *)
(* can be asked about (Stored): what alerts are told, what fails with a    *)
(* request, the scores, the verdicts, and the coins of a text.             *)
(***************************************************************************)
EXTENDS Services, FiniteSetTheorems, FunctionTheorems, SequenceTheorems,
        WellFoundedInduction, TLAPS

\* Every non-empty set of naturals has a least element.
LEMMA LeastOf ==
  ASSUME NEW S \in SUBSET Nat, S # {}
  PROVE  \E n \in S : \A m \in S : n <= m
<1>1. IsWellFoundedOn(OpToRel(<, Nat), Nat)
  BY NatLessThanWellFounded
<1>2. PICK n \in S : \A m \in Nat : <<m, n>> \in OpToRel(<, Nat) => m \notin S
  BY <1>1, WFMin
<1>3. \A m \in S : ~(m < n)
  BY <1>2 DEF OpToRel
<1>4. QED
  BY <1>3

------------------------------------------------------------------------------
\* The signals the engine is told (AlertRules).

\* r asks for no more than rule does, in any of its fields.
Weaker(r, rule) ==
  /\ r.type = rule.type
  /\ \A f \in Rules!Fields(rule.type) :
       \/ r[f] = rule[f]
       \/ f \in Rules!ListFields /\ (r[f] = {} \/ (rule[f] # {} /\ rule[f] \subseteq r[f]))
       \/ f \in Rules!Bounds /\ rule[f] \in Int /\ r[f] \in Int /\ r[f] <= rule[f]
       \/ f = "direction" /\ r[f] = "ANY"
       \/ f = "verifiedOnly" /\ r[f] = FALSE

\* A bound of a stored rule is a number or left open.
LEMMA BoundsAreNumbers ==
  ASSUME NEW rule, Rules!IsRule(rule), NEW f \in Rules!Fields(rule.type) \intersect Rules!Bounds
  PROVE  rule[f] \in Int \union {None}
<1>1. f \notin Rules!ListFields \union {"type"}
  BY DEF Rules!Bounds, Rules!ListFields
<1>2. rule[f] \in Rules!Values(rule.type, f)
  BY <1>1 DEF Rules!IsRule
<1>3. CASE f = "minShare"
  BY <1>2, <1>3 DEF Rules!Values
<1>4. CASE f = "minDelta"
  BY <1>2, <1>4 DEF Rules!Values
<1>5. CASE f = "minImportance"
  BY <1>2, <1>5 DEF Rules!Values
<1>6. CASE f \in {"multiplier", "minUsd", "minVelocity"}
  BY <1>2, <1>6 DEF Rules!Values
<1>7. QED
  BY <1>3, <1>4, <1>5, <1>6 DEF Rules!Bounds

LEMMA RelaxedIsWeaker ==
  ASSUME NEW rule, Rules!IsRule(rule), NEW values, NEW r \in Rules!Relaxed(rule, values)
  PROVE  Weaker(r, rule)
<1>1. /\ DOMAIN rule = Rules!Fields(rule.type)
      /\ "type" \in DOMAIN rule
  BY DEF Rules!IsRule, Rules!Fields
<1>2. ASSUME NEW f \in DOMAIN rule, f # "type", NEW v, r = [rule EXCEPT ![f] = v],
             \/ f \in Rules!ListFields /\ (v = {} \/ (rule[f] # {} /\ rule[f] \subseteq v))
             \/ f \in Rules!Bounds /\ rule[f] \in Int /\ v \in Int /\ v <= rule[f]
             \/ f = "direction" /\ v = "ANY"
             \/ f = "verifiedOnly" /\ v = FALSE
      PROVE  Weaker(r, rule)
  <2>1. r[f] = v /\ \A g \in DOMAIN rule \ {f} : r[g] = rule[g]
    BY <1>2 DEF Rules!IsRule
  <2>2. r.type = rule.type
    BY <1>1, <1>2, <2>1
  <2>3. QED
    BY <1>1, <1>2, <2>1, <2>2 DEF Weaker
<1>3. "type" \notin Rules!ListFields \union Rules!Bounds
  BY DEF Rules!ListFields, Rules!Bounds
<1>4. ASSUME NEW f \in DOMAIN rule \intersect Rules!ListFields, r = [rule EXCEPT ![f] = {}]
      PROVE  Weaker(r, rule)
  BY <1>2, <1>3, <1>4
<1>5. ASSUME NEW f \in DOMAIN rule \intersect Rules!ListFields, rule[f] # {}, NEW v \in values,
             r = [rule EXCEPT ![f] = @ \union {v}]
      PROVE  Weaker(r, rule)
  <2>1. r = [rule EXCEPT ![f] = rule[f] \union {v}]
    BY <1>5
  <2>2. rule[f] \subseteq rule[f] \union {v}
    OBVIOUS
  <2>3. QED
    BY <1>2, <1>3, <1>5, <2>1, <2>2
<1>6. ASSUME NEW f \in DOMAIN rule \intersect Rules!Bounds, rule[f] # None, r = [rule EXCEPT ![f] = @ - 1]
      PROVE  Weaker(r, rule)
  <2>1. r = [rule EXCEPT ![f] = rule[f] - 1]
    BY <1>6
  <2>2. rule[f] \in Int
    BY <1>1, <1>6, BoundsAreNumbers
  <2>3. rule[f] - 1 \in Int /\ rule[f] - 1 <= rule[f]
    BY <2>2
  <2>4. QED
    BY <1>2, <1>3, <1>6, <2>1, <2>2, <2>3
<1>7. ASSUME NEW f \in DOMAIN rule \intersect {"direction"}, r = [rule EXCEPT ![f] = "ANY"]
      PROVE  Weaker(r, rule)
  BY <1>2, <1>7
<1>8. ASSUME NEW f \in DOMAIN rule \intersect {"verifiedOnly"}, r = [rule EXCEPT ![f] = FALSE]
      PROVE  Weaker(r, rule)
  BY <1>2, <1>8
<1>9. QED
  BY <1>4, <1>5, <1>6, <1>7, <1>8 DEF Rules!Relaxed

\* A weaker list allows, and a weaker bound admits, what the stricter one did.
LEMMA WeakerAllows ==
  ASSUME NEW rule, NEW r, Weaker(r, rule), NEW f \in Rules!Fields(rule.type) \intersect Rules!ListFields, NEW value,
         Rules!Allows(rule[f], value)
  PROVE  Rules!Allows(r[f], value)
<1>1. f \notin Rules!Bounds /\ f # "direction" /\ f # "verifiedOnly"
  BY DEF Rules!ListFields, Rules!Bounds
<1>2. r[f] = rule[f] \/ r[f] = {} \/ (rule[f] # {} /\ rule[f] \subseteq r[f])
  BY <1>1 DEF Weaker
<1>3. QED
  BY <1>2 DEF Rules!Allows

LEMMA WeakerBound ==
  ASSUME NEW rule, NEW r, Weaker(r, rule), NEW f \in Rules!Fields(rule.type) \intersect Rules!Bounds
  PROVE  r[f] = rule[f] \/ (rule[f] \in Int /\ r[f] \in Int /\ r[f] <= rule[f])
<1>1. f \notin Rules!ListFields /\ f # "direction" /\ f # "verifiedOnly"
  BY DEF Rules!ListFields, Rules!Bounds
<1>2. QED
  BY <1>1 DEF Weaker

LEMMA WeakerAdmits ==
  ASSUME NEW rule, NEW r, Weaker(r, rule), NEW f \in Rules!Fields(rule.type) \intersect Rules!Bounds,
         NEW value \in Int \union {None, NotFinite}, Rules!AtLeast(value, rule[f])
  PROVE  Rules!AtLeast(value, r[f])
<1>1. value \in Int
  BY DEF Rules!AtLeast
<1>2. QED
  BY <1>1, WeakerBound DEF Rules!AtLeast

\* What the rule of each type asks of a signal of its kind.
Asks(rule, s) ==
  /\ rule.type = "PRICE_CHANGE" => Rules!PriceChange(rule, s)
  /\ rule.type = "PRICE_LEVEL" => Rules!PriceLevel(rule, s)
  /\ rule.type = "VOLUME_SPIKE" => Rules!VolumeSpike(rule, s)
  /\ rule.type = "EVENT_MATCH" => Rules!EventMatch(rule, s)
  /\ rule.type = "BREAKING_NEWS" => Rules!BreakingNews(rule, s)
  /\ rule.type = "EXCHANGE_LISTING" => Rules!Allows(rule.venues, s.venue)
  /\ rule.type = "GITHUB_RELEASE" => Rules!Allows(rule.repos, s.repo)
  /\ rule.type = "WHALE_TRANSFER" =>
       Rules!Allows(rule.types, s.type) /\ Rules!AtLeast(s.amount, rule.minUsd)
  /\ rule.type = "TOKEN_UNLOCK" => Rules!AtLeast(Rules!UnlockShare(s), rule.minShare)
  /\ rule.type = "GOVERNANCE_PROPOSAL" => Rules!Allows(rule.states, s.state)
  /\ rule.type = "SENTIMENT_SHIFT" => Rules!SentimentShift(rule, s)
  /\ rule.type = "FUNDING_RATE" => s.rate # None /\ Rules!Beyond(s.rate, rule.comparator, rule.threshold)
  /\ rule.type = "SOCIAL_VELOCITY" =>
       Rules!Allows(rule.platforms, s.platform) /\ Rules!AtLeast(s.velocity, rule.minVelocity)
  /\ rule.type = "AUTHOR_POST" => Rules!AuthorPost(rule, s)

LEMMA FiresByType ==
  ASSUME NEW rule, rule.type \in Rules!Types, NEW s
  PROVE  Rules!Fires(rule, s) <=> /\ Rules!SignalKind(rule.type) = s.kind
                                  /\ Rules!Allows(rule.coinIds, s.coinId)
                                  /\ Asks(rule, s)
<1>1. CASE rule.type = "PRICE_CHANGE"
  BY <1>1 DEF Rules!Fires, Asks
<1>2. CASE rule.type = "PRICE_LEVEL"
  BY <1>2 DEF Rules!Fires, Asks
<1>3. CASE rule.type = "VOLUME_SPIKE"
  BY <1>3 DEF Rules!Fires, Asks
<1>4. CASE rule.type = "EVENT_MATCH"
  BY <1>4 DEF Rules!Fires, Asks
<1>5. CASE rule.type = "BREAKING_NEWS"
  BY <1>5 DEF Rules!Fires, Asks
<1>6. CASE rule.type = "EXCHANGE_LISTING"
  BY <1>6 DEF Rules!Fires, Asks
<1>7. CASE rule.type = "GITHUB_RELEASE"
  BY <1>7 DEF Rules!Fires, Asks
<1>8. CASE rule.type = "WHALE_TRANSFER"
  BY <1>8 DEF Rules!Fires, Asks
<1>9. CASE rule.type = "TOKEN_UNLOCK"
  BY <1>9 DEF Rules!Fires, Asks
<1>10. CASE rule.type = "GOVERNANCE_PROPOSAL"
  BY <1>10 DEF Rules!Fires, Asks
<1>11. CASE rule.type = "SENTIMENT_SHIFT"
  BY <1>11 DEF Rules!Fires, Asks
<1>12. CASE rule.type = "FUNDING_RATE"
  BY <1>12 DEF Rules!Fires, Asks
<1>13. CASE rule.type = "SOCIAL_VELOCITY"
  BY <1>13 DEF Rules!Fires, Asks
<1>14. CASE rule.type = "AUTHOR_POST"
  BY <1>14 DEF Rules!Fires, Asks
<1>15. QED
  BY <1>1, <1>2, <1>3, <1>4, <1>5, <1>6, <1>7, <1>8, <1>9, <1>10, <1>11, <1>12, <1>13, <1>14 DEF Rules!Types

LEMMA WeakerFires ==
  ASSUME None \notin Int,
         NEW rule, Rules!IsRule(rule), NEW r, Weaker(r, rule), NEW s, Rules!IsSignal(s), Rules!Fires(rule, s)
  PROVE  Rules!Fires(r, s)
<1> DEFINE F == Rules!Fields(rule.type)
<1>1. /\ rule.type \in Rules!Types /\ r.type = rule.type
      /\ Rules!SignalKind(rule.type) = s.kind /\ Rules!Allows(rule.coinIds, s.coinId) /\ Asks(rule, s)
  BY FiresByType DEF Rules!IsRule, Weaker
<1>2. \A f \in F \intersect Rules!ListFields : \A value : Rules!Allows(rule[f], value) => Rules!Allows(r[f], value)
  BY WeakerAllows
<1>3. \A f \in F \intersect Rules!Bounds : \A value \in Int \union {None, NotFinite} :
        Rules!AtLeast(value, rule[f]) => Rules!AtLeast(value, r[f])
  BY WeakerAdmits
<1>4. Rules!Allows(r.coinIds, s.coinId)
  <2>1. "coinIds" \in F \intersect Rules!ListFields
    BY DEF Rules!Fields, Rules!ListFields
  <2>2. QED
    BY <1>1, <1>2, <2>1
<1>5. Asks(r, s)
  <2>1. CASE rule.type = "PRICE_CHANGE"
    <3>1. F = {"type", "coinIds", "threshold", "direction"}
      BY <2>1 DEF Rules!Fields
    <3>2. r.threshold = rule.threshold /\ (r.direction = rule.direction \/ r.direction = "ANY")
      BY <3>1 DEF Weaker, Rules!ListFields, Rules!Bounds
    <3>3. QED
      BY <1>1, <2>1, <3>2 DEF Asks, Rules!PriceChange, Rules!Matches
  <2>2. CASE rule.type = "PRICE_LEVEL"
    <3>1. F = {"type", "coinIds", "price", "comparator"}
      BY <2>2 DEF Rules!Fields
    <3>2. r.price = rule.price /\ r.comparator = rule.comparator
      BY <3>1 DEF Weaker, Rules!ListFields, Rules!Bounds
    <3>3. QED
      BY <1>1, <2>2, <3>2 DEF Asks, Rules!PriceLevel, Rules!Beyond
  <2>3. CASE rule.type = "VOLUME_SPIKE"
    <3>1. "multiplier" \in F \intersect Rules!Bounds
      BY <2>3 DEF Rules!Fields, Rules!Bounds
    <3>2. r.multiplier = rule.multiplier
            \/ (rule.multiplier \in Int /\ r.multiplier \in Int /\ r.multiplier <= rule.multiplier)
      BY <3>1, WeakerBound
    <3>3. /\ s.volume \in Int /\ s.baseline \in Int /\ s.baseline > 0
          /\ s.volume >= rule.multiplier * s.baseline
      BY <1>1, <2>3 DEF Asks, Rules!VolumeSpike, Rules!IsSignal, Rules!SignalKind
    <3>4. ASSUME NEW m \in Int, NEW n \in Int, m <= n, NEW b \in Int, b > 0
          PROVE  m * b <= n * b
      BY <3>4
    <3>5. s.volume >= r.multiplier * s.baseline
      BY <3>2, <3>3, <3>4
    <3>6. QED
      BY <1>1, <2>3, <3>3, <3>5 DEF Asks, Rules!VolumeSpike
  <2>4. CASE rule.type = "EVENT_MATCH"
    <3>1. /\ {"categories", "subtypes", "sourceKeys", "sentiments", "impacts", "keywords"}
               \subseteq F \intersect Rules!ListFields
          /\ "minImportance" \in F \intersect Rules!Bounds
      BY <2>4 DEF Rules!Fields, Rules!ListFields, Rules!Bounds
    <3>2. /\ Rules!Allows(r.categories, s.category) /\ Rules!Allows(r.sourceKeys, s.sourceKey)
          /\ Rules!Allows(r.subtypes, s.subtype) /\ Rules!Allows(r.sentiments, s.sentiment)
          /\ Rules!Allows(r.impacts, s.impact)
      BY <1>1, <1>2, <2>4, <3>1 DEF Asks, Rules!EventMatch
    <3>3. r.minImportance # None => Rules!AtLeast(s.importance, r.minImportance)
      <4>1. s.importance \in Int \union {None}
        BY <1>1, <2>4 DEF Rules!IsSignal, Rules!SignalKind
      <4>2. r.minImportance = rule.minImportance \/ rule.minImportance # None
        BY <3>1, WeakerBound
      <4>3. rule.minImportance # None => Rules!AtLeast(s.importance, rule.minImportance)
        BY <1>1, <2>4 DEF Asks, Rules!EventMatch
      <4>4. QED
        BY <1>3, <3>1, <4>1, <4>2, <4>3
    <3>4. r.keywords # {} => r.keywords \intersect s.contains # {}
      <4>1. r.keywords = rule.keywords \/ r.keywords = {} \/ (rule.keywords # {} /\ rule.keywords \subseteq r.keywords)
        BY <3>1 DEF Weaker, Rules!ListFields, Rules!Bounds
      <4>2. rule.keywords # {} => rule.keywords \intersect s.contains # {}
        BY <1>1, <2>4 DEF Asks, Rules!EventMatch
      <4>3. QED
        BY <4>1, <4>2
    <3>5. QED
      BY <1>1, <2>4, <3>2, <3>3, <3>4 DEF Asks, Rules!EventMatch
  <2>5. CASE rule.type = "BREAKING_NEWS"
    <3>1. "minImportance" \in F \intersect Rules!Bounds
      BY <2>5 DEF Rules!Fields, Rules!Bounds
    <3>2. s.importance \in Int \union {None}
      BY <1>1, <2>5 DEF Rules!IsSignal, Rules!SignalKind
    <3>3. QED
      BY <1>1, <1>3, <2>5, <3>1, <3>2 DEF Asks, Rules!BreakingNews
  <2>6. CASE rule.type = "EXCHANGE_LISTING"
    <3>1. "venues" \in F \intersect Rules!ListFields
      BY <2>6 DEF Rules!Fields, Rules!ListFields
    <3>2. QED
      BY <1>1, <1>2, <2>6, <3>1 DEF Asks
  <2>7. CASE rule.type = "GITHUB_RELEASE"
    <3>1. "repos" \in F \intersect Rules!ListFields
      BY <2>7 DEF Rules!Fields, Rules!ListFields
    <3>2. QED
      BY <1>1, <1>2, <2>7, <3>1 DEF Asks
  <2>8. CASE rule.type = "WHALE_TRANSFER"
    <3>1. "types" \in F \intersect Rules!ListFields /\ "minUsd" \in F \intersect Rules!Bounds
      BY <2>8 DEF Rules!Fields, Rules!ListFields, Rules!Bounds
    <3>2. s.amount \in Int \union {None}
      BY <1>1, <2>8 DEF Rules!IsSignal, Rules!SignalKind
    <3>3. QED
      BY <1>1, <1>2, <1>3, <2>8, <3>1, <3>2 DEF Asks
  <2>9. CASE rule.type = "TOKEN_UNLOCK"
    <3>1. "minShare" \in F \intersect Rules!Bounds
      BY <2>9 DEF Rules!Fields, Rules!Bounds
    <3>2. Rules!UnlockShare(s) \in Int \union {None}
      <4>1. /\ s.share \in Int \union {None} /\ s.supply \in Int \union {None} /\ s.amount \in Int
        BY <1>1, <2>9 DEF Rules!IsSignal, Rules!SignalKind
      <4>2. ASSUME NEW a \in Int, NEW b \in Int, b > 0 PROVE (a * 1000) \div b \in Int
        BY <4>2
      <4>3. QED
        BY <4>1, <4>2 DEF Rules!UnlockShare
    <3>3. QED
      BY <1>1, <1>3, <2>9, <3>1, <3>2 DEF Asks
  <2>10. CASE rule.type = "GOVERNANCE_PROPOSAL"
    <3>1. "states" \in F \intersect Rules!ListFields
      BY <2>10 DEF Rules!Fields, Rules!ListFields
    <3>2. QED
      BY <1>1, <1>2, <2>10, <3>1 DEF Asks
  <2>11. CASE rule.type = "SENTIMENT_SHIFT"
    <3>1. F = {"type", "coinIds", "minDelta", "direction"}
      BY <2>11 DEF Rules!Fields
    <3>2. r.direction = rule.direction \/ r.direction = "ANY"
      BY <3>1 DEF Weaker, Rules!ListFields, Rules!Bounds
    <3>3. r.minDelta = rule.minDelta \/ (rule.minDelta \in Int /\ r.minDelta \in Int /\ r.minDelta <= rule.minDelta)
      BY <3>1, WeakerBound DEF Rules!Bounds
    <3> DEFINE delta == Rules!Bounded(s.score) - Rules!Bounded(s.previous)
    <3>4. s.previous # None /\ s.score # None /\ Rules!Absolute(delta) >= rule.minDelta
          /\ Rules!Matches(delta, rule.direction)
      BY <1>1, <2>11 DEF Asks, Rules!SentimentShift
    <3>5. Rules!Absolute(delta) \in Int
      <4>1. s.score \in Int /\ s.previous \in Int
        BY <1>1, <2>11, <3>4 DEF Rules!IsSignal, Rules!SignalKind
      <4>2. QED
        BY <4>1 DEF Rules!Absolute, Rules!Bounded
    <3>6. Rules!Matches(delta, r.direction)
      BY <3>2, <3>4 DEF Rules!Matches
    <3> HIDE DEF delta
    <3>7. Rules!Absolute(delta) >= r.minDelta
      BY <3>3, <3>4, <3>5
    <3>8. QED
      BY <1>1, <2>11, <3>4, <3>6, <3>7 DEF Asks, Rules!SentimentShift, delta
  <2>12. CASE rule.type = "FUNDING_RATE"
    <3>1. F = {"type", "coinIds", "comparator", "threshold"}
      BY <2>12 DEF Rules!Fields
    <3>2. r.threshold = rule.threshold /\ r.comparator = rule.comparator
      BY <3>1 DEF Weaker, Rules!ListFields, Rules!Bounds
    <3>3. QED
      BY <1>1, <2>12, <3>2 DEF Asks, Rules!Beyond
  <2>13. CASE rule.type = "SOCIAL_VELOCITY"
    <3>1. "platforms" \in F \intersect Rules!ListFields /\ "minVelocity" \in F \intersect Rules!Bounds
      BY <2>13 DEF Rules!Fields, Rules!ListFields, Rules!Bounds
    <3>2. s.velocity \in Int \union {None, NotFinite}
      BY <1>1, <2>13 DEF Rules!IsSignal, Rules!SignalKind
    <3>3. QED
      BY <1>1, <1>2, <1>3, <2>13, <3>1, <3>2 DEF Asks
  <2>14. CASE rule.type = "AUTHOR_POST"
    <3>1. F = {"type", "coinIds", "handles", "verifiedOnly"}
      BY <2>14 DEF Rules!Fields
    <3>2. r.verifiedOnly = rule.verifiedOnly \/ r.verifiedOnly = FALSE
      BY <3>1 DEF Weaker, Rules!ListFields, Rules!Bounds
    <3>3. Rules!Allows(r.handles, s.handle)
      BY <1>1, <1>2, <2>14, <3>1 DEF Asks, Rules!AuthorPost, Rules!ListFields
    <3>4. (rule.verifiedOnly => s.verified) => (r.verifiedOnly => s.verified)
      BY <3>2
    <3>5. QED
      BY <1>1, <2>14, <3>3, <3>4 DEF Asks, Rules!AuthorPost
  <2>15. QED
    BY <1>1, <2>1, <2>2, <2>3, <2>4, <2>5, <2>6, <2>7, <2>8, <2>9, <2>10, <2>11, <2>12, <2>13, <2>14
    DEF Rules!Types
<1>6. QED
  BY <1>1, <1>4, <1>5, FiresByType

\* Whatever a stored rule and a signal hold, a rule that asks for less fires
\* whenever the stricter one does.
THEOREM RelaxedRulesFire ==
  ASSUME None \notin Int,
         NEW rule, Rules!IsRule(rule), NEW s, Rules!IsSignal(s), NEW values
  PROVE  Rules!RelaxingKeepsFiring(rule, s, values)
BY RelaxedIsWeaker, WeakerFires DEF Rules!RelaxingKeepsFiring

\* Whatever the course of the prices, a level alert fires when the price came
\* over the level within the window, and only then.
THEOREM LevelAlertsReportCrossings ==
  ASSUME None \notin Int, NEW rule, rule.type = "PRICE_LEVEL", rule.coinIds = {},
         NEW prices \in Seq(Int), NEW window \in Nat \ {0}
  PROVE  Rules!LevelReportsCrossings(rule, prices, window)
<1> DEFINE beyond(u) == Rules!Beyond(prices[u], rule.comparator, rule.price)
<1> DEFINE fires(t) == Rules!Fires(rule, Rules!LevelSignal(prices, t, window))
<1> SUFFICES ASSUME NEW t \in (window + 1)..Len(prices)
             PROVE  /\ fires(t) => \E u \in (t - window + 1)..t : beyond(u) /\ ~beyond(u - 1)
                    /\ beyond(t) /\ (\A u \in (t - window)..(t - 1) : ~beyond(u)) => fires(t)
  BY DEF Rules!LevelReportsCrossings
<1>1. t \in Int /\ window \in Int /\ t > window /\ t - window \in 1..Len(prices) /\ window > 0
  OBVIOUS
<1>2. fires(t) <=> beyond(t) /\ ~beyond(t - window)
  <2> DEFINE s == Rules!LevelSignal(prices, t, window)
  <2>1. s.kind = "market" /\ s.price = prices[t] /\ s.reference = prices[t - window]
    BY <1>1 DEF Rules!LevelSignal
  <2>2. s.reference # None
    BY <1>1, <2>1
  <2> HIDE DEF s
  <2>3. Rules!Fires(rule, s) <=> Rules!PriceLevel(rule, s)
    BY <2>1 DEF Rules!Fires, Rules!SignalKind, Rules!Allows
  <2>4. Rules!PriceLevel(rule, s) <=> beyond(t) /\ ~beyond(t - window)
    BY <2>1, <2>2 DEF Rules!PriceLevel
  <2>5. QED
    BY <2>3, <2>4 DEF s
<1> HIDE DEF beyond, fires
<1>3. ASSUME beyond(t), ~beyond(t - window)
      PROVE  \E u \in (t - window + 1)..t : beyond(u) /\ ~beyond(u - 1)
  <2> DEFINE back == {d \in Nat : d <= window /\ ~beyond(t - d)}
  <2>1. window \in back
    BY <1>1, <1>3
  <2>2. PICK d \in back : \A e \in back : d <= e
    BY <2>1, LeastOf
  <2>3. d \in Nat /\ d # 0 /\ d <= window /\ ~beyond(t - d)
    <3>1. t - 0 = t
      BY <1>1
    <3>2. QED
      BY <1>1, <1>3, <2>2, <3>1
  <2>4. beyond(t - (d - 1))
    <3>1. d - 1 \in Nat /\ d - 1 <= window /\ ~(d <= d - 1)
      BY <1>1, <2>3
    <3>2. d - 1 \notin back
      BY <2>2, <3>1
    <3>3. QED
      BY <3>1, <3>2
  <2> DEFINE u == t - (d - 1)
  <2>5. u \in (t - window + 1)..t /\ u - 1 = t - d
    BY <1>1, <2>3
  <2>6. beyond(u) /\ ~beyond(u - 1)
    BY <2>3, <2>4, <2>5
  <2> HIDE DEF u
  <2>7. QED
    BY <2>5, <2>6
<1>4. ASSUME \A u \in (t - window)..(t - 1) : ~beyond(u)
      PROVE  ~beyond(t - window)
  BY <1>1, <1>4
<1>5. QED
  BY <1>2, <1>3, <1>4

\* The newest row of a bounded table.
LEMMA LatestExists ==
  ASSUME NEW rows, rows # {}, \A row \in rows : row.at \in Int,
         NEW now \in Int, \A row \in rows : row.at <= now
  PROVE  Rules!Tables!Latest(rows) \in rows
<1> DEFINE ages == {now - row.at : row \in rows}
<1>1. ages \in SUBSET Nat /\ ages # {}
  OBVIOUS
<1>2. PICK age \in ages : \A other \in ages : age <= other
  BY <1>1, LeastOf
<1>3. PICK row \in rows : age = now - row.at
  OBVIOUS
<1>4. \A other \in rows : now - row.at <= now - other.at
  BY <1>2, <1>3
<1>5. \A other \in rows : other.at <= row.at
  BY <1>4
<1>6. QED
  BY <1>5 DEF Rules!Tables!Latest

\* However a coin was quoted, once its last quote is a window old no price rule
\* fires on it.
THEOREM QuietCoinsNeverFire ==
  ASSUME None \notin Int, NEW now \in Int, NEW window \in Int,
         NEW quotes, \A c \in DOMAIN quotes : \A q \in quotes[c] :
                       q.at \in Int /\ q.at <= now /\ q.price \in Int
  PROVE  Rules!QuietCoinsStaySilent(quotes, now, window)
<1> SUFFICES ASSUME NEW s \in Rules!MarketSignals(quotes, now, window), NEW rule \in Rules!PriceRules,
                    Rules!Fires(rule, s),
                    \A q \in quotes[s.coinId] : ~(q.at > now - window)
             PROVE  FALSE
  BY DEF Rules!QuietCoinsStaySilent
<1>1. PICK c \in DOMAIN quotes :
        /\ quotes[c] # {}
        /\ s = [kind |-> "market", coinId |-> c, price |-> Rules!Tables!LatestQuote(quotes[c]),
                reference |-> Rules!Tables!QuoteAt(quotes[c], now - window),
                volume |-> None, baseline |-> None]
  BY DEF Rules!MarketSignals
<1>2. \A q \in quotes[c] : q.at <= now - window
  BY <1>1
<1>3. {q \in quotes[c] : q.at <= now - window} = quotes[c]
  BY <1>2
<1>4. s.price = Rules!Tables!Latest(quotes[c]).price /\ s.reference = s.price
  BY <1>1, <1>3 DEF Rules!Tables!LatestQuote, Rules!Tables!QuoteAt
<1>5. Rules!Tables!Latest(quotes[c]) \in quotes[c]
  BY <1>1, LatestExists
<1>6. s.price \in Int /\ s.reference = s.price /\ s.kind = "market"
  BY <1>1, <1>4, <1>5
<1>7. rule.type \in {"PRICE_CHANGE", "PRICE_LEVEL"} /\ (rule.type = "PRICE_CHANGE" => rule.threshold \in {1, 50})
  BY DEF Rules!PriceRules
<1>8. CASE rule.type = "PRICE_CHANGE"
  <2>1. Rules!PriceChange(rule, s)
    BY <1>8 DEF Rules!Fires
  <2>2. s.price - s.reference = 0 /\ s.reference # 0 /\ s.reference \in Int
    BY <1>6, <2>1 DEF Rules!PriceChange
  <2>3. Rules!Absolute(0) * 100 >= rule.threshold * Rules!Absolute(s.reference)
    BY <2>1, <2>2 DEF Rules!PriceChange
  <2>4. Rules!Absolute(0) * 100 = 0 /\ Rules!Absolute(s.reference) \in Int
          /\ Rules!Absolute(s.reference) > 0
    BY <2>2 DEF Rules!Absolute
  <2>5. QED
    BY <1>7, <1>8, <2>3, <2>4
<1>9. CASE rule.type = "PRICE_LEVEL"
  <2>1. Rules!PriceLevel(rule, s)
    BY <1>9 DEF Rules!Fires
  <2>2. QED
    BY <1>6, <2>1 DEF Rules!PriceLevel
<1>10. QED
  BY <1>7, <1>8, <1>9

\* An unlock known far enough ahead is seen by a check before it comes, and
\* with a share wherever one can be told.
THEOREM UnlocksAlwaysSeen ==
  ASSUME None \notin Int, NEW lead \in Nat, NEW period \in Nat \ {0}, period <= lead,
         NEW unlocks, \A u \in unlocks : u.at \in Int /\ u.amount \in Int,
         NEW quote, \A u \in unlocks : u.coin \in DOMAIN quote,
         \A c \in DOMAIN quote : quote[c] # None =>
           quote[c].price \in Int /\ quote[c].cap \in Nat \union {None}
  PROVE  Rules!UnlocksAreSeen(unlocks, quote, lead, period)
<1> SUFFICES ASSUME NEW u \in unlocks
             PROVE  \E now \in (u.at - lead)..u.at :
                      /\ now % period = 0
                      /\ \E s \in Rules!UnlockSignals(unlocks, DOMAIN quote, quote, now, lead) :
                           /\ s.coinId = u.coin /\ s.amount = u.amount
                           /\ u.share # None \/ (quote[u.coin] # None /\ quote[u.coin].cap # None
                                                  /\ quote[u.coin].price > 0)
                                => Rules!UnlockShare(s) # None \/ s.supply = 0
  BY DEF Rules!UnlocksAreSeen
<1> DEFINE now == u.at - (u.at % period)
           q == quote[u.coin]
           supply == IF q # None /\ q.cap # None /\ q.price > 0 THEN q.cap \div q.price ELSE None
           s == [kind |-> "unlock", coinId |-> u.coin, share |-> u.share, amount |-> u.amount,
                 supply |-> supply]
<1>1. now \in (u.at - lead)..u.at /\ now % period = 0
  <2>1. ASSUME NEW a \in Int
        PROVE  /\ a - (a % period) \in (a - lead)..a
               /\ (a - (a % period)) % period = 0
    <3>1. a % period \in 0..(period - 1) /\ a = period * (a \div period) + (a % period)
      OBVIOUS
    <3>2. a - (a % period) = period * (a \div period)
      BY <3>1
    <3>3. (period * (a \div period)) % period = 0
      OBVIOUS
    <3>4. QED
      BY <3>1, <3>2, <3>3
  <2>2. QED
    BY <2>1
<1>2. now \in Int /\ now <= u.at /\ u.at <= now + lead
  BY <1>1
<1> HIDE DEF now
<1>3. s \in Rules!UnlockSignals(unlocks, DOMAIN quote, quote, now, lead)
  <2>1. u \in Rules!Tables!Within(unlocks, now, now + lead)
    BY <1>2 DEF Rules!Tables!Within
  <2>2. QED
    BY <2>1 DEF Rules!UnlockSignals
<1>4. ASSUME u.share # None \/ (q # None /\ q.cap # None /\ q.price > 0)
      PROVE  Rules!UnlockShare(s) # None \/ s.supply = 0
  <2>1. s.share = u.share /\ s.supply = supply /\ s.amount = u.amount /\ u.amount \in Int
    OBVIOUS
  <2> HIDE DEF s
  <2>2. CASE u.share # None
    BY <2>1, <2>2 DEF Rules!UnlockShare
  <2>3. CASE u.share = None
    <3>1. supply = q.cap \div q.price /\ q.cap \in Nat /\ q.price \in Int /\ q.price > 0
      BY <1>4, <2>3
    <3>2. ASSUME NEW a \in Nat, NEW b \in Int, b > 0 PROVE a \div b \in Nat
      BY <3>2
    <3>3. supply \in Nat
      BY <3>1, <3>2
    <3> HIDE DEF supply, q
    <3>4. CASE supply = 0
      BY <2>1, <3>4
    <3>5. CASE supply > 0
      <4>1. Rules!UnlockShare(s) = (u.amount * 1000) \div supply
        BY <2>1, <2>3, <3>3, <3>5 DEF Rules!UnlockShare
      <4>2. (u.amount * 1000) \div supply \in Int
        BY <2>1, <3>3, <3>5
      <4>3. QED
        BY <4>1, <4>2
    <3>6. QED
      BY <3>3, <3>4, <3>5
  <2>4. QED
    BY <2>2, <2>3
<1>5. s.coinId = u.coin /\ s.amount = u.amount
  OBVIOUS
<1>6. QED
  BY <1>1, <1>3, <1>4, <1>5 DEF now

\* Whatever rule a user stores and whatever the engine is told of it, whatever
\* the course of the prices and the unlocks: what the run asks of the signals.
THEOREM SignalsAlwaysSound == ASSUME None \notin Int, Stored(input) PROVE SignalsSound
<1>1. ASSUME About("rule") PROVE Rules!RelaxingKeepsFiring(input.rule, input.signal, {"y"})
  <2>1. Rules!IsRule(input.rule) /\ Rules!IsSignal(input.signal)
    BY <1>1 DEF Stored, About
  <2>2. QED
    BY <2>1, RelaxedRulesFire
<1>2. ASSUME About("level")
      PROVE  Rules!LevelReportsCrossings([type |-> "PRICE_LEVEL", coinIds |-> {}, price |-> 2, comparator |-> input.comparator],
                                         input.prices, input.window)
  <2> DEFINE rule == [type |-> "PRICE_LEVEL", coinIds |-> {}, price |-> 2, comparator |-> input.comparator]
  <2>1. input.prices \in Seq(Int) /\ input.window \in Nat \ {0}
    BY <1>2 DEF Stored, About
  <2>2. rule.type = "PRICE_LEVEL" /\ rule.coinIds = {}
    OBVIOUS
  <2> HIDE DEF rule
  <2>3. Rules!LevelReportsCrossings(rule, input.prices, input.window)
    BY <2>1, <2>2, LevelAlertsReportCrossings
  <2>4. QED
    BY <2>3 DEF rule
<1>3. ASSUME About("signals")
      PROVE  Rules!QuietCoinsStaySilent([c \in {"btc"} |-> input.rows], input.now, input.window)
  <2> DEFINE quotes == [c \in {"btc"} |-> input.rows]
  <2>1. /\ input.now \in Int /\ input.window \in Int
        /\ \A q \in input.rows : q.at \in Int /\ q.at <= input.now /\ q.price \in Int
    BY <1>3 DEF Stored, About
  <2>2. \A c \in DOMAIN quotes : \A q \in quotes[c] : q.at \in Int /\ q.at <= input.now /\ q.price \in Int
    BY <2>1
  <2> HIDE DEF quotes
  <2>3. Rules!QuietCoinsStaySilent(quotes, input.now, input.window)
    BY <2>1, <2>2, QuietCoinsNeverFire
  <2>4. QED
    BY <2>3 DEF quotes
<1>4. ASSUME About("unlocks")
      PROVE  Rules!UnlocksAreSeen(input.unlocks, [c \in {"btc"} |-> input.quote], input.lead, input.period)
  <2> DEFINE quote == [c \in {"btc"} |-> input.quote]
  <2>1. /\ input.lead \in Nat /\ input.period \in 1..input.lead
        /\ \A u \in input.unlocks : u.coin = "btc" /\ u.at \in Int /\ u.amount \in Int
        /\ input.quote # None => input.quote.price \in Int /\ input.quote.cap \in Nat \union {None}
    BY <1>4 DEF Stored, About
  <2>2. input.period \in Nat \ {0} /\ input.period <= input.lead
    BY <2>1
  <2>3. /\ \A u \in input.unlocks : u.coin \in DOMAIN quote
        /\ \A c \in DOMAIN quote : quote[c] # None => quote[c].price \in Int /\ quote[c].cap \in Nat \union {None}
    BY <2>1
  <2> HIDE DEF quote
  <2>4. Rules!UnlocksAreSeen(input.unlocks, quote, input.lead, input.period)
    BY <2>1, <2>2, <2>3, UnlocksAlwaysSeen
  <2>5. QED
    BY <2>4 DEF quote
<1>5. QED
  BY <1>1, <1>2, <1>3, <1>4 DEF SignalsSound

------------------------------------------------------------------------------
\* The requests behind a batch, and what is read back (Connectors).

\* Every plausible day is the same time in seconds and in milliseconds.
THEOREM TimestampsAlwaysReadBack ==
  ASSUME None \notin Int, NEW day \in Int, NEW now \in Int, now <= 1000000
  PROVE  Providers!TimestampsReadBack(day, now)
BY DEF Providers!TimestampsReadBack, Providers!Timestamp, Providers!FirstDay

\* An answer that comes anyway, or fails and would have been `gone`.
Comes(answer, part, gone) == part = answer \/ (part = None /\ gone = answer)

\* Whichever of the coins' candle requests fail (binance.ts:276 goes on with the
\* next coin), the batch lacks their rows and no others.
LEMMA CandlesFailAlone ==
  ASSUME NEW tracked, NEW cap, NEW answers, NEW part, NEW gone,
         \A k \in DOMAIN tracked : Comes(answers[k], part[k], gone[k])
  PROVE  Providers!RequestsFailAlone(Providers!CandlesBatch(tracked, answers, cap),
                                     Providers!CandlesBatch(tracked, part, cap),
                                     Providers!CandlesBatch(tracked, gone, cap))
<1> DEFINE rows(a, k) == {[of |-> <<tracked[k].id, candle.opens>>, value |-> candle.close] :
                            candle \in Providers!Range(a[k])}
           batch(a) == Providers!CandlesBatch(tracked, a, cap)
           asked == {k \in DOMAIN tracked : k <= cap}
<1>1. \A a : batch(a) = [candles |-> UNION {rows(a, k) : k \in {j \in DOMAIN tracked : j <= cap /\ a[j] # None}}]
  BY DEF Providers!CandlesBatch
<1>2. \A a : /\ DOMAIN batch(a) = {"candles"}
             /\ \A row : row \in batch(a).candles <=> \E k \in asked : a[k] # None /\ row \in rows(a, k)
  BY <1>1
<1> HIDE DEF batch
<1>3. \A k \in asked : Comes(answers[k], part[k], gone[k])
  OBVIOUS
<1>4. \A row \in batch(part).candles : row \in batch(answers).candles
  BY <1>2, <1>3 DEF Comes
<1>5. \A row \in batch(answers).candles : row \in batch(part).candles \/ row \in batch(gone).candles
  BY <1>2, <1>3 DEF Comes
<1>6. Providers!RequestsFailAlone(batch(answers), batch(part), batch(gone))
  BY <1>2, <1>4, <1>5 DEF Providers!RequestsFailAlone
<1>7. QED
  BY <1>6 DEF batch

\* Whichever of a repository's requests fail (github.ts:116), the batch lacks
\* their rows and no others, and the snapshot at most their numbers.
LEMMA RepositoriesFailAlone ==
  ASSUME NEW repo, NEW now, NEW since, NEW commits, NEW releases,
         NEW c, NEW gonec, Comes(commits, c, gonec), NEW r, NEW goner, Comes(releases, r, goner)
  PROVE  Providers!RequestsFailAlone(Providers!GithubRows(repo, commits, releases, now, since),
                                     Providers!GithubRows(repo, c, r, now, since),
                                     Providers!GithubRows(repo, gonec, goner, now, since))
<1> DEFINE whole == Providers!GithubRows(repo, commits, releases, now, since)
           part == Providers!GithubRows(repo, c, r, now, since)
           gone == Providers!GithubRows(repo, gonec, goner, now, since)
<1>1. CASE repo = None
  BY <1>1 DEF Providers!RequestsFailAlone, Providers!GithubRows
<1>2. CASE repo # None
  <2>1. DOMAIN whole = {"events", "githubActivity", "githubSnapshots"}
    BY <1>2 DEF Providers!GithubRows
  <2>2. part.events \subseteq whole.events /\ whole.events \subseteq part.events \union gone.events
    BY <1>2 DEF Providers!GithubRows, Comes
  <2>3. /\ part.githubActivity \subseteq whole.githubActivity
        /\ whole.githubActivity \subseteq part.githubActivity \union gone.githubActivity
    BY <1>2 DEF Providers!GithubRows, Comes
  <2>4. /\ \A row \in part.githubSnapshots \union whole.githubSnapshots : row.of = repo
        /\ whole.githubSnapshots # {} /\ part.githubSnapshots # {}
    <3>1. ASSUME NEW a, NEW b
          PROVE  \E published : Providers!GithubRows(repo, a, b, now, since).githubSnapshots
                                  = {Providers!GithubNumbers(repo, a, published, now)}
      BY <1>2 DEF Providers!GithubRows
    <3>2. \A a, published : Providers!GithubNumbers(repo, a, published, now).of = repo
      BY DEF Providers!GithubNumbers
    <3>3. PICK v, w : /\ part.githubSnapshots = {v} /\ v.of = repo
                      /\ whole.githubSnapshots = {w} /\ w.of = repo
      BY <3>1, <3>2
    <3> HIDE DEF part, whole
    <3>4. QED
      BY <3>3
  <2> HIDE DEF whole, part, gone
  <2>5. /\ \A row \in part.githubSnapshots : \E full \in whole.githubSnapshots : full.of = row.of
        /\ \A row \in whole.githubSnapshots : \E kept \in part.githubSnapshots : kept.of = row.of
    BY <2>4, Zenon
  <2>6. Providers!RequestsFailAlone(whole, part, gone)
    BY <2>1, <2>2, <2>3, <2>5 DEF Providers!RequestsFailAlone
  <2>7. QED
    BY <2>6 DEF whole, part, gone
<1>3. QED
  BY <1>1, <1>2

\* Whatever the exchange answers to the polled coins, a futures or an open
\* interest request that fails (binance.ts:134, 175) takes its own rows or
\* numbers, and the spot request the whole batch.
LEMMA MarketsFailAlone ==
  ASSUME NEW tracked, NEW tickers, NEW t \in {tickers, None},
         NEW premium, NEW p, NEW gonep, Comes(premium, p, gonep), NEW interest, NEW i
  PROVE  Providers!RequestsFailAlone(Providers!BinanceBatch(tracked, tickers, premium, interest),
                                     Providers!BinanceBatch(tracked, t, p, i),
                                     Providers!BinanceBatch(tracked, tickers, gonep, interest))
<1> DEFINE whole == Providers!BinanceBatch(tracked, tickers, premium, interest)
           part == Providers!BinanceBatch(tracked, t, p, i)
           gone == Providers!BinanceBatch(tracked, tickers, gonep, interest)
           perpetual(answer) == Providers!Perpetuals(tracked, answer)
           symbols(answer) == {perpetual(answer)[k].symbol : k \in DOMAIN perpetual(answer)}
           about(rows, names) == /\ \A row \in rows : row.of \in names
                                 /\ \A name \in names : \E row \in rows : row.of = name
<1>1. CASE tracked = <<>>
  BY <1>1 DEF Providers!RequestsFailAlone, Providers!BinanceBatch
<1>2. CASE tracked # <<>> /\ t = None
  BY <1>2 DEF Providers!RequestsFailAlone, Providers!BinanceBatch
<1>3. CASE tracked # <<>> /\ t # None
  <2>1. t = tickers /\ tickers # None
    BY <1>3
  <2>2. DOMAIN whole = {"tradingPairs", "derivatives"} /\ part.tradingPairs = whole.tradingPairs
    BY <1>3, <2>1 DEF Providers!BinanceBatch
  <2>3. ASSUME NEW a, a # None, NEW n, n # None, NEW j
        PROVE  about(Providers!BinanceBatch(tracked, a, n, j).derivatives, symbols(n))
    <3> DEFINE derivatives == Providers!BinanceBatch(tracked, a, n, j).derivatives
               open(k) == IF k > InterestCap \/ j[k] = None \/ perpetual(n)[k].price = None THEN None
                          ELSE j[k] * perpetual(n)[k].price
               row(k) == [of |-> perpetual(n)[k].symbol, value |-> open(k)]
    <3>1. derivatives = {row(k) : k \in DOMAIN perpetual(n)}
      BY <1>3, <2>3 DEF Providers!BinanceBatch
    <3>2. \A k : row(k).of = perpetual(n)[k].symbol
      OBVIOUS
    <3> HIDE DEF perpetual, open, derivatives, row
    <3>3. about(derivatives, symbols(n))
      BY <3>1, <3>2
    <3>4. QED
      BY <3>3 DEF derivatives
  <2>4. ASSUME p = None
        PROVE  part.derivatives = {} /\ (whole.derivatives = {} \/ whole.derivatives = gone.derivatives)
    <3>1. part.derivatives = {} /\ (premium = None => whole.derivatives = {})
      BY <1>3, <2>1, <2>4 DEF Providers!BinanceBatch
    <3>2. premium # None => gonep = premium
      BY <2>4 DEF Comes
    <3>3. QED
      BY <3>1, <3>2
  <2> HIDE DEF symbols, about
  <2>5. ASSUME p # None
        PROVE  about(part.derivatives, symbols(p)) /\ about(whole.derivatives, symbols(p))
    <3>1. p = premium
      BY <2>5 DEF Comes
    <3>2. QED
      BY <1>3, <2>1, <2>3, <2>5, <3>1
  <2> HIDE DEF whole, part, gone
  <2>6. /\ \A row \in part.derivatives : \E full \in whole.derivatives : full.of = row.of
        /\ \A row \in whole.derivatives : row \in gone.derivatives \/ \E kept \in part.derivatives : kept.of = row.of
    BY <2>4, <2>5 DEF about
  <2>7. Providers!RequestsFailAlone(whole, part, gone)
    BY <2>2, <2>6 DEF Providers!RequestsFailAlone
  <2>8. QED
    BY <2>7 DEF whole, part, gone
<1>4. QED
  BY <1>1, <1>2, <1>3

Votes == [state : STRING, quorum : Nat \union {None}, scores : Seq(Nat), total : Nat]

\* One more vote for it never turns a proposal that passed.
THEOREM SupportAlwaysHelps ==
  ASSUME None \notin Int, NEW vote \in Votes,
         vote.scores # <<>> => vote.scores[1] <= vote.total
  PROVE  Providers!SupportHelps(vote)
BY DEF Providers!SupportHelps, Providers!ProposalState, Votes

\* Whatever the exchange, the candles and the repository answer, and whichever
\* requests fail: what the run asks of the batches.
THEOREM FailuresStayAlone == FailuresTakeTheirOwn
<1>0. \A answer, gone : gone \in BOOLEAN => Comes(answer, Unless(gone, answer), Unless(~gone, answer))
  BY DEF Comes, Unless
<1>1. Providers!RequestsFailAlone(Markets(FALSE, <<3, 3>>), Markets(~input.answers, input.interest),
                                  Markets(input.answers, <<3, 3>>))
  <2>1. Comes(Unless(FALSE, input.premium), Unless(~input.answers, input.premium), Unless(input.answers, input.premium))
    BY DEF Comes, Unless
  <2>2. QED
    BY <2>1, MarketsFailAlone DEF Markets
<1>2. Providers!RequestsFailAlone(Candles({}), Candles(input.fails), Candles((1..3) \ input.fails))
  <2> DEFINE of(failed) == [k \in 1..3 |-> Unless(k \in failed, input.answers[k])]
  <2>1. \A k \in DOMAIN Candled : Comes(of({})[k], of(input.fails)[k], of((1..3) \ input.fails)[k])
    BY DEF Comes, Unless, Candled
  <2>2. \A failed : Candles(failed) = Providers!CandlesBatch(Candled, of(failed), 2)
    BY DEF Candles
  <2> HIDE DEF of
  <2>3. Providers!RequestsFailAlone(Providers!CandlesBatch(Candled, of({}), 2),
                                    Providers!CandlesBatch(Candled, of(input.fails), 2),
                                    Providers!CandlesBatch(Candled, of((1..3) \ input.fails), 2))
    BY <2>1, CandlesFailAlone
  <2>4. QED
    BY <2>2, <2>3
<1>3. Providers!RequestsFailAlone(Repo({}), Repo(input.fails), Repo({"commits", "releases"} \ input.fails))
  <2> DEFINE gone == {"commits", "releases"} \ input.fails
  <2>1. /\ Comes(Unless("commits" \in {}, Commits), Unless("commits" \in input.fails, Commits), Unless("commits" \in gone, Commits))
        /\ Comes(Unless("releases" \in {}, input.releases), Unless("releases" \in input.fails, input.releases),
                 Unless("releases" \in gone, input.releases))
    BY DEF Comes, Unless
  <2> HIDE DEF gone
  <2>2. Providers!RequestsFailAlone(Repo({}), Repo(input.fails), Repo(gone))
    BY <2>1, RepositoriesFailAlone DEF Repo
  <2>3. QED
    BY <2>2 DEF gone
<1>4. QED
  BY <1>1, <1>2, <1>3 DEF FailuresTakeTheirOwn

------------------------------------------------------------------------------
\* The scores (Scoring): sums of a sequence, weighted means, and the services.

\* The sums of a sequence up to each of its elements.
AreSums(s, terms) ==
  /\ s \in [0..Len(terms) -> Int] /\ s[0] = 0
  /\ \A k \in 1..Len(terms) : s[k] = s[k - 1] + terms[k]

LEMMA SumsExist ==
  ASSUME NEW terms \in Seq(Int)
  PROVE  \E s : AreSums(s, terms)
<1> DEFINE n == Len(terms)
           upTo(m) == \E s \in [0..m -> Int] : s[0] = 0 /\ \A k \in 1..m : s[k] = s[k - 1] + terms[k]
           bad == {m \in Nat : m <= n /\ ~upTo(m)}
<1>1. n \in Nat /\ \A k \in 1..n : terms[k] \in Int
  OBVIOUS
<1>2. SUFFICES ASSUME bad # {} PROVE FALSE
  <2>1. upTo(n)
    BY <1>1, <1>2
  <2>2. QED
    BY <2>1 DEF AreSums
<1>3. PICK m \in bad : \A k \in bad : m <= k
  BY <1>2, LeastOf
<1>4. m # 0
  <2> DEFINE zero == [k \in 0..0 |-> 0]
  <2>1. zero \in [0..0 -> Int] /\ zero[0] = 0 /\ \A k \in 1..0 : zero[k] = zero[k - 1] + terms[k]
    OBVIOUS
  <2> HIDE DEF zero
  <2>2. upTo(0)
    BY <2>1
  <2>3. QED
    BY <2>2
<1>5. upTo(m - 1)
  <2>1. m - 1 \in Nat /\ m - 1 <= n /\ ~(m <= m - 1)
    BY <1>1, <1>4
  <2>2. m - 1 \notin bad
    BY <1>3, <2>1
  <2>3. QED
    BY <2>1, <2>2
<1>6. PICK s \in [0..(m - 1) -> Int] : s[0] = 0 /\ \A k \in 1..(m - 1) : s[k] = s[k - 1] + terms[k]
  BY <1>5
<1> DEFINE t == [k \in 0..m |-> IF k = m THEN s[m - 1] + terms[m] ELSE s[k]]
<1>7. t \in [0..m -> Int]
  BY <1>1, <1>3, <1>4, <1>6
<1>8. t[0] = 0 /\ \A k \in 1..m : t[k] = t[k - 1] + terms[k]
  <2>1. t[0] = 0
    BY <1>4, <1>6
  <2>2. ASSUME NEW k \in 1..m PROVE t[k] = t[k - 1] + terms[k]
    <3>1. k - 1 \in 0..m /\ k - 1 # m /\ k \in 0..m
      BY <1>3
    <3>2. t[k - 1] = s[k - 1]
      BY <3>1
    <3>3. CASE k = m
      BY <3>1, <3>2, <3>3
    <3>4. CASE k # m
      <4>1. k \in 1..(m - 1) /\ t[k] = s[k]
        BY <1>3, <3>1, <3>4
      <4>2. QED
        BY <1>6, <3>2, <4>1
    <3>5. QED
      BY <3>3, <3>4
  <2>3. QED
    BY <2>1, <2>2
<1>9. upTo(m)
  BY <1>7, <1>8
<1>10. QED
  BY <1>9

\* The sum of a sequence is the last of them.
LEMMA SumIsLast ==
  ASSUME NEW terms \in Seq(Int)
  PROVE  \E s : AreSums(s, terms) /\ Model!SumOf(terms) = s[Len(terms)]
<1> DEFINE body(s) == [k \in 0..Len(terms) |-> IF k = 0 THEN 0 ELSE s[k - 1] + terms[k]]
           sums == CHOOSE s : s = body(s)
<1>1. PICK s : AreSums(s, terms)
  BY SumsExist
<1>2. s = body(s)
  <2>1. s \in [0..Len(terms) -> Int] /\ DOMAIN body(s) = 0..Len(terms)
    BY <1>1 DEF AreSums
  <2>2. \A k \in 0..Len(terms) : s[k] = body(s)[k]
    BY <1>1 DEF AreSums
  <2>3. QED
    BY <2>1, <2>2
<1>3. sums = body(sums)
  BY <1>2
<1>4. Model!SumOf(terms) = sums[Len(terms)]
  BY DEF Model!SumOf
<1> HIDE DEF sums
<1> DEFINE n == Len(terms)
           bad == {k \in Nat : k <= n /\ sums[k] # s[k]}
<1>5. n \in Nat /\ DOMAIN sums = 0..n
  BY <1>3
<1>6. ASSUME bad # {} PROVE FALSE
  <2>1. PICK k \in bad : \A l \in bad : k <= l
    BY <1>6, LeastOf
  <2>2. k \in 0..n /\ k \in Nat /\ sums[k] # s[k]
    BY <1>5, <2>1
  <2>3. sums[0] = 0
    BY <1>3, <1>5
  <2>4. k # 0
    BY <1>1, <2>2, <2>3 DEF AreSums
  <2>5. k - 1 \in Nat /\ k - 1 <= n /\ ~(k <= k - 1)
    BY <1>5, <2>2, <2>4
  <2>6. sums[k - 1] = s[k - 1]
    BY <2>1, <2>5
  <2>7. sums[k] = sums[k - 1] + terms[k]
    BY <1>3, <2>2, <2>4
  <2>8. s[k] = s[k - 1] + terms[k]
    BY <1>1, <2>2, <2>4 DEF AreSums
  <2>9. QED
    BY <2>2, <2>6, <2>7, <2>8
<1>7. sums[n] = s[n]
  BY <1>5, <1>6
<1>8. QED
  BY <1>1, <1>4, <1>7

LEMMA SumIsInt ==
  ASSUME NEW terms \in Seq(Int)
  PROVE  Model!SumOf(terms) \in Int
BY SumIsLast DEF AreSums

\* What holds of each term holds of the sums.
LEMMA SumsCompare ==
  ASSUME NEW terms \in Seq(Int), NEW others \in Seq(Int), Len(others) = Len(terms), NEW b \in Int, NEW c \in Int,
         \A k \in 1..Len(terms) : b * terms[k] <= c * others[k]
  PROVE  b * Model!SumOf(terms) <= c * Model!SumOf(others)
<1>1. PICK s : AreSums(s, terms) /\ Model!SumOf(terms) = s[Len(terms)]
  BY SumIsLast
<1>2. PICK t : AreSums(t, others) /\ Model!SumOf(others) = t[Len(others)]
  BY SumIsLast
<1> DEFINE n == Len(terms)
           bad == {k \in Nat : k <= n /\ ~(b * s[k] <= c * t[k])}
<1>3. n \in Nat /\ s \in [0..n -> Int] /\ t \in [0..n -> Int]
  BY <1>1, <1>2 DEF AreSums
<1>4. \A k \in 1..n : terms[k] \in Int /\ others[k] \in Int
  OBVIOUS
<1>5. \A x, y, z \in Int : z * (x + y) = z * x + z * y /\ z * x \in Int
  OBVIOUS
<1>6. ASSUME bad # {} PROVE FALSE
  <2>1. PICK k \in bad : \A l \in bad : k <= l
    BY <1>6, LeastOf
  <2>2. b * s[0] <= c * t[0]
    BY <1>1, <1>2 DEF AreSums
  <2>3. k \in 1..n /\ k - 1 \in Nat /\ k - 1 <= n /\ k - 1 \in 0..n /\ ~(k <= k - 1)
    BY <1>3, <2>1, <2>2
  <2>4. b * s[k - 1] <= c * t[k - 1]
    BY <2>1, <2>3
  <2>5. s[k] = s[k - 1] + terms[k] /\ t[k] = t[k - 1] + others[k]
    BY <1>1, <1>2, <2>3 DEF AreSums
  <2>6. terms[k] \in Int /\ others[k] \in Int /\ s[k - 1] \in Int /\ t[k - 1] \in Int
    BY <1>3, <1>4, <2>3
  <2> DEFINE left == b * s[k - 1]
             right == c * t[k - 1]
             addedLeft == b * terms[k]
             addedRight == c * others[k]
  <2>7. left \in Int /\ right \in Int /\ addedLeft \in Int /\ addedRight \in Int
    BY <1>5, <2>6
  <2>8. b * s[k] = left + addedLeft /\ c * t[k] = right + addedRight
    <3>1. b * (s[k - 1] + terms[k]) = b * s[k - 1] + b * terms[k]
      BY <1>5, <2>6
    <3>2. c * (t[k - 1] + others[k]) = c * t[k - 1] + c * others[k]
      BY <1>5, <2>6
    <3>3. QED
      BY <2>5, <3>1, <3>2
  <2>9. left <= right /\ addedLeft <= addedRight
    BY <2>3, <2>4
  <2> HIDE DEF left, right, addedLeft, addedRight
  <2>10. b * s[k] <= c * t[k]
    BY <2>7, <2>8, <2>9
  <2>11. QED
    BY <2>1, <2>10
<1>7. n \notin bad
  BY <1>6
<1>8. QED
  BY <1>1, <1>2, <1>3, <1>7

\* A term that changes changes the sum by as much.
LEMMA SumsChange ==
  ASSUME NEW terms \in Seq(Int), NEW j \in 1..Len(terms), NEW v \in Int
  PROVE  Model!SumOf([terms EXCEPT ![j] = v]) = Model!SumOf(terms) - terms[j] + v
<1> DEFINE others == [terms EXCEPT ![j] = v]
           n == Len(terms)
<1>0. others \in Seq(Int) /\ Len(others) = n /\ n \in Nat /\ \A k \in 1..n : terms[k] \in Int
  OBVIOUS
<1>1. PICK s : AreSums(s, terms) /\ Model!SumOf(terms) = s[Len(terms)]
  BY SumIsLast
<1>2. PICK t : AreSums(t, others) /\ Model!SumOf(others) = t[Len(others)]
  BY <1>0, SumIsLast
<1> DEFINE gap(k) == IF k < j THEN 0 ELSE v - terms[j]
           bad == {k \in Nat : k <= n /\ ~(t[k] = s[k] + gap(k))}
<1>3. n \in Nat /\ s \in [0..n -> Int] /\ t \in [0..n -> Int] /\ terms[j] \in Int
  BY <1>0, <1>1, <1>2 DEF AreSums
<1>4. ASSUME bad # {} PROVE FALSE
  <2>1. PICK k \in bad : \A l \in bad : k <= l
    BY <1>4, LeastOf
  <2>2. t[0] = s[0] + gap(0)
    BY <1>1, <1>2 DEF AreSums
  <2>3. k \in 1..n /\ k - 1 \in Nat /\ k - 1 <= n /\ k - 1 \in 0..n /\ ~(k <= k - 1)
    BY <1>3, <2>1, <2>2
  <2>4. t[k - 1] = s[k - 1] + gap(k - 1)
    BY <2>1, <2>3
  <2>5. s[k] = s[k - 1] + terms[k] /\ t[k] = t[k - 1] + others[k]
    BY <1>0, <1>1, <1>2, <2>3 DEF AreSums
  <2>6. terms[k] \in Int /\ s[k - 1] \in Int /\ t[k - 1] \in Int
    BY <1>0, <1>3, <2>3
  <2>7. CASE k = j
    <3>1. others[k] = v
      BY <1>0, <2>3, <2>7
    <3>2. QED
      BY <1>3, <2>1, <2>3, <2>4, <2>5, <2>6, <2>7, <3>1
  <2>8. CASE k # j
    <3>1. others[k] = terms[k]
      BY <1>0, <2>3, <2>8
    <3>2. gap(k) = gap(k - 1)
      BY <2>3, <2>8
    <3>3. gap(k) \in Int
      BY <1>3
    <3> HIDE DEF gap
    <3>4. t[k] = s[k] + gap(k)
      BY <2>4, <2>5, <2>6, <3>1, <3>2, <3>3
    <3>5. QED
      BY <2>1, <3>4
  <2>9. QED
    BY <2>7, <2>8
<1>5. t[n] = s[n] + gap(n)
  BY <1>3, <1>4
<1>6. gap(n) = v - terms[j]
  BY <1>3
<1>7. Model!SumOf(others) = t[n] /\ Model!SumOf(terms) = s[n] /\ s[n] \in Int
  BY <1>0, <1>1, <1>2, <1>3
<1> HIDE DEF others, gap
<1>8. Model!SumOf(others) = Model!SumOf(terms) - terms[j] + v
  BY <1>3, <1>5, <1>6, <1>7
<1>9. QED
  BY <1>8 DEF others

Levels == 0..100
Components == Seq((Levels \union {None}) \X Nat)

\* What the components of a score add to its sum and to its weight.
Values(c) == [k \in DOMAIN c |-> IF c[k][1] # None THEN c[k][1] * c[k][2] ELSE 0]
Weights(c) == [k \in DOMAIN c |-> IF c[k][1] # None THEN c[k][2] ELSE 0]

LEMMA ScoreIsSums ==
  ASSUME NEW c
  PROVE  Model!WeightedScore(c) = <<Model!SumOf(Values(c)), Model!SumOf(Weights(c))>>
BY DEF Model!WeightedScore, Values, Weights

LEMMA ComponentParts ==
  ASSUME None \notin Int, NEW c \in Components
  PROVE  /\ Len(c) \in Nat /\ DOMAIN c = 1..Len(c)
         /\ Values(c) \in Seq(Int) /\ Len(Values(c)) = Len(c) /\ DOMAIN Values(c) = 1..Len(c)
         /\ Weights(c) \in Seq(Int) /\ Len(Weights(c)) = Len(c) /\ DOMAIN Weights(c) = 1..Len(c)
         /\ \A k \in 1..Len(c) : /\ c[k] = <<c[k][1], c[k][2]>> /\ c[k][2] \in Nat
                                 /\ c[k][1] \in Levels \union {None}
                                 /\ Values(c)[k] \in Nat /\ Weights(c)[k] \in Nat
                                 /\ Values(c)[k] <= 100 * Weights(c)[k]
<1>1. Len(c) \in Nat /\ DOMAIN c = 1..Len(c) /\ \A k \in 1..Len(c) : c[k] \in (Levels \union {None}) \X Nat
  BY DEF Components
<1>2. \A k \in 1..Len(c) : c[k] = <<c[k][1], c[k][2]>> /\ c[k][2] \in Nat /\ c[k][1] \in Levels \union {None}
  BY <1>1
<1>3. ASSUME NEW k \in 1..Len(c)
      PROVE  Values(c)[k] \in Nat /\ Weights(c)[k] \in Nat /\ Values(c)[k] <= 100 * Weights(c)[k]
  <2>1. ASSUME NEW v \in Levels, NEW w \in Nat PROVE v * w \in Nat /\ v * w <= 100 * w
    BY <2>1 DEF Levels
  <2>2. CASE c[k][1] = None
    BY <1>1, <2>2 DEF Values, Weights
  <2>3. CASE c[k][1] # None
    <3>1. c[k][1] \in Levels /\ c[k][2] \in Nat
      BY <1>2, <2>3
    <3>2. Values(c)[k] = c[k][1] * c[k][2] /\ Weights(c)[k] = c[k][2]
      BY <1>1, <2>3 DEF Values, Weights
    <3>3. QED
      BY <2>1, <3>1, <3>2
  <2>4. QED
    BY <2>2, <2>3
<1>4. /\ DOMAIN Values(c) = 1..Len(c) /\ DOMAIN Weights(c) = 1..Len(c)
  BY <1>1 DEF Values, Weights
<1>5. ASSUME NEW f, DOMAIN f = 1..Len(c), f = [k \in 1..Len(c) |-> f[k]], \A k \in 1..Len(c) : f[k] \in Int
      PROVE  f \in Seq(Int) /\ Len(f) = Len(c)
  BY <1>1, <1>5
<1>6. Values(c) \in Seq(Int) /\ Len(Values(c)) = Len(c)
  <2>1. Values(c) = [k \in 1..Len(c) |-> Values(c)[k]]
    BY <1>1 DEF Values
  <2>2. QED
    BY <1>3, <1>4, <1>5, <2>1
<1>7. Weights(c) \in Seq(Int) /\ Len(Weights(c)) = Len(c)
  <2>1. Weights(c) = [k \in 1..Len(c) |-> Weights(c)[k]]
    BY <1>1 DEF Weights
  <2>2. QED
    BY <1>3, <1>4, <1>5, <2>1
<1>8. QED
  BY <1>1, <1>2, <1>3, <1>4, <1>6, <1>7

\* A sum and a weight that make a score: the mean is on the scale.
Fractions == {f \in Nat \X Nat : f[1] <= 100 * f[2]}

LEMMA SumsOfNaturals ==
  ASSUME NEW terms \in Seq(Int), \A k \in 1..Len(terms) : terms[k] \in Nat
  PROVE  Model!SumOf(terms) \in Nat
<1>1. \A k \in 1..Len(terms) : 0 * terms[k] <= 1 * terms[k]
  OBVIOUS
<1>2. 0 * Model!SumOf(terms) <= 1 * Model!SumOf(terms)
  BY <1>1, SumsCompare
<1>3. QED
  BY <1>2, SumIsInt

LEMMA ScoresAreFractions ==
  ASSUME None \notin Int, NEW c \in Components
  PROVE  Model!WeightedScore(c) \in Fractions
<1> DEFINE S == Model!SumOf(Values(c))
           W == Model!SumOf(Weights(c))
<1>1. S \in Nat /\ W \in Nat
  BY ComponentParts, SumsOfNaturals
<1>2. S <= 100 * W
  <2>1. /\ Values(c) \in Seq(Int) /\ Weights(c) \in Seq(Int) /\ Len(Weights(c)) = Len(Values(c))
        /\ \A k \in 1..Len(Values(c)) : 1 * Values(c)[k] <= 100 * Weights(c)[k]
    BY ComponentParts
  <2>2. 1 * Model!SumOf(Values(c)) <= 100 * Model!SumOf(Weights(c))
    BY <2>1, SumsCompare
  <2>3. QED
    BY <1>1, <2>2
<1> HIDE DEF S, W
<1>3. <<S, W>> \in Fractions
  BY <1>1, <1>2 DEF Fractions
<1>4. QED
  BY <1>3, ScoreIsSums DEF S, W

\* A component that is given another value, its weight as it was.
LEMMA ScoreChanges ==
  ASSUME None \notin Int, NEW c \in Components, NEW j \in 1..Len(c), NEW v \in Levels
  PROVE  LET changed == [c EXCEPT ![j] = <<v, c[j][2]>>]
         IN  /\ changed \in Components
             /\ Model!WeightedScore(changed)
                  = <<Model!WeightedScore(c)[1] - Values(c)[j] + v * c[j][2],
                      Model!WeightedScore(c)[2] - Weights(c)[j] + c[j][2]>>
<1> DEFINE changed == [c EXCEPT ![j] = <<v, c[j][2]>>]
           w == c[j][2]
<1>1. /\ Len(c) \in Nat /\ DOMAIN c = 1..Len(c) /\ w \in Nat
      /\ Values(c) \in Seq(Int) /\ Len(Values(c)) = Len(c) /\ DOMAIN Values(c) = 1..Len(c)
      /\ Weights(c) \in Seq(Int) /\ Len(Weights(c)) = Len(c) /\ DOMAIN Weights(c) = 1..Len(c)
  BY ComponentParts
<1>2. changed \in Components
  <2>1. <<v, w>> \in (Levels \union {None}) \X Nat
    BY <1>1
  <2>2. QED
    BY <1>1, <2>1 DEF Components
<1>3. v # None /\ v \in Int /\ v * w \in Int /\ w \in Int
  BY <1>1 DEF Levels
<1>4. /\ DOMAIN changed = 1..Len(c) /\ changed[j] = <<v, w>>
      /\ \A k \in 1..Len(c) : k # j => changed[k] = c[k]
  BY <1>1
<1> HIDE DEF changed, w
<1>5. Values(changed) = [Values(c) EXCEPT ![j] = v * w]
  <2> DEFINE after == [Values(c) EXCEPT ![j] = v * w]
  <2>1. DOMAIN after = 1..Len(c) /\ DOMAIN Values(changed) = 1..Len(c)
    BY <1>1, <1>4 DEF Values
  <2>2. ASSUME NEW k \in 1..Len(c) PROVE Values(changed)[k] = after[k]
    BY <1>1, <1>3, <1>4 DEF Values
  <2>3. after = [k \in 1..Len(c) |-> after[k]] /\ Values(changed) = [k \in 1..Len(c) |-> Values(changed)[k]]
    BY <1>1, <1>4 DEF Values
  <2> HIDE DEF after
  <2>4. Values(changed) = after
    BY <2>2, <2>3
  <2>5. QED
    BY <2>4 DEF after
<1>6. Weights(changed) = [Weights(c) EXCEPT ![j] = w]
  <2> DEFINE after == [Weights(c) EXCEPT ![j] = w]
  <2>2. ASSUME NEW k \in 1..Len(c) PROVE Weights(changed)[k] = after[k]
    BY <1>1, <1>3, <1>4 DEF Weights
  <2>3. after = [k \in 1..Len(c) |-> after[k]] /\ Weights(changed) = [k \in 1..Len(c) |-> Weights(changed)[k]]
    BY <1>1, <1>4 DEF Weights
  <2> HIDE DEF after
  <2>4. Weights(changed) = after
    BY <2>2, <2>3
  <2>5. QED
    BY <2>4 DEF after
<1>7. Model!SumOf(Values(changed)) = Model!SumOf(Values(c)) - Values(c)[j] + v * w
  <2>1. j \in 1..Len(Values(c)) /\ Values(c) \in Seq(Int) /\ v * w \in Int
    BY <1>1, <1>3
  <2>2. Model!SumOf([Values(c) EXCEPT ![j] = v * w]) = Model!SumOf(Values(c)) - Values(c)[j] + v * w
    BY <2>1, SumsChange, Zenon
  <2>3. QED
    BY <1>5, <2>2
<1>8. Model!SumOf(Weights(changed)) = Model!SumOf(Weights(c)) - Weights(c)[j] + w
  <2>1. j \in 1..Len(Weights(c)) /\ Weights(c) \in Seq(Int) /\ w \in Int
    BY <1>1, <1>3
  <2>2. Model!SumOf([Weights(c) EXCEPT ![j] = w]) = Model!SumOf(Weights(c)) - Weights(c)[j] + w
    BY <2>1, SumsChange, Zenon
  <2>3. QED
    BY <1>6, <2>2
<1>9. /\ Model!WeightedScore(changed) = <<Model!SumOf(Values(changed)), Model!SumOf(Weights(changed))>>
      /\ Model!WeightedScore(c) = <<Model!SumOf(Values(c)), Model!SumOf(Weights(c))>>
  BY ScoreIsSums
<1>10. Model!WeightedScore(changed)
         = <<Model!WeightedScore(c)[1] - Values(c)[j] + v * w, Model!WeightedScore(c)[2] - Weights(c)[j] + w>>
  BY <1>7, <1>8, <1>9
<1>11. QED
  BY <1>2, <1>10 DEF changed, w

\* What is known counts.
LEMMA KnownWeighs ==
  ASSUME None \notin Int, NEW c \in Components, NEW j \in 1..Len(c), c[j][1] # None
  PROVE  Model!WeightedScore(c)[2] >= c[j][2]
<1> DEFINE w == c[j][2]
           others == [Weights(c) EXCEPT ![j] = 0]
<1>1. /\ Weights(c) \in Seq(Int) /\ Len(Weights(c)) = Len(c) /\ DOMAIN Weights(c) = 1..Len(c)
      /\ \A k \in 1..Len(c) : Weights(c)[k] \in Nat
      /\ Weights(c)[j] = w /\ w \in Nat
  <2>1. DOMAIN c = 1..Len(c)
    BY ComponentParts
  <2>2. QED
    BY <2>1, ComponentParts DEF Weights
<1>2. others \in Seq(Int) /\ Len(others) = Len(c) /\ \A k \in 1..Len(others) : others[k] \in Nat
  BY <1>1
<1>3. Model!SumOf(others) \in Nat
  BY <1>2, SumsOfNaturals
<1>4. Model!SumOf(others) = Model!SumOf(Weights(c)) - Weights(c)[j] + 0
  <2>1. j \in 1..Len(Weights(c)) /\ 0 \in Int
    BY <1>1
  <2>2. QED
    BY <1>1, <2>1, SumsChange, Zenon
<1>5. Model!SumOf(Weights(c)) \in Int
  BY <1>1, SumIsInt
<1> HIDE DEF others, w
<1>6. Model!SumOf(Weights(c)) >= w
  BY <1>1, <1>3, <1>4, <1>5
<1>7. QED
  BY <1>6, ScoreIsSums DEF w

LEMMA QuotientsCompare ==
  ASSUME NEW n \in Nat, NEW m \in Nat, NEW b \in Nat \ {0}, NEW d \in Nat \ {0}, n * d <= m * b
  PROVE  n \div b \in Nat /\ m \div d \in Nat /\ n \div b <= m \div d
<1> DEFINE x == n \div b
           y == m \div d
<1>1. x \in Nat /\ x * b <= n
  <2>1. n = b * (n \div b) + (n % b) /\ n % b \in 0..(b - 1) /\ n \div b \in Nat
    OBVIOUS
  <2>2. QED
    BY <2>1
<1>2. y \in Nat /\ m < (y + 1) * d
  <2>1. m = d * (m \div d) + (m % d) /\ m % d \in 0..(d - 1) /\ m \div d \in Nat
    OBVIOUS
  <2>2. m < d * (m \div d) + d
    BY <2>1
  <2>3. (y + 1) * d = d * (m \div d) + d
    BY <2>1
  <2>4. QED
    BY <2>1, <2>2, <2>3
<1> HIDE DEF x, y
<1>3. ASSUME y < x PROVE FALSE
  <2>1. y + 1 <= x
    BY <1>1, <1>2, <1>3
  <2>2. ASSUME NEW p \in Nat, NEW q \in Nat, NEW k \in Nat, p <= q PROVE p * k <= q * k /\ p * k \in Nat
    BY <2>2
  <2>3. (y + 1) * d <= x * d
    BY <1>1, <1>2, <2>1, <2>2
  <2>4. m < x * d
    BY <1>1, <1>2, <2>3
  <2>5. (x * b) * d <= n * d
    BY <1>1, <2>2
  <2>6. m * b < (x * d) * b
    <3>1. ASSUME NEW p \in Nat, NEW q \in Nat, p < q PROVE p * b < q * b
      BY <3>1
    <3>2. x * d \in Nat
      BY <1>1
    <3>3. QED
      BY <2>4, <3>1, <3>2
  <2>7. (x * d) * b = (x * b) * d
    BY <1>1
  <2>8. m * b \in Nat /\ n * d \in Nat /\ (x * b) * d \in Nat
    BY <1>1
  <2>9. QED
    BY <2>5, <2>6, <2>7, <2>8
<1>4. QED
  BY <1>1, <1>2, <1>3 DEF x, y

\* A larger mean and a larger percentage make no lower score.
LEMMA ScoresCompare ==
  ASSUME NEW f \in Fractions, NEW g \in Fractions, f[2] > 0, g[2] > 0, f[1] * g[2] <= g[1] * f[2],
         NEW p \in Nat, NEW q \in Nat, p <= q
  PROVE  /\ Model!ToScore100(f, p) \in Levels /\ Model!ToScore100(g, q) \in Levels
         /\ Model!ToScore100(f, p) <= Model!ToScore100(g, q)
<1> DEFINE a == f[1]
           b == f[2]
           c == g[1]
           d == g[2]
           n == 2 * (a * p) + b * 100
           m == 2 * (c * q) + d * 100
           x == n \div (2 * (b * 100))
           y == m \div (2 * (d * 100))
<1>1. a \in Nat /\ b \in Nat \ {0} /\ c \in Nat /\ d \in Nat \ {0} /\ a * d <= c * b
  BY DEF Fractions
<1> HIDE DEF a, b, c, d
<1>2. n \in Nat /\ m \in Nat /\ 2 * (b * 100) \in Nat \ {0} /\ 2 * (d * 100) \in Nat \ {0}
  BY <1>1
<1>3. n * (2 * (d * 100)) <= m * (2 * (b * 100))
  <2>1. n * (2 * (d * 100)) = 400 * ((a * d) * p) + 20000 * (b * d)
    BY <1>1
  <2>2. m * (2 * (b * 100)) = 400 * ((c * b) * q) + 20000 * (b * d)
    BY <1>1
  <2>3. (a * d) * p <= (c * b) * q
    <3>1. ASSUME NEW s \in Nat, NEW t \in Nat, s <= t PROVE s * p <= t * q
      <4>1. s * p <= t * p
        BY <3>1
      <4>2. t * p <= t * q
        BY <3>1
      <4>3. s * p \in Nat /\ t * p \in Nat /\ t * q \in Nat
        BY <3>1
      <4>4. QED
        BY <4>1, <4>2, <4>3
    <3>2. a * d \in Nat /\ c * b \in Nat
      BY <1>1
    <3>3. QED
      BY <1>1, <3>1, <3>2
  <2>4. (a * d) * p \in Nat /\ (c * b) * q \in Nat /\ b * d \in Nat
    BY <1>1
  <2> HIDE DEF n, m
  <2> DEFINE left == (a * d) * p
             right == (c * b) * q
             rest == b * d
  <2>5. left \in Nat /\ right \in Nat /\ rest \in Nat /\ left <= right
        /\ n * (2 * (d * 100)) = 400 * left + 20000 * rest /\ m * (2 * (b * 100)) = 400 * right + 20000 * rest
    BY <2>1, <2>2, <2>3, <2>4
  <2> HIDE DEF left, right, rest
  <2>6. 400 * left + 20000 * rest <= 400 * right + 20000 * rest
    BY <2>5
  <2>7. QED
    BY <2>5, <2>6
<1>4. x \in Nat /\ y \in Nat /\ x <= y
  BY <1>2, <1>3, QuotientsCompare
<1>5. Model!ToScore100(f, p) = Model!Clamp(x, 0, 100) /\ Model!ToScore100(g, q) = Model!Clamp(y, 0, 100)
  <2>1. 2 * (a * p) = 2 * a * p /\ 2 * (c * q) = 2 * c * q
    BY <1>1
  <2>2. QED
    BY DEF Model!ToScore100, a, b, c, d
<1> HIDE DEF x, y
<1>6. QED
  BY <1>4, <1>5 DEF Model!Clamp, Levels

\* Means and scores, where the weights and the percentage are given.
Rounded(c, percent) == Model!ToScore100(Model!WeightedScore(c), percent)

\* math.ts, weightedScore: a component nobody knows neither adds nor drags.
LEMMA UnknownsAreNeutral ==
  ASSUME None \notin Int, NEW c \in Components, NEW j \in 1..Len(c), c[j][1] = None,
         Model!WeightedScore(c)[2] > 0, NEW percent \in Nat
  PROVE  /\ Rounded([c EXCEPT ![j] = <<0, c[j][2]>>], percent) <= Rounded(c, percent)
         /\ Rounded(c, percent) <= Rounded([c EXCEPT ![j] = <<100, c[j][2]>>], percent)
<1> DEFINE f == Model!WeightedScore(c)
           with(v) == Model!WeightedScore([c EXCEPT ![j] = <<v, c[j][2]>>])
           w == c[j][2]
<1>1. f \in Fractions /\ w \in Nat
  BY ScoresAreFractions, ComponentParts
<1>2. ASSUME NEW v \in Levels
      PROVE  with(v) \in Fractions /\ with(v)[1] = f[1] + v * w /\ with(v)[2] = f[2] + w
  <2>1. [c EXCEPT ![j] = <<v, w>>] \in Components /\ with(v) = <<f[1] - Values(c)[j] + v * w, f[2] - Weights(c)[j] + w>>
    BY ScoreChanges
  <2>2. Values(c)[j] = 0 /\ Weights(c)[j] = 0
    <3>1. DOMAIN c = 1..Len(c)
      BY ComponentParts
    <3>2. QED
      BY <3>1 DEF Values, Weights
  <2>3. with(v) \in Fractions
    BY <2>1, ScoresAreFractions
  <2>4. f[1] \in Nat /\ f[2] \in Nat
    BY <1>1 DEF Fractions
  <2> HIDE DEF with, f, w
  <2>5. QED
    BY <2>1, <2>2, <2>3, <2>4
<1>3. 0 \in Levels /\ 100 \in Levels
  BY DEF Levels
<1>4. /\ with(0) \in Fractions /\ with(0)[1] = f[1] /\ with(0)[2] = f[2] + w
      /\ with(100) \in Fractions /\ with(100)[1] = f[1] + 100 * w /\ with(100)[2] = f[2] + w
  <2>1. f[1] \in Nat
    BY <1>1 DEF Fractions
  <2>2. f[1] + 0 * w = f[1]
    BY <1>1, <2>1
  <2>3. QED
    BY <1>2, <1>3, <2>2
<1>5. f[1] \in Nat /\ f[2] \in Nat /\ f[2] > 0 /\ f[1] <= 100 * f[2]
  BY <1>1 DEF Fractions
<1> HIDE DEF f, with, w
<1>6. with(0)[1] * f[2] <= f[1] * with(0)[2]
  <2>1. ASSUME NEW s \in Nat, NEW t \in Nat PROVE s * t <= s * (t + w)
    BY <1>1, <2>1
  <2>2. QED
    BY <1>4, <1>5, <2>1
<1>7. f[1] * with(100)[2] <= with(100)[1] * f[2]
  <2>1. ASSUME NEW s \in Nat, NEW t \in Nat, s <= 100 * t
        PROVE  s * (t + w) <= (s + 100 * w) * t
    <3>1. s * (t + w) = s * t + s * w /\ (s + 100 * w) * t = s * t + (100 * t) * w
      BY <1>1
    <3>2. s * w <= (100 * t) * w
      <4>1. ASSUME NEW p \in Nat, NEW q \in Nat, p <= q PROVE p * w <= q * w
        BY <1>1, <4>1
      <4>2. 100 * t \in Nat
        OBVIOUS
      <4>3. QED
        BY <2>1, <4>1, <4>2
    <3>3. s * t \in Nat /\ s * w \in Nat /\ (100 * t) * w \in Nat
      BY <1>1
    <3>4. QED
      BY <3>1, <3>2, <3>3
  <2>2. QED
    BY <1>4, <1>5, <2>1
<1>8. with(0)[2] > 0 /\ with(100)[2] > 0
  BY <1>1, <1>4, <1>5
<1>9. /\ Model!ToScore100(with(0), percent) <= Model!ToScore100(f, percent)
      /\ Model!ToScore100(f, percent) <= Model!ToScore100(with(100), percent)
  BY <1>1, <1>4, <1>5, <1>6, <1>7, <1>8, ScoresCompare
<1>10. QED
  BY <1>9 DEF Rounded, with, f, w

\* math.ts, weightedScore: more of what is known never lowers the score.
LEMMA MoreNeverLowers ==
  ASSUME None \notin Int, NEW c \in Components, NEW j \in 1..Len(c), c[j][1] # None, NEW v \in Levels, c[j][1] <= v,
         Model!WeightedScore(c)[2] > 0, NEW percent \in Nat
  PROVE  Rounded(c, percent) <= Rounded([c EXCEPT ![j] = <<v, c[j][2]>>], percent)
<1> DEFINE f == Model!WeightedScore(c)
           g == Model!WeightedScore([c EXCEPT ![j] = <<v, c[j][2]>>])
           w == c[j][2]
           u == c[j][1]
<1>1. f \in Fractions /\ w \in Nat /\ u \in Levels
  BY ScoresAreFractions, ComponentParts
<1>2. [c EXCEPT ![j] = <<v, w>>] \in Components /\ g = <<f[1] - Values(c)[j] + v * w, f[2] - Weights(c)[j] + w>>
  BY ScoreChanges
<1>3. Values(c)[j] = u * w /\ Weights(c)[j] = w
  <2>1. DOMAIN c = 1..Len(c)
    BY ComponentParts
  <2>2. QED
    BY <2>1 DEF Values, Weights
<1>4. g \in Fractions
  BY <1>2, ScoresAreFractions
<1>5. f[1] \in Nat /\ f[2] \in Nat /\ f[2] > 0 /\ g[1] \in Nat /\ g[2] \in Nat
  BY <1>1, <1>4 DEF Fractions
<1>6. u <= v /\ u \in Nat /\ v \in Nat
  <2>1. u <= v
    OBVIOUS
  <2>2. u \in Levels /\ v \in Levels
    BY <1>1
  <2> HIDE DEF u
  <2>3. QED
    BY <2>1, <2>2 DEF Levels
<1> HIDE DEF f, g, w, u
<1>7. u * w <= v * w /\ u * w \in Nat /\ v * w \in Nat
  BY <1>1, <1>6
<1>8. g[2] = f[2] /\ f[1] <= g[1]
  BY <1>1, <1>2, <1>3, <1>5, <1>7
<1>9. f[1] * g[2] <= g[1] * f[2]
  BY <1>5, <1>8
<1>10. Model!ToScore100(f, percent) <= Model!ToScore100(g, percent)
  BY <1>1, <1>4, <1>5, <1>8, <1>9, ScoresCompare
<1>11. QED
  BY <1>10 DEF Rounded, f, g, w

\* math.ts, weightedScore: components that all say the same are repeated by the
\* score, however few of them are known.
LEMMA AgreementIsRepeated ==
  ASSUME None \notin Int, NEW c \in Components, NEW v \in Levels, \A k \in 1..Len(c) : c[k][1] \in {None, v},
         Model!WeightedScore(c)[2] > 0
  PROVE  Rounded(c, 100) = v
<1> DEFINE S == Model!SumOf(Values(c))
           W == Model!SumOf(Weights(c))
<1>1. /\ Values(c) \in Seq(Int) /\ Weights(c) \in Seq(Int) /\ Len(Weights(c)) = Len(Values(c))
      /\ Len(Values(c)) = Len(c) /\ DOMAIN c = 1..Len(c)
  BY ComponentParts
<1>2. \A k \in 1..Len(c) : Values(c)[k] = v * Weights(c)[k] /\ Weights(c)[k] \in Nat
  <2>1. ASSUME NEW k \in 1..Len(c) PROVE Values(c)[k] = v * Weights(c)[k]
    <3>1. v * 0 = 0
      BY DEF Levels
    <3>2. QED
      BY <1>1, <3>1 DEF Values, Weights
  <2>2. QED
    BY <2>1, ComponentParts
<1>3. v \in Int /\ 1 \in Int /\ \A k \in 1..Len(c) : v * Weights(c)[k] \in Int
  BY <1>2 DEF Levels
<1>4. 1 * S <= v * W
  <2>1. \A k \in 1..Len(Values(c)) : 1 * Values(c)[k] <= v * Weights(c)[k]
    BY <1>1, <1>2, <1>3
  <2>2. QED
    BY <1>1, <1>3, <2>1, SumsCompare
<1>5. v * W <= 1 * S
  <2>1. \A k \in 1..Len(Weights(c)) : v * Weights(c)[k] <= 1 * Values(c)[k]
    BY <1>1, <1>2, <1>3
  <2>2. Len(Values(c)) = Len(Weights(c))
    BY <1>1
  <2>3. QED
    BY <1>1, <1>3, <2>1, <2>2, SumsCompare
<1>6. S \in Int /\ W \in Int
  BY <1>1, SumIsInt
<1>7. Model!WeightedScore(c) = <<S, W>>
  BY ScoreIsSums
<1>8. W > 0 /\ v \in Levels
  BY <1>7
<1> HIDE DEF S, W
<1>9. S = v * W
  <2>1. v * W \in Int
    BY <1>3, <1>6
  <2>2. QED
    BY <1>4, <1>5, <1>6, <2>1
<1>10. (2 * (S * 100) + W * 100) \div (2 * (W * 100)) = v
  <2> DEFINE d == 2 * (W * 100)
  <2>1. d \in Nat \ {0} /\ W * 100 \in Nat /\ W * 100 < d
    BY <1>6, <1>8
  <2>2. 2 * (S * 100) = v * d
    BY <1>3, <1>6, <1>9
  <2>3. ASSUME NEW n \in Nat, NEW r \in Nat, NEW k \in Nat \ {0}, r < k
        PROVE  (n * k + r) \div k = n
    <3>1. (n * k + r) \in Nat
      BY <2>3
    <3> DEFINE t == n * k + r
    <3>2. t = k * (t \div k) + (t % k) /\ t % k \in 0..(k - 1) /\ t \div k \in Nat
      BY <2>3, <3>1
    <3> DEFINE q == t \div k
    <3>3. CASE q < n
      <4>0. q \in Nat /\ q + 1 <= n
        BY <2>3, <3>2, <3>3
      <4> HIDE DEF q
      <4>1. k * q + k <= n * k
        BY <2>3, <4>0
      <4> USE DEF q
      <4>2. QED
        BY <2>3, <3>2, <4>1
    <3>4. CASE q > n
      <4>1. n * k + k <= k * q
        BY <2>3, <3>2, <3>4
      <4>2. QED
        BY <2>3, <3>2, <4>1
    <3>5. QED
      BY <3>2, <3>3, <3>4
  <2>4. v \in Nat
    BY DEF Levels
  <2> HIDE DEF d
  <2>5. (v * d + W * 100) \div d = v
    BY <2>1, <2>3, <2>4
  <2>6. QED
    BY <2>2, <2>5 DEF d
<1>11. Model!ToScore100(<<S, W>>, 100) = Model!Clamp((2 * (S * 100) + W * 100) \div (2 * (W * 100)), 0, 100)
  BY <1>6 DEF Model!ToScore100
<1>12. QED
  BY <1>7, <1>10, <1>11 DEF Rounded, Model!Clamp, Levels

LEMMA PriorsAreLevels == \A category \in DOMAIN Model!Prior : Model!Prior[category] \in 1..100
BY DEF Model!Prior, Model!NamedPrior

LEMMA ClampsCompare ==
  ASSUME NEW x \in Int, NEW y \in Int, x <= y, NEW low \in Int, NEW high \in Int, low <= high
  PROVE  /\ Model!Clamp(x, low, high) \in low..high /\ Model!Clamp(y, low, high) \in low..high
         /\ Model!Clamp(x, low, high) <= Model!Clamp(y, low, high)
BY DEF Model!Clamp

\* Every score is on its scale.
LEMMA RoundedIsLevel ==
  ASSUME None \notin Int, NEW c \in Components, Model!WeightedScore(c)[2] > 0, NEW percent \in Nat
  PROVE  Rounded(c, percent) \in Levels
<1> DEFINE f == Model!WeightedScore(c)
<1>1. f \in Fractions
  BY ScoresAreFractions
<1>2. f[1] * f[2] <= f[1] * f[2]
  BY <1>1 DEF Fractions
<1> HIDE DEF f
<1>3. f[2] > 0
  BY DEF f
<1>4. Model!ToScore100(f, percent) \in Levels
  BY <1>1, <1>2, <1>3, ScoresCompare
<1>5. QED
  BY <1>4 DEF Rounded, f

LEMMA CorroborationIsLevel ==
  ASSUME NEW base \in Nat, NEW step \in Nat, NEW doublings \in Nat \union {None}
  PROVE  Model!Corroboration(base, step, doublings) \in Levels \union {None}
<1>1. ASSUME doublings \in Nat PROVE base + step * doublings \in Int
  BY <1>1
<1> HIDE DEF Levels
<1>2. ASSUME NEW x \in Int PROVE Model!Clamp(x, 0, 100) \in Levels
  BY DEF Model!Clamp, Levels
<1>3. QED
  BY <1>1, <1>2 DEF Model!Corroboration

\* The importance: the place of each optional input among the parts.
Place == [model |-> 2, hint |-> 3, magnitude |-> 4, authority |-> 5, engagement |-> 6]

Rateable(i) ==
  /\ Has(i, Model!OptionalInputs, Known100) /\ Has(i, {"credibility", "decay"}, 0..100)
  /\ Has(i, {"category"}, DOMAIN Model!Prior) /\ Has(i, {"doublings"}, Nat \union {None})

LEMMA PartsOfImportance ==
  ASSUME None \notin Int, NEW i, Rateable(i)
  PROVE  LET c == Model!ImportanceParts(i)
         IN  /\ c \in Components /\ Len(c) = 8 /\ c[1][1] # None /\ c[1][2] = 30
             /\ \A f \in Model!OptionalInputs : Place[f] \in 1..8 /\ c[Place[f]][1] = i[f]
             /\ Model!WeightedScore(c)[2] > 0
<1> DEFINE c == Model!ImportanceParts(i)
           parts == <<Model!Prior[i.category], i.model, i.hint, i.magnitude, i.authority, i.engagement,
                      Model!Corroboration(50, 18, i.doublings), i.credibility>>
           weights == <<30, 25, 20, 20, 12, 10, 15, 15>>
<1>1. Model!Prior[i.category] \in Levels
  BY PriorsAreLevels DEF Rateable, Has, Levels
<1>2. Model!Corroboration(50, 18, i.doublings) \in Levels \union {None}
  BY CorroborationIsLevel DEF Rateable, Has
<1>3. /\ i.model \in Levels \union {None} /\ i.hint \in Levels \union {None} /\ i.magnitude \in Levels \union {None}
      /\ i.authority \in Levels \union {None} /\ i.engagement \in Levels \union {None} /\ i.credibility \in Levels \union {None}
  BY DEF Rateable, Has, Levels, Known100, Model!OptionalInputs
<1>4. c = <<<<Model!Prior[i.category], 30>>, <<i.model, 25>>, <<i.hint, 20>>, <<i.magnitude, 20>>, <<i.authority, 12>>,
            <<i.engagement, 10>>, <<Model!Corroboration(50, 18, i.doublings), 15>>, <<i.credibility, 15>>>>
  BY DEF Model!ImportanceParts
<1> HIDE DEF c
<1>5. c \in Components
  BY <1>1, <1>2, <1>3, <1>4 DEF Components
<1>6. Len(c) = 8 /\ c[1] = <<Model!Prior[i.category], 30>>
  BY <1>4
<1>7. c[1][1] # None /\ c[1][2] = 30
  BY <1>1, <1>6 DEF Levels
<1>8. \A f \in Model!OptionalInputs : Place[f] \in 1..8 /\ c[Place[f]][1] = i[f]
  BY <1>4 DEF Place, Model!OptionalInputs
<1>9. Model!WeightedScore(c)[2] >= 30
  <2>1. Model!WeightedScore(c)[2] >= c[1][2]
    <3>1. 1 \in 1..Len(c)
      BY <1>6
    <3>2. QED
      BY <1>5, <1>7, <3>1, KnownWeighs
  <2>2. QED
    BY <1>7, <2>1
<1>10. Model!WeightedScore(c) \in Fractions
  BY <1>5, ScoresAreFractions
<1>11. Model!WeightedScore(c)[2] > 0
  BY <1>9, <1>10 DEF Fractions
<1>12. QED
  BY <1>5, <1>6, <1>7, <1>8, <1>11 DEF c

LEMMA PartsChange ==
  ASSUME NEW i, Rateable(i), NEW f \in Model!OptionalInputs, NEW v
  PROVE  LET c == Model!ImportanceParts(i)
         IN  Model!ImportanceParts([i EXCEPT ![f] = v]) = [c EXCEPT ![Place[f]] = <<v, c[Place[f]][2]>>]
<1> DEFINE j == [i EXCEPT ![f] = v]
<1>1. /\ Model!OptionalInputs \union {"credibility", "decay", "category", "doublings"} \subseteq DOMAIN i
      /\ j[f] = v /\ \A g \in DOMAIN i \ {f} : j[g] = i[g]
  BY DEF Rateable, Has
<1> HIDE DEF j
<1>2. /\ j.category = i.category /\ j.doublings = i.doublings /\ j.credibility = i.credibility
      /\ \A g \in Model!OptionalInputs \ {f} : j[g] = i[g]
  BY <1>1 DEF Model!OptionalInputs
<1>3. CASE f = "model"
  BY <1>1, <1>2, <1>3 DEF Model!ImportanceParts, Place, Model!OptionalInputs
<1>4. CASE f = "hint"
  BY <1>1, <1>2, <1>4 DEF Model!ImportanceParts, Place, Model!OptionalInputs
<1>5. CASE f = "magnitude"
  BY <1>1, <1>2, <1>5 DEF Model!ImportanceParts, Place, Model!OptionalInputs
<1>6. CASE f = "authority"
  BY <1>1, <1>2, <1>6 DEF Model!ImportanceParts, Place, Model!OptionalInputs
<1>7. CASE f = "engagement"
  BY <1>1, <1>2, <1>7 DEF Model!ImportanceParts, Place, Model!OptionalInputs
<1>8. QED
  BY <1>3, <1>4, <1>5, <1>6, <1>7 DEF Model!OptionalInputs, j

\* scoring.ts, computeImportance: ImportanceSound of every input.
THEOREM ImportanceAlwaysSound ==
  ASSUME None \notin Int, NEW i, Rateable(i)
  PROVE  Model!ImportanceSound(i)
<1> DEFINE score(c, percent) == Model!Clamp(Rounded(c, percent), 1, 100)
<1>0. \A j : Model!ComputeImportance(j) = score(Model!ImportanceParts(j), j.decay)
  BY DEF Model!ComputeImportance, Rounded
<1>1. Model!ComputeImportance(i) \in 1..100
  <2>1. Rounded(Model!ImportanceParts(i), i.decay) \in Levels
    BY PartsOfImportance, RoundedIsLevel DEF Rateable, Has
  <2>2. QED
    BY <1>0, <2>1 DEF Model!Clamp, Levels
<1>2. ASSUME NEW f \in Model!OptionalInputs, NEW u \in Known100
      PROVE  LET j == [i EXCEPT ![f] = u] IN Rateable(j) /\ j[f] = u /\ j.decay = i.decay /\ i.decay \in Nat
  <2> DEFINE j == [i EXCEPT ![f] = u]
  <2>1. /\ DOMAIN j = DOMAIN i /\ j[f] = u /\ \A g \in DOMAIN i \ {f} : j[g] = i[g]
        /\ Model!OptionalInputs \union {"credibility", "decay", "category", "doublings"} \subseteq DOMAIN i
    BY DEF Rateable, Has
  <2>2. f \notin {"credibility", "decay", "category", "doublings"}
    BY DEF Model!OptionalInputs
  <2> HIDE DEF j
  <2>3. Rateable(j)
    BY <1>2, <2>1, <2>2 DEF Rateable, Has
  <2>4. j.decay = i.decay /\ i.decay \in Nat
    BY <2>1, <2>2 DEF Rateable, Has
  <2>5. QED
    BY <2>1, <2>3, <2>4 DEF j
<1>3. ASSUME NEW f \in Model!OptionalInputs, NEW u \in Known100, NEW v \in Levels,
             u = None \/ u <= v
      PROVE  LET at(value) == Model!ComputeImportance([i EXCEPT ![f] = value])
             IN  /\ u # None => at(u) <= at(v)
                 /\ u = None /\ v = 0 => at(v) <= at(u)
                 /\ u = None /\ v = 100 => at(u) <= at(v)
  <2> DEFINE at(value) == Model!ComputeImportance([i EXCEPT ![f] = value])
             j == [i EXCEPT ![f] = u]
             c == Model!ImportanceParts(j)
             d == [c EXCEPT ![Place[f]] = <<v, c[Place[f]][2]>>]
  <2>1. Rateable(j) /\ j[f] = u /\ j.decay = i.decay /\ i.decay \in Nat
    BY <1>2
  <2>2. [j EXCEPT ![f] = v] = [i EXCEPT ![f] = v]
    OBVIOUS
  <2> HIDE DEF j
  <2>3. /\ c \in Components /\ Len(c) = 8 /\ Place[f] \in 1..8 /\ c[Place[f]][1] = u
        /\ Model!WeightedScore(c)[2] > 0
    BY <2>1, PartsOfImportance
  <2>4. Model!ImportanceParts([i EXCEPT ![f] = v]) = d
    BY <2>1, <2>2, PartsChange
  <2>5. [i EXCEPT ![f] = v].decay = i.decay
    BY <1>2 DEF Levels, Known100
  <2>6. at(u) = score(c, i.decay) /\ at(v) = score(d, i.decay)
    BY <1>0, <2>1, <2>4, <2>5 DEF j
  <2>7. d \in Components /\ Model!WeightedScore(d)[2] > 0
    <3>1. Place[f] \in 1..Len(c)
      BY <2>3
    <3>2. d \in Components
      BY <2>3, <3>1, ScoreChanges
    <3>3. QED
      <4>1. v \in Known100
        BY DEF Levels, Known100
      <4>2. Rateable([i EXCEPT ![f] = v])
        BY <1>2, <4>1
      <4>3. QED
        BY <2>4, <4>2, PartsOfImportance
  <2>8. Rounded(c, i.decay) \in Levels /\ Rounded(d, i.decay) \in Levels
    BY <2>1, <2>3, <2>7, RoundedIsLevel
  <2>9. /\ u # None => Rounded(c, i.decay) <= Rounded(d, i.decay)
        /\ u = None /\ v = 0 => Rounded(d, i.decay) <= Rounded(c, i.decay)
        /\ u = None /\ v = 100 => Rounded(c, i.decay) <= Rounded(d, i.decay)
    <3>1. Place[f] \in 1..Len(c)
      BY <2>3
    <3>2. CASE u # None
      BY <1>3, <2>1, <2>3, <3>1, <3>2, MoreNeverLowers
    <3>3. CASE u = None
      <4>1. i.decay \in Nat /\ c[Place[f]][1] = None
        BY <2>1, <2>3, <3>3
      <4> HIDE DEF c
      <4>2. /\ Rounded([c EXCEPT ![Place[f]] = <<0, c[Place[f]][2]>>], i.decay) <= Rounded(c, i.decay)
            /\ Rounded(c, i.decay) <= Rounded([c EXCEPT ![Place[f]] = <<100, c[Place[f]][2]>>], i.decay)
        BY <2>3, <3>1, <4>1, UnknownsAreNeutral
      <4>3. QED
        BY <3>3, <4>2
    <3>4. QED
      BY <3>2, <3>3
  <2> HIDE DEF at, c, d
  <2>10. /\ u # None => at(u) <= at(v)
         /\ u = None /\ v = 0 => at(v) <= at(u)
         /\ u = None /\ v = 100 => at(u) <= at(v)
    <3>1. \A x, y \in Levels : x <= y => Model!Clamp(x, 1, 100) <= Model!Clamp(y, 1, 100)
      BY ClampsCompare DEF Levels
    <3>2. QED
      BY <2>6, <2>8, <2>9, <3>1
  <2>11. QED
    BY <2>10 DEF at
<1>4. ASSUME NEW f \in Model!OptionalInputs
      PROVE  Model!ComputeImportance(Model!OnlyAgreeing(i, f)) = Model!Prior[i.category]
  <2> DEFINE j == Model!OnlyAgreeing(i, f)
             p == Model!Prior[i.category]
             c == Model!ImportanceParts(j)
  <2>1. p \in 1..100 /\ i.category \in DOMAIN Model!Prior
    BY PriorsAreLevels DEF Rateable, Has
  <2>2. /\ DOMAIN j = DOMAIN i
        /\ Model!OptionalInputs \union {"credibility", "decay", "category", "doublings"} \subseteq DOMAIN i
    BY DEF Model!OnlyAgreeing, Rateable, Has
  <2>3. /\ j[f] = p /\ j.credibility = p /\ j.decay = 100 /\ j.category = i.category /\ j.doublings = None
        /\ \A g \in Model!OptionalInputs \ {f} : j[g] = None
    BY <2>2 DEF Model!OnlyAgreeing, Model!OptionalInputs
  <2> HIDE DEF j
  <2>4. Rateable(j)
    BY <2>1, <2>2, <2>3 DEF Rateable, Has, Known100
  <2>5. \A k \in 1..8 : c[k][1] \in {None, p}
    <3>1. Model!Corroboration(50, 18, j.doublings) = None
      BY <2>3 DEF Model!Corroboration
    <3>2. \A g \in {"model", "hint", "magnitude", "authority", "engagement"} : j[g] \in {None, p}
      BY <2>3 DEF Model!OptionalInputs
    <3>3. Model!Prior[j.category] = p /\ j.credibility = p
      BY <2>3
    <3> HIDE DEF p
    <3>4. QED
      BY <3>1, <3>2, <3>3 DEF Model!ImportanceParts
  <2>6. c \in Components /\ Len(c) = 8 /\ Model!WeightedScore(c)[2] > 0 /\ p \in Levels
    BY <2>1, <2>4, PartsOfImportance DEF Levels
  <2>7. Rounded(c, 100) = p
    BY <2>5, <2>6, AgreementIsRepeated
  <2>8. Model!ComputeImportance(j) = Model!Clamp(p, 1, 100)
    BY <1>0, <2>3, <2>7
  <2>9. QED
    BY <2>1, <2>8 DEF Model!Clamp, j
<1>5. ASSUME NEW f \in Model!OptionalInputs
      PROVE  LET at(value) == Model!ComputeImportance([i EXCEPT ![f] = value])
             IN  /\ at(0) <= at(None) /\ at(None) <= at(100)
                 /\ i[f] # None /\ i[f] < 100 => at(i[f]) <= at(i[f] + 1)
  <2>1. None \in Known100 /\ 0 \in Levels /\ 100 \in Levels
    BY DEF Known100, Levels
  <2>2. i[f] \in Known100
    BY DEF Rateable, Has
  <2>3. i[f] # None /\ i[f] < 100 => i[f] + 1 \in Levels /\ i[f] <= i[f] + 1
    BY <2>2 DEF Known100, Levels
  <2>4. QED
    BY <1>3, <2>1, <2>2, <2>3
<1>6. QED
  BY <1>1, <1>4, <1>5 DEF Model!ImportanceSound

LEMMA PercentsCompare ==
  ASSUME None \notin Int, NEW c \in Components, Model!WeightedScore(c)[2] > 0, NEW p \in Nat, NEW q \in Nat, p <= q
  PROVE  Rounded(c, p) <= Rounded(c, q)
<1> DEFINE f == Model!WeightedScore(c)
<1>1. f \in Fractions
  BY ScoresAreFractions
<1>2. f[1] * f[2] <= f[1] * f[2]
  BY <1>1 DEF Fractions
<1> HIDE DEF f
<1>3. f[2] > 0
  BY DEF f
<1>4. Model!ToScore100(f, p) <= Model!ToScore100(f, q)
  BY <1>1, <1>2, <1>3, ScoresCompare
<1>5. QED
  BY <1>4 DEF Rounded, f

LEMMA MoreCorroboration ==
  ASSUME NEW base \in Nat, NEW step \in Nat, NEW doublings \in Nat \ {0}, None \notin Int
  PROVE  /\ Model!Corroboration(base, step, doublings) \in Levels
         /\ Model!Corroboration(base, step, doublings + 1) \in Levels
         /\ Model!Corroboration(base, step, doublings) <= Model!Corroboration(base, step, doublings + 1)
<1> DEFINE x == base + step * doublings
           y == base + step * (doublings + 1)
<1>1. x \in Int /\ y \in Int /\ x <= y
  <2>1. step * (doublings + 1) = step * doublings + step /\ step * doublings \in Nat
    OBVIOUS
  <2>2. QED
    BY <2>1
<1>2. doublings # None /\ doublings # 0 /\ doublings + 1 # None /\ doublings + 1 # 0
  OBVIOUS
<1> HIDE DEF x, y
<1>3. Model!Corroboration(base, step, doublings) = Model!Clamp(x, 0, 100)
        /\ Model!Corroboration(base, step, doublings + 1) = Model!Clamp(y, 0, 100)
  BY <1>2 DEF Model!Corroboration, x, y
<1>4. Model!Clamp(x, 0, 100) \in Levels /\ Model!Clamp(y, 0, 100) \in Levels /\ Model!Clamp(x, 0, 100) <= Model!Clamp(y, 0, 100)
  BY <1>1 DEF Model!Clamp, Levels
<1>5. QED
  BY <1>3, <1>4

Trustable(i) ==
  /\ Has(i, {"model"}, Known100) /\ Has(i, {"credibility"}, 0..100)
  /\ Has(i, {"doublings"}, Nat \union {None}) /\ Has(i, {"hardData", "agree"}, BOOLEAN)

LEMMA PartsOfConfidence ==
  ASSUME None \notin Int, NEW i, Trustable(i)
  PROVE  LET c == Model!ConfidenceParts(i)
         IN  /\ c \in Components /\ Len(c) = 4 /\ Model!WeightedScore(c)[2] > 0
             /\ c[1] = <<i.credibility, 30>> /\ c[3] = <<Model!Corroboration(40, 20, i.doublings), 20>>
<1> DEFINE c == Model!ConfidenceParts(i)
           hard == IF i.hardData THEN 95 ELSE None
<1>1. Model!Corroboration(40, 20, i.doublings) \in Levels \union {None}
  BY CorroborationIsLevel DEF Trustable, Has
<1>2. i.model \in Levels \union {None} /\ i.credibility \in Levels /\ hard \in Levels \union {None}
  BY DEF Trustable, Has, Levels, Known100
<1>3. c = <<<<i.credibility, 30>>, <<i.model, 20>>, <<Model!Corroboration(40, 20, i.doublings), 20>>, <<hard, 25>>>>
  BY DEF Model!ConfidenceParts
<1> HIDE DEF c, hard
<1>4. c \in Components
  BY <1>1, <1>2, <1>3 DEF Components
<1>5. /\ Len(c) = 4 /\ 1 \in 1..Len(c) /\ c[1] = <<i.credibility, 30>>
      /\ c[3] = <<Model!Corroboration(40, 20, i.doublings), 20>>
  BY <1>3
<1>6. c[1][1] # None /\ c[1][2] = 30
  BY <1>2, <1>5 DEF Levels
<1>7. Model!WeightedScore(c)[2] >= 30
  BY <1>4, <1>5, <1>6, KnownWeighs
<1>8. Model!WeightedScore(c)[2] > 0
  BY <1>4, <1>7, ScoresAreFractions DEF Fractions
<1>9. QED
  BY <1>4, <1>5, <1>8 DEF c

\* scoring.ts, computeConfidence: ConfidenceSound of every input.
THEOREM ConfidenceAlwaysSound ==
  ASSUME None \notin Int, NEW i, Trustable(i)
  PROVE  Model!ConfidenceSound(i)
<1> DEFINE percent(j) == IF j.agree THEN 100 ELSE 65
           c == Model!ConfidenceParts(i)
<1>0. \A j : Model!ComputeConfidence(j) = Model!Clamp(Rounded(Model!ConfidenceParts(j), percent(j)), 1, 100)
  BY DEF Model!ComputeConfidence, Rounded
<1>1. \A x, y \in Levels : x <= y => Model!Clamp(x, 1, 100) <= Model!Clamp(y, 1, 100) /\ Model!Clamp(x, 1, 100) \in 1..100
  BY DEF Model!Clamp, Levels
<1>2. /\ c \in Components /\ Len(c) = 4 /\ Model!WeightedScore(c)[2] > 0
      /\ c[1] = <<i.credibility, 30>> /\ c[3] = <<Model!Corroboration(40, 20, i.doublings), 20>>
  BY PartsOfConfidence
<1>3. percent(i) \in Nat
  OBVIOUS
<1>4. {"model", "credibility", "doublings", "hardData", "agree"} \subseteq DOMAIN i
  BY DEF Trustable, Has
<1>5. Rounded(c, percent(i)) \in Levels
  BY <1>2, <1>3, RoundedIsLevel
<1>6. Model!ComputeConfidence(i) \in 1..100
  <2>1. Rounded(c, percent(i)) <= Rounded(c, percent(i))
    BY <1>5 DEF Levels
  <2>2. QED
    BY <1>0, <1>1, <1>5, <2>1
<1>7. Model!ComputeConfidence([i EXCEPT !.agree = FALSE]) <= Model!ComputeConfidence([i EXCEPT !.agree = TRUE])
  <2> DEFINE no == [i EXCEPT !.agree = FALSE]
             yes == [i EXCEPT !.agree = TRUE]
  <2>1. percent(no) = 65 /\ percent(yes) = 100
    BY <1>4
  <2>2. Model!ConfidenceParts(no) = c /\ Model!ConfidenceParts(yes) = c
    BY <1>4 DEF Model!ConfidenceParts
  <2>3. Rounded(c, 65) <= Rounded(c, 100) /\ Rounded(c, 65) \in Levels /\ Rounded(c, 100) \in Levels
    BY <1>2, PercentsCompare, RoundedIsLevel
  <2> HIDE DEF no, yes, c
  <2>4. Model!ComputeConfidence(no) <= Model!ComputeConfidence(yes)
    BY <1>0, <1>1, <2>1, <2>2, <2>3
  <2>5. QED
    BY <2>4 DEF no, yes
<1>8. ASSUME NEW j, percent(j) = percent(i), NEW k \in {1, 3}, c[k][1] # None, NEW v \in Levels, c[k][1] <= v,
             Trustable(j), Model!ConfidenceParts(j) = [c EXCEPT ![k] = <<v, c[k][2]>>]
      PROVE  Model!ComputeConfidence(i) <= Model!ComputeConfidence(j)
  <2> DEFINE d == Model!ConfidenceParts(j)
  <2>1. k \in 1..Len(c) /\ d \in Components /\ Model!WeightedScore(d)[2] > 0
    <3>1. k \in 1..Len(c)
      <4> HIDE DEF c
      <4>1. QED
        BY <1>2, <1>8
    <3>2. d \in Components /\ Model!WeightedScore(d)[2] > 0
      <4>1. Trustable(j)
        BY <1>8
      <4>2. QED
        BY <4>1, PartsOfConfidence
    <3>3. QED
      BY <3>1, <3>2
  <2>2. Rounded(c, percent(i)) <= Rounded([c EXCEPT ![k] = <<v, c[k][2]>>], percent(i))
    <3>1. c[k][1] # None /\ c[k][1] <= v /\ v \in Levels
      BY <1>8
    <3> HIDE DEF c, percent, d
    <3>2. QED
      BY <1>2, <1>3, <2>1, <3>1, MoreNeverLowers
  <2>3. Rounded(d, percent(i)) \in Levels
    BY <1>3, <2>1, RoundedIsLevel
  <2> HIDE DEF d, c, percent
  <2>4. Rounded(c, percent(i)) <= Rounded(d, percent(j))
    BY <1>8, <2>2 DEF d
  <2>5. Model!ComputeConfidence(i) = Model!Clamp(Rounded(c, percent(i)), 1, 100)
        /\ Model!ComputeConfidence(j) = Model!Clamp(Rounded(d, percent(j)), 1, 100)
    BY <1>0 DEF c, d
  <2>6. Rounded(d, percent(j)) \in Levels
    BY <1>8, <2>3
  <2>7. QED
    BY <1>1, <1>5, <2>4, <2>5, <2>6
<1>9. ASSUME i.credibility < 100
      PROVE  Model!ComputeConfidence(i) <= Model!ComputeConfidence([i EXCEPT !.credibility = @ + 1])
  <2> DEFINE v == i.credibility + 1
             j == [i EXCEPT !.credibility = v]
  <2>1. v \in Levels /\ i.credibility <= v /\ i.credibility \in Levels
    BY <1>9 DEF Trustable, Has, Levels
  <2>2. /\ DOMAIN j = DOMAIN i /\ j.credibility = v
        /\ j.model = i.model /\ j.doublings = i.doublings /\ j.hardData = i.hardData /\ j.agree = i.agree
    BY <1>4
  <2>3. c[1][1] = i.credibility /\ c[1][2] = 30 /\ i.credibility # None
    BY <1>2, <2>1 DEF Levels
  <2>4. [i EXCEPT !.credibility = @ + 1] = j
    OBVIOUS
  <2> HIDE DEF v, j
  <2>5. Trustable(j)
    BY <2>1, <2>2 DEF Trustable, Has, Levels
  <2>6. Model!ConfidenceParts(j) = [c EXCEPT ![1] = <<v, c[1][2]>>]
    BY <2>2, <2>3 DEF Model!ConfidenceParts
  <2>7. percent(j) = percent(i) /\ c[1][1] # None /\ c[1][1] <= v
    BY <2>1, <2>2, <2>3
  <2>8. QED
    BY <1>8, <2>1, <2>4, <2>5, <2>6, <2>7
<1>10. ASSUME i.doublings \notin {None, 0}
       PROVE  Model!ComputeConfidence(i) <= Model!ComputeConfidence([i EXCEPT !.doublings = @ + 1])
  <2> DEFINE more == i.doublings + 1
             j == [i EXCEPT !.doublings = more]
             v == Model!Corroboration(40, 20, more)
             u == Model!Corroboration(40, 20, i.doublings)
  <2>1. i.doublings \in Nat \ {0}
    BY <1>10 DEF Trustable, Has
  <2>2. v \in Levels /\ u \in Levels /\ u <= v
    BY <2>1, MoreCorroboration
  <2>3. /\ DOMAIN j = DOMAIN i /\ j.doublings = more /\ more \in Nat
        /\ j.model = i.model /\ j.credibility = i.credibility /\ j.hardData = i.hardData /\ j.agree = i.agree
    BY <1>4, <2>1
  <2>4. c[3][1] = u /\ c[3][2] = 20
    BY <1>2
  <2>5. [i EXCEPT !.doublings = @ + 1] = j
    OBVIOUS
  <2>6. u # None
    BY <2>2 DEF Levels
  <2> HIDE DEF more, j
  <2>7. Trustable(j)
    BY <2>3 DEF Trustable, Has
  <2>8. Model!Corroboration(40, 20, j.doublings) = v
    BY <2>3
  <2> HIDE DEF u, v
  <2>9. Model!ConfidenceParts(j) = [c EXCEPT ![3] = <<v, c[3][2]>>]
    BY <2>3, <2>4, <2>8 DEF Model!ConfidenceParts
  <2>10. percent(j) = percent(i)
    BY <2>3
  <2>11. QED
    BY <1>8, <2>2, <2>4, <2>5, <2>6, <2>7, <2>9, <2>10
<1>11. QED
  BY <1>6, <1>7, <1>9, <1>10 DEF Model!ConfidenceSound

Measured(i) ==
  /\ Has(i, {"velocity", "engagement"}, Known100) /\ Has(i, {"volume"}, 0..100)
  /\ Has(i, {"mentions", "authors"}, Nat)

Breadth(i) == IF i.mentions = 0 THEN 0 ELSE Model!Clamp((i.authors * 100) \div i.mentions, 0, 100)

LEMMA PartsOfTrend ==
  ASSUME None \notin Int, NEW i, Measured(i)
  PROVE  LET c == Model!TrendParts(i)
         IN  /\ c \in Components /\ Len(c) = 4 /\ Model!WeightedScore(c)[2] > 0
             /\ c[1] = <<i.velocity, 40>> /\ c[2] = <<i.volume, 20>> /\ c[3] = <<Breadth(i), 15>>
             /\ Breadth(i) \in Levels /\ i.volume \in Levels /\ i.velocity \in Known100
<1> DEFINE c == Model!TrendParts(i)
<1>1. Breadth(i) \in Levels
  <2>1. ASSUME NEW a \in Nat, NEW m \in Nat \ {0} PROVE (a * 100) \div m \in Int
    BY <2>1
  <2>2. i.mentions # 0 => (i.authors * 100) \div i.mentions \in Int
    BY <2>1 DEF Measured, Has
  <2>3. QED
    BY <2>2 DEF Breadth, Model!Clamp, Levels
<1>2. i.velocity \in Levels \union {None} /\ i.engagement \in Levels \union {None} /\ i.volume \in Levels
  BY DEF Measured, Has, Levels, Known100
<1>3. c = <<<<i.velocity, 40>>, <<i.volume, 20>>, <<Breadth(i), 15>>, <<i.engagement, 15>>>>
  BY DEF Model!TrendParts, Breadth
<1> HIDE DEF c
<1>4. c \in Components
  BY <1>1, <1>2, <1>3 DEF Components
<1>5. Len(c) = 4 /\ 2 \in 1..Len(c) /\ c[1] = <<i.velocity, 40>> /\ c[2] = <<i.volume, 20>> /\ c[3] = <<Breadth(i), 15>>
  BY <1>3
<1>6. c[2][1] # None /\ c[2][2] = 20
  BY <1>2, <1>5 DEF Levels
<1>7. Model!WeightedScore(c)[2] >= 20
  BY <1>4, <1>5, <1>6, KnownWeighs
<1>8. Model!WeightedScore(c)[2] > 0
  BY <1>4, <1>7, ScoresAreFractions DEF Fractions
<1>9. QED
  BY <1>1, <1>2, <1>4, <1>5, <1>8 DEF c, Known100, Levels

\* Breadth follows the authors.
LEMMA MoreAuthors ==
  ASSUME NEW a \in Nat, NEW m \in Nat \ {0}
  PROVE  (a * 100) \div m <= ((a + 1) * 100) \div m
<1>1. a * 100 \in Nat /\ (a + 1) * 100 \in Nat /\ (a * 100) * m <= ((a + 1) * 100) * m
  <2>1. (a * 100) * m = 100 * (a * m) /\ ((a + 1) * 100) * m = 100 * (a * m) + 100 * m /\ a * m \in Nat
    OBVIOUS
  <2>2. QED
    BY <2>1
<1>2. QED
  BY <1>1, QuotientsCompare

\* scoring.ts, computeTrendingScore: TrendingSound of every input.
THEOREM TrendsAlwaysSound ==
  ASSUME None \notin Int, NEW i, Measured(i)
  PROVE  Model!TrendingSound(i)
<1> DEFINE at(f, value) == Model!ComputeTrending([i EXCEPT ![f] = value])
           c == Model!TrendParts(i)
<1>0. \A j : Model!ComputeTrending(j) = Rounded(Model!TrendParts(j), 100)
  BY DEF Model!ComputeTrending, Rounded
<1>1. /\ c \in Components /\ Len(c) = 4 /\ Model!WeightedScore(c)[2] > 0
      /\ c[1] = <<i.velocity, 40>> /\ c[2] = <<i.volume, 20>> /\ c[3] = <<Breadth(i), 15>>
      /\ Breadth(i) \in Levels /\ i.volume \in Levels /\ i.velocity \in Known100
  BY PartsOfTrend
<1>2. {"velocity", "engagement", "volume", "mentions", "authors"} \subseteq DOMAIN i
  BY DEF Measured, Has
<1>3. Model!ComputeTrending(i) \in 0..100
  BY <1>0, <1>1, RoundedIsLevel DEF Levels
<1>4. at("velocity", 0) <= at("velocity", None) /\ at("velocity", None) <= at("velocity", 100)
  <2> DEFINE j == [i EXCEPT !.velocity = None]
             d == Model!TrendParts(j)
  <2>1. /\ DOMAIN j = DOMAIN i /\ j.velocity = None
        /\ j.engagement = i.engagement /\ j.volume = i.volume /\ j.mentions = i.mentions /\ j.authors = i.authors
    BY <1>2
  <2> HIDE DEF j
  <2>2. Measured(j)
    BY <2>1 DEF Measured, Has, Known100
  <2>3. d \in Components /\ Len(d) = 4 /\ Model!WeightedScore(d)[2] > 0 /\ d[1] = <<None, 40>>
    BY <2>1, <2>2, PartsOfTrend
  <2>4. \A v : Model!TrendParts([i EXCEPT !.velocity = v]) = [d EXCEPT ![1] = <<v, d[1][2]>>]
    <3>1. ASSUME NEW v PROVE Model!TrendParts([i EXCEPT !.velocity = v]) = [d EXCEPT ![1] = <<v, 40>>]
      BY <1>2, <2>1 DEF Model!TrendParts
    <3>2. d[1][2] = 40
      BY <2>3
    <3> HIDE DEF d
    <3>3. QED
      BY <3>1, <3>2
  <2> HIDE DEF d
  <2>5. /\ Rounded([d EXCEPT ![1] = <<0, d[1][2]>>], 100) <= Rounded(d, 100)
        /\ Rounded(d, 100) <= Rounded([d EXCEPT ![1] = <<100, d[1][2]>>], 100)
    <3>1. 1 \in 1..Len(d) /\ d[1][1] = None
      BY <2>3
    <3>2. QED
      BY <2>3, <3>1, UnknownsAreNeutral
  <2>6. at("velocity", None) = Rounded(d, 100)
    BY <1>0 DEF d, j
  <2>7. QED
    BY <1>0, <2>4, <2>5, <2>6
<1>5. ASSUME i.volume < 100 PROVE Model!ComputeTrending(i) <= at("volume", i.volume + 1)
  <2> DEFINE v == i.volume + 1
             j == [i EXCEPT !.volume = v]
  <2>1. v \in Levels /\ i.volume <= v
    BY <1>1, <1>5 DEF Levels
  <2>2. /\ j.volume = v /\ j.engagement = i.engagement /\ j.velocity = i.velocity
        /\ j.mentions = i.mentions /\ j.authors = i.authors
    BY <1>2
  <2>3. c[2][1] = i.volume /\ c[2][2] = 20 /\ i.volume # None /\ 2 \in 1..Len(c)
    BY <1>1 DEF Levels
  <2> HIDE DEF j, v
  <2>4. Model!TrendParts(j) = [c EXCEPT ![2] = <<v, c[2][2]>>]
    BY <2>2, <2>3 DEF Model!TrendParts
  <2> HIDE DEF c
  <2>5. Rounded(c, 100) <= Rounded([c EXCEPT ![2] = <<v, c[2][2]>>], 100)
    BY <1>1, <2>1, <2>3, MoreNeverLowers
  <2>6. QED
    BY <1>0, <2>4, <2>5 DEF c, j, v
<1>6. Model!ComputeTrending(i) <= at("authors", i.authors + 1)
  <2> DEFINE j == [i EXCEPT !.authors = i.authors + 1]
             v == Breadth(j)
  <2>1. /\ j.authors = i.authors + 1 /\ i.authors \in Nat /\ i.mentions \in Nat
        /\ j.engagement = i.engagement /\ j.velocity = i.velocity /\ j.mentions = i.mentions /\ j.volume = i.volume
        /\ DOMAIN j = DOMAIN i
    BY <1>2 DEF Measured, Has
  <2> HIDE DEF j
  <2>2. Measured(j)
    BY <2>1 DEF Measured, Has
  <2>3. v \in Levels
    BY <2>2, PartsOfTrend
  <2>4. Breadth(i) <= v
    <3>1. CASE i.mentions = 0
      BY <2>1, <2>3, <3>1 DEF Breadth, Levels
    <3>2. CASE i.mentions # 0
      <4> DEFINE x == (i.authors * 100) \div i.mentions
                 y == ((i.authors + 1) * 100) \div i.mentions
      <4>1. x \in Int /\ y \in Int /\ x <= y
        <5>1. ASSUME NEW a \in Nat, NEW m \in Nat \ {0} PROVE (a * 100) \div m \in Int
          BY <5>1
        <5>2. QED
          BY <2>1, <3>2, <5>1, MoreAuthors
      <4>2. Breadth(i) = Model!Clamp(x, 0, 100) /\ v = Model!Clamp(y, 0, 100)
        BY <2>1, <3>2 DEF Breadth
      <4> HIDE DEF x, y, v
      <4>3. QED
        BY <4>1, <4>2 DEF Model!Clamp
    <3>3. QED
      BY <3>1, <3>2
  <2>5. c[3][1] = Breadth(i) /\ c[3][2] = 15 /\ Breadth(i) # None /\ 3 \in 1..Len(c)
    BY <1>1 DEF Levels
  <2>6. Model!TrendParts(j) = [c EXCEPT ![3] = <<v, c[3][2]>>]
    <3>1. Model!TrendParts(j) = <<<<i.velocity, 40>>, <<i.volume, 20>>, <<v, 15>>, <<i.engagement, 15>>>>
      BY <2>1 DEF Model!TrendParts, Breadth
    <3>2. c = <<<<i.velocity, 40>>, <<i.volume, 20>>, <<Breadth(i), 15>>, <<i.engagement, 15>>>>
      BY DEF Model!TrendParts, Breadth
    <3> HIDE DEF c, v
    <3>3. QED
      BY <2>5, <3>1, <3>2
  <2> HIDE DEF c, v
  <2>7. Rounded(c, 100) <= Rounded([c EXCEPT ![3] = <<v, c[3][2]>>], 100)
    <3>1. c[3][1] # None /\ c[3][1] <= v
      BY <2>4, <2>5
    <3>2. QED
      BY <1>1, <2>3, <2>5, <3>1, MoreNeverLowers
  <2>8. QED
    BY <1>0, <2>6, <2>7 DEF c, j
<1>7. ASSUME i.velocity # None, i.velocity >= i.volume
      PROVE  Model!ComputeTrending(i) >= Model!ComputeTrending([i EXCEPT !.velocity = i.volume, !.volume = i.velocity])
  <2> DEFINE fast == i.velocity
             loud == i.volume
             j == [i EXCEPT !.velocity = loud, !.volume = fast]
             d == [c EXCEPT ![1] = <<loud, c[1][2]>>]
             e == [d EXCEPT ![2] = <<fast, d[2][2]>>]
  <2>1. fast \in Levels /\ loud \in Levels /\ loud <= fast /\ fast # None /\ loud # None
    BY <1>1, <1>7 DEF Known100, Levels
  <2>2. j.velocity = loud /\ j.volume = fast /\ j.engagement = i.engagement /\ j.mentions = i.mentions /\ j.authors = i.authors
    BY <1>2
  <2>3. Model!TrendParts(j) = e
    <3>1. c[1][2] = 40 /\ d[2][2] = 20
      BY <1>1
    <3> HIDE DEF j
    <3>2. QED
      BY <1>1, <2>2, <3>1 DEF Model!TrendParts
  <2>4. /\ c[1][1] = fast /\ c[1][2] = 40 /\ 1 \in 1..Len(c) /\ 1 \in DOMAIN c
    BY <1>1
  <2> HIDE DEF c
  <2>5. /\ d \in Components
        /\ Model!WeightedScore(d) = <<Model!WeightedScore(c)[1] - Values(c)[1] + loud * c[1][2],
                                     Model!WeightedScore(c)[2] - Weights(c)[1] + c[1][2]>>
    BY <1>1, <2>1, <2>4, ScoreChanges
  <2>6. Values(c)[1] = fast * 40 /\ Weights(c)[1] = 40
    BY <2>1, <2>4 DEF Values, Weights
  <2>7. Len(d) = 4 /\ d[2] = <<loud, 20>> /\ 2 \in 1..Len(d) /\ 2 \in DOMAIN d
    BY <1>1 DEF Components
  <2> HIDE DEF d
  <2>8. /\ e \in Components
        /\ Model!WeightedScore(e) = <<Model!WeightedScore(d)[1] - Values(d)[2] + fast * d[2][2],
                                     Model!WeightedScore(d)[2] - Weights(d)[2] + d[2][2]>>
    BY <2>1, <2>5, <2>7, ScoreChanges
  <2>9. Values(d)[2] = loud * 20 /\ Weights(d)[2] = 20 /\ d[2][2] = 20
    BY <2>1, <2>7 DEF Values, Weights
  <2> HIDE DEF e
  <2> DEFINE f == Model!WeightedScore(c)
             g == Model!WeightedScore(d)
             h == Model!WeightedScore(e)
  <2>10. f \in Fractions /\ g \in Fractions /\ h \in Fractions
    BY <1>1, <2>5, <2>8, ScoresAreFractions
  <2>11. f[1] \in Nat /\ f[2] \in Nat /\ h[1] \in Nat /\ h[2] \in Nat /\ g[1] \in Nat /\ g[2] \in Nat /\ f[2] > 0
    BY <1>1, <2>10 DEF Fractions
  <2>12. /\ g[1] = f[1] - fast * 40 + loud * 40 /\ g[2] = f[2] - 40 + 40
         /\ h[1] = g[1] - loud * 20 + fast * 20 /\ h[2] = g[2] - 20 + 20
    BY <2>4, <2>5, <2>6, <2>8, <2>9
  <2> HIDE DEF f, g, h, fast, loud
  <2>13. h[1] <= f[1] /\ h[2] = f[2]
    BY <2>1, <2>11, <2>12 DEF Levels
  <2>14. h[1] * f[2] <= f[1] * h[2]
    BY <2>11, <2>13
  <2>15. Model!ToScore100(h, 100) <= Model!ToScore100(f, 100)
    BY <2>10, <2>11, <2>13, <2>14, ScoresCompare
  <2>16. /\ Model!ComputeTrending(i) = Model!ToScore100(f, 100) /\ Model!ComputeTrending(j) = Model!ToScore100(h, 100)
         /\ Model!ToScore100(f, 100) \in Levels /\ Model!ToScore100(h, 100) \in Levels
    <3>1. Model!ComputeTrending(i) = Model!ToScore100(f, 100)
      BY <1>0 DEF Rounded, c, f
    <3>2. Model!ComputeTrending(j) = Model!ToScore100(h, 100)
      BY <1>0, <2>3 DEF Rounded, h
    <3>3. QED
      BY <2>10, <2>11, <2>13, <2>14, <3>1, <3>2, ScoresCompare
  <2>17. Model!ComputeTrending(i) >= Model!ComputeTrending(j)
    BY <2>15, <2>16 DEF Levels
  <2>18. QED
    BY <2>17 DEF fast, loud
<1> HIDE DEF c
<1>8. QED
  BY <1>3, <1>4, <1>5, <1>6, <1>7 DEF Model!TrendingSound

Active(i) ==
  /\ Has(i, {"commits", "contributors", "releases", "stars"}, Known100)
  /\ Has(i, {"days"}, Nat \union {None})

LEMMA FreshnessIsLevel ==
  ASSUME None \notin Int, NEW days \in Nat
  PROVE  /\ Model!Freshness(days) \in Levels /\ Model!Freshness(days + 1) \in Levels
         /\ Model!Freshness(days + 1) <= Model!Freshness(days)
<1>1. ASSUME NEW x \in Nat PROVE (x * 100) \div 83 \in Nat /\ (x * 100) \div 83 <= ((x + 1) * 100) \div 83
  BY <1>1
<1>2. /\ days > 7 => days - 7 \in Nat /\ (days + 1) - 7 = (days - 7) + 1
      /\ days <= 7 => (days + 1) - 7 <= 1
  OBVIOUS
<1> DEFINE old(d) == IF d > 7 THEN ((d - 7) * 100) \div 83 ELSE 0
<1>3. old(days) \in Nat /\ old(days + 1) \in Nat /\ old(days) <= old(days + 1)
  <2>1. CASE days > 7
    BY <1>1, <1>2, <2>1
  <2>2. CASE days <= 7
    <3>1. days + 1 > 7 => (days + 1) - 7 \in Nat
      BY <2>2
    <3>2. old(days) = 0 /\ old(days + 1) \in Nat
      BY <1>1, <2>2, <3>1
    <3>3. QED
      BY <3>2
  <2>3. QED
    BY <2>1, <2>2
<1>4. /\ Model!Freshness(days) = Model!Clamp(100 - old(days), 0, 100)
      /\ Model!Freshness(days + 1) = Model!Clamp(100 - old(days + 1), 0, 100)
  BY DEF Model!Freshness
<1> HIDE DEF old
<1>5. QED
  BY <1>3, <1>4 DEF Model!Clamp, Levels

LEMMA PartsOfActivity ==
  ASSUME None \notin Int, NEW i, Active(i)
  PROVE  LET c == Model!ActivityParts(i)
         IN  /\ c \in Components /\ Len(c) = 5
             /\ c[1] = <<i.commits, 30>> /\ c[2] = <<i.contributors, 30>> /\ c[3] = <<i.releases, 20>>
             /\ c[4] = <<Model!Freshness(i.days), 25>> /\ c[5] = <<i.stars, 10>>
<1> DEFINE c == Model!ActivityParts(i)
           fresh == Model!Freshness(i.days)
<1>1. fresh \in Levels \union {None}
  <2>1. i.days = None => fresh = None
    BY DEF Model!Freshness
  <2>2. QED
    BY <2>1, FreshnessIsLevel DEF Active, Has
<1>2. /\ i.commits \in Levels \union {None} /\ i.contributors \in Levels \union {None}
      /\ i.releases \in Levels \union {None} /\ i.stars \in Levels \union {None}
  BY DEF Active, Has, Levels, Known100
<1>3. c = <<<<i.commits, 30>>, <<i.contributors, 30>>, <<i.releases, 20>>, <<fresh, 25>>, <<i.stars, 10>>>>
  BY DEF Model!ActivityParts
<1> HIDE DEF c, fresh
<1>4. c \in Components
  BY <1>1, <1>2, <1>3 DEF Components
<1>5. Len(c) = 5 /\ c[1] = <<i.commits, 30>> /\ c[2] = <<i.contributors, 30>> /\ c[3] = <<i.releases, 20>>
      /\ c[4] = <<fresh, 25>> /\ c[5] = <<i.stars, 10>>
  BY <1>3
<1>6. QED
  BY <1>4, <1>5 DEF c, fresh

\* The score of a repository, 0 when nothing is known of it.
ActivityScore(c) == IF Model!WeightedScore(c)[2] = 0 THEN 0 ELSE Rounded(c, 100)

LEMMA ActivityIsLevel ==
  ASSUME None \notin Int, NEW c \in Components
  PROVE  ActivityScore(c) \in Levels
<1>1. Model!WeightedScore(c)[2] \in Nat
  BY ScoresAreFractions DEF Fractions
<1>2. Model!WeightedScore(c)[2] # 0 => Rounded(c, 100) \in Levels
  BY <1>1, RoundedIsLevel
<1>3. QED
  BY <1>2 DEF ActivityScore, Levels

\* Nothing known, one thing known to be nothing: both are no activity.
LEMMA UnknownActivity ==
  ASSUME None \notin Int, NEW c \in Components, NEW k \in 1..Len(c), c[k][1] = None, c[k][2] > 0
  PROVE  /\ ActivityScore([c EXCEPT ![k] = <<0, c[k][2]>>]) <= ActivityScore(c)
         /\ ActivityScore(c) <= ActivityScore([c EXCEPT ![k] = <<100, c[k][2]>>])
<1> DEFINE with(v) == [c EXCEPT ![k] = <<v, c[k][2]>>]
           f == Model!WeightedScore(c)
           w == c[k][2]
<1>1. 0 \in Levels /\ 100 \in Levels /\ w \in Nat /\ w > 0
  BY ComponentParts DEF Levels
<1>2. f[1] \in Nat /\ f[2] \in Nat /\ f[1] <= 100 * f[2]
  BY ScoresAreFractions DEF Fractions
<1>3. Values(c)[k] = 0 /\ Weights(c)[k] = 0
  <2>1. DOMAIN c = 1..Len(c)
    BY ComponentParts
  <2>2. QED
    BY <2>1 DEF Values, Weights
<1>4. \A v \in Levels : /\ with(v) \in Components
                        /\ Model!WeightedScore(with(v)) = <<f[1] - Values(c)[k] + v * w, f[2] - Weights(c)[k] + w>>
  BY ScoreChanges
<1> HIDE DEF with, f, w
<1>5. ActivityScore(c) \in Levels /\ ActivityScore(with(0)) \in Levels /\ ActivityScore(with(100)) \in Levels
  BY <1>1, <1>4, ActivityIsLevel
<1>6. Model!WeightedScore(with(0))[2] = f[2] + w /\ Model!WeightedScore(with(100))[2] = f[2] + w
      /\ Model!WeightedScore(with(0))[1] = f[1]
  BY <1>1, <1>2, <1>3, <1>4
<1>7. CASE f[2] = 0
  <2>1. ActivityScore(c) = 0
    BY <1>7 DEF ActivityScore, f
  <2>2. Model!WeightedScore(with(0)) = <<0, w>>
    BY <1>1, <1>2, <1>3, <1>4, <1>7
  <2>3. Model!ToScore100(<<0, w>>, 100) = 0
    <3>1. ASSUME NEW n \in Nat, NEW d \in Nat \ {0}, n < d PROVE n \div d = 0
      BY <3>1
    <3>2. 2 * (0 * 100) + w * 100 = w * 100 /\ w * 100 \in Nat /\ 2 * (w * 100) \in Nat \ {0} /\ w * 100 < 2 * (w * 100)
      BY <1>1
    <3>3. (2 * (0 * 100) + w * 100) \div (2 * (w * 100)) = 0
      BY <3>1, <3>2
    <3>4. QED
      BY <3>3 DEF Model!ToScore100, Model!Clamp
  <2>4. ActivityScore(with(0)) = 0
    BY <1>1, <2>2, <2>3 DEF ActivityScore, Rounded
  <2>5. ActivityScore(with(0)) <= ActivityScore(c) /\ ActivityScore(c) <= ActivityScore(with(100))
    <3>1. 0 <= 0 /\ \A v \in Levels : 0 <= v
      BY DEF Levels
    <3>2. 0 <= ActivityScore(with(100))
      BY <1>5, <3>1, Zenon
    <3>3. QED
      BY <2>1, <2>4, <3>1, <3>2, Zenon
  <2>6. QED
    BY <2>5 DEF with, w
<1>8. CASE f[2] # 0
  <2>1. Model!WeightedScore(c)[2] > 0
    BY <1>2, <1>8 DEF f
  <2>2. /\ Rounded([c EXCEPT ![k] = <<0, c[k][2]>>], 100) <= Rounded(c, 100)
        /\ Rounded(c, 100) <= Rounded([c EXCEPT ![k] = <<100, c[k][2]>>], 100)
    BY <2>1, UnknownsAreNeutral
  <2>3. /\ ActivityScore(c) = Rounded(c, 100) /\ ActivityScore(with(0)) = Rounded(with(0), 100)
        /\ ActivityScore(with(100)) = Rounded(with(100), 100)
    <3>1. f[2] + w # 0
      BY <1>1, <1>2
    <3>2. QED
      BY <1>6, <1>8, <3>1 DEF ActivityScore, f
  <2>4. QED
    BY <2>2, <2>3 DEF with, w
<1>9. QED
  BY <1>7, <1>8

\* scoring.ts, computeDevActivityScore: DevActivitySound of every input.
THEOREM ActivityAlwaysSound ==
  ASSUME None \notin Int, NEW i, Active(i)
  PROVE  Model!DevActivitySound(i)
<1> DEFINE at(f, value) == Model!ComputeDevActivity([i EXCEPT ![f] = value])
<1>0. \A j : Model!ComputeDevActivity(j) = ActivityScore(Model!ActivityParts(j))
  BY DEF Model!ComputeDevActivity, ActivityScore, Rounded
<1>1. Model!ComputeDevActivity(i) \in 0..100
  BY <1>0, PartsOfActivity, ActivityIsLevel DEF Levels
<1>2. {"commits", "contributors", "releases", "stars", "days"} \subseteq DOMAIN i
  BY DEF Active, Has
<1>3. ASSUME NEW f \in {"commits", "contributors", "releases", "stars"}
      PROVE  at(f, 0) <= at(f, None) /\ at(f, None) <= at(f, 100)
  <2> DEFINE j == [i EXCEPT ![f] = None]
             c == Model!ActivityParts(j)
             k == CASE f = "commits" -> 1 [] f = "contributors" -> 2 [] f = "releases" -> 3 [] f = "stars" -> 5
  <2>1. DOMAIN j = DOMAIN i /\ j[f] = None /\ \A g \in DOMAIN i \ {f} : j[g] = i[g]
    BY <1>2
  <2> HIDE DEF j
  <2>2. Active(j)
    BY <2>1 DEF Active, Has, Known100
  <2>3. /\ c \in Components /\ Len(c) = 5
        /\ c[1] = <<j.commits, 30>> /\ c[2] = <<j.contributors, 30>> /\ c[3] = <<j.releases, 20>>
        /\ c[4] = <<Model!Freshness(j.days), 25>> /\ c[5] = <<j.stars, 10>>
    BY <2>2, PartsOfActivity
  <2>4. k \in 1..Len(c) /\ c[k][1] = None /\ c[k][2] > 0
    BY <2>1, <2>3
  <2>5. \A v : Model!ActivityParts([i EXCEPT ![f] = v]) = [c EXCEPT ![k] = <<v, c[k][2]>>]
    <3>1. ASSUME NEW v PROVE Model!ActivityParts([i EXCEPT ![f] = v]) = [c EXCEPT ![k] = <<v, c[k][2]>>]
      <4>1. /\ [i EXCEPT ![f] = v][f] = v
            /\ \A g \in {"commits", "contributors", "releases", "stars", "days"} \ {f} : [i EXCEPT ![f] = v][g] = j[g]
        BY <1>2, <2>1
      <4> DEFINE l == [i EXCEPT ![f] = v]
      <4>2. l[f] = v /\ \A g \in {"commits", "contributors", "releases", "stars", "days"} \ {f} : l[g] = j[g]
        BY <4>1
      <4> HIDE DEF l
      <4>3. Model!ActivityParts(l) = [c EXCEPT ![k] = <<v, c[k][2]>>]
        <5>1. CASE f = "commits"
          BY <4>2, <5>1 DEF Model!ActivityParts
        <5>2. CASE f = "contributors"
          BY <4>2, <5>2 DEF Model!ActivityParts
        <5>3. CASE f = "releases"
          BY <4>2, <5>3 DEF Model!ActivityParts
        <5>4. CASE f = "stars"
          BY <4>2, <5>4 DEF Model!ActivityParts
        <5>5. QED
          BY <5>1, <5>2, <5>3, <5>4
      <4>4. QED
        BY <4>3 DEF l
    <3>2. QED
      BY <3>1
  <2>6. at(f, None) = ActivityScore(c)
    BY <1>0 DEF j
  <2> HIDE DEF c, k
  <2>7. /\ ActivityScore([c EXCEPT ![k] = <<0, c[k][2]>>]) <= ActivityScore(c)
        /\ ActivityScore(c) <= ActivityScore([c EXCEPT ![k] = <<100, c[k][2]>>])
    BY <2>3, <2>4, UnknownActivity
  <2>8. QED
    BY <1>0, <2>5, <2>6, <2>7
<1>4. ASSUME i.days # None PROVE at("days", i.days + 1) <= Model!ComputeDevActivity(i)
  <2> DEFINE j == [i EXCEPT !.days = i.days + 1]
             c == Model!ActivityParts(j)
             v == Model!Freshness(i.days)
             u == Model!Freshness(i.days + 1)
  <2>1. i.days \in Nat
    BY <1>4 DEF Active, Has
  <2>2. /\ DOMAIN j = DOMAIN i /\ j.days = i.days + 1 /\ j.commits = i.commits /\ j.contributors = i.contributors
        /\ j.releases = i.releases /\ j.stars = i.stars
    BY <1>2
  <2> HIDE DEF j
  <2>3. Active(j)
    BY <2>1, <2>2 DEF Active, Has
  <2>4. v \in Levels /\ u \in Levels /\ u <= v
    BY <2>1, FreshnessIsLevel
  <2>5. c \in Components /\ Len(c) = 5 /\ c[4] = <<u, 25>>
    BY <2>2, <2>3, PartsOfActivity
  <2>6. Model!ActivityParts(i) = [c EXCEPT ![4] = <<v, c[4][2]>>]
    BY <2>2, <2>5 DEF Model!ActivityParts
  <2>7. u # None
    BY <2>4 DEF Levels
  <2> HIDE DEF c, u, v
  <2>8. 4 \in 1..Len(c) /\ c[4][1] # None /\ c[4][2] = 25 /\ c[4][1] <= v
    BY <2>4, <2>5, <2>7
  <2>9. Model!WeightedScore(c)[2] > 0
    <3>1. Model!WeightedScore(c)[2] >= c[4][2]
      BY <2>5, <2>8, KnownWeighs
    <3>2. Model!WeightedScore(c)[2] \in Nat
      BY <2>5, ScoresAreFractions DEF Fractions
    <3>3. QED
      BY <2>8, <3>1, <3>2
  <2> DEFINE d == [c EXCEPT ![4] = <<v, c[4][2]>>]
  <2>10. Rounded(c, 100) <= Rounded(d, 100)
    BY <2>4, <2>5, <2>8, <2>9, MoreNeverLowers
  <2>11. Model!WeightedScore(d)[2] # 0
    <3>1. Model!WeightedScore(d) = <<Model!WeightedScore(c)[1] - Values(c)[4] + v * c[4][2],
                                     Model!WeightedScore(c)[2] - Weights(c)[4] + c[4][2]>>
      BY <2>4, <2>5, <2>8, ScoreChanges
    <3>2. Weights(c)[4] = c[4][2]
      BY <2>5, <2>8, ComponentParts DEF Weights
    <3>3. Model!WeightedScore(c)[2] \in Nat
      BY <2>5, ScoresAreFractions DEF Fractions
    <3> HIDE DEF d
    <3>4. Model!WeightedScore(d)[2] = Model!WeightedScore(c)[2] - Weights(c)[4] + c[4][2]
      BY <3>1
    <3>5. QED
      BY <2>8, <2>9, <3>2, <3>3, <3>4
  <2>12. ActivityScore(c) <= ActivityScore(d)
    BY <2>9, <2>10, <2>11 DEF ActivityScore
  <2>13. QED
    BY <1>0, <2>6, <2>12 DEF c, j
<1>5. QED
  BY <1>1, <1>3, <1>4 DEF Model!DevActivitySound

------------------------------------------------------------------------------
\* Sentiment (Sentiment): the lexicon, the verdict and the mean.

\* Whatever flows in and out, swapping the two turns the verdict round.
LEMMA WhalesAlwaysMirrored ==
  ASSUME NEW in \in Nat, NEW out \in Nat
  PROVE  Model!WhalesMirrored(in, out)
BY DEF Model!WhalesMirrored, Model!WhaleSentiment, Model!Mirror

Lexicons == [score : -100..100, confidence : 0..100]

\* A weighted mean of two numbers lies between any bounds of both.
Blend(m, s, c) == (m * (100 - c) + s * c) \div 100

LEMMA BlendBetween ==
  ASSUME NEW m \in Int, NEW s \in Int, NEW c \in 0..100,
         NEW low \in Int, NEW high \in Int, low <= m, low <= s, m <= high, s <= high
  PROVE  Blend(m, s, c) \in low..high
<1>1. m * (100 - c) + s * c \in Int /\ c \in Int /\ 100 - c \in Nat /\ c \in Nat
  OBVIOUS
<1>2. ASSUME NEW x \in Int, NEW y \in Int, x <= y, NEW k \in Nat PROVE x * k <= y * k
  BY <1>2
<1>3. low * (100 - c) <= m * (100 - c) /\ low * c <= s * c
  BY <1>1, <1>2
<1>4. m * (100 - c) <= high * (100 - c) /\ s * c <= high * c
  BY <1>1, <1>2
<1>5. low * (100 - c) + low * c = 100 * low /\ high * (100 - c) + high * c = 100 * high
  BY <1>1
<1>6. 100 * low <= m * (100 - c) + s * c /\ m * (100 - c) + s * c <= 100 * high
  BY <1>1, <1>3, <1>4, <1>5
<1>7. ASSUME NEW t \in Int, 100 * low <= t, t <= 100 * high
      PROVE  t \div 100 \in Int /\ low <= t \div 100 /\ t \div 100 <= high
  BY <1>7
<1>8. QED
  BY <1>1, <1>6, <1>7 DEF Blend

\* Confidence lowered for a disagreement is no more than it was.
Lowered(confidence, c) == Model!Clamp((2 * confidence * (200 - c) + 200) \div 400, 1, 100)

LEMMA LoweredIsLower ==
  ASSUME NEW confidence \in 1..100, NEW c \in 0..100
  PROVE  Lowered(confidence, c) \in 1..confidence
<1>1. 2 * confidence \in Nat /\ 200 - c \in 0..200
  OBVIOUS
<1>2. ASSUME NEW x \in Nat, NEW k \in 0..200 PROVE x * k \in Nat /\ x * k <= x * 200
  BY <1>2
<1>3. /\ 2 * confidence * (200 - c) \in Nat
      /\ 2 * confidence * (200 - c) <= 2 * confidence * 200
  BY <1>1, <1>2
<1>4. ASSUME NEW t \in Nat, t <= 2 * confidence * 200
      PROVE  (t + 200) \div 400 \in Nat /\ (t + 200) \div 400 <= confidence
  BY <1>4
<1>5. ASSUME NEW x \in Nat, x <= confidence PROVE Model!Clamp(x, 1, 100) \in 1..confidence
  BY <1>5 DEF Model!Clamp
<1>6. QED
  BY <1>3, <1>4, <1>5 DEF Lowered

\* What a verdict of model and lexicon is, by the case.
VerdictOf(model, confidence, lexicon, verdict) ==
  \/ /\ verdict.score = model /\ verdict.confidence = confidence
     /\ \/ lexicon.confidence = 0
        \/ Model!Magnitude(model - lexicon.score) <= 80
        \/ Model!Sign(model) = Model!Sign(lexicon.score)
  \/ /\ lexicon.confidence # 0
     /\ verdict.score = Blend(model, lexicon.score, lexicon.confidence)
     /\ verdict.confidence = Lowered(confidence, lexicon.confidence)

LEMMA VerdictCases ==
  ASSUME None \notin Int, NEW model \in -100..100, NEW confidence \in 1..100, NEW lexicon \in Lexicons
  PROVE  VerdictOf(model, confidence, lexicon, Model!ReconcileSentiment(model, confidence, lexicon))
<1>1. model # None
  OBVIOUS
<1>2. Model!Magnitude(model - lexicon.score) \in Int
  BY DEF Lexicons, Model!Magnitude
<1>3. QED
  BY <1>1, <1>2 DEF VerdictOf, Model!ReconcileSentiment, Blend, Lowered

\* Whatever the lexicon found in a text and the model made of it, the verdict
\* lies between the two and is no more confident than the model was.
LEMMA VerdictsLieBetween ==
  ASSUME None \notin Int, NEW tokens, Model!ClassifyWithLexicon(tokens) \in Lexicons,
         NEW model \in (-100..100) \union {None}, NEW confidence \in 1..100
  PROVE  Model!VerdictBetween(tokens, model, confidence)
<1> DEFINE lexicon == Model!ClassifyWithLexicon(tokens)
           verdict == Model!ReconcileSentiment(model, confidence, lexicon)
<1>0. lexicon.score \in -100..100 /\ lexicon.confidence \in 0..100 /\ lexicon \in Lexicons
  BY DEF Lexicons
<1> HIDE DEF lexicon
<1>1. lexicon.confidence = 0 => verdict.score = model
  BY <1>0 DEF Model!ReconcileSentiment
<1>2. ASSUME model # None
      PROVE  /\ verdict.score >= Model!Min({model, lexicon.score}) - 1
             /\ verdict.score <= Model!Max({model, lexicon.score})
             /\ verdict.confidence <= confidence
  <2>0. model \in -100..100
    BY <1>2
  <2>1. PICK low \in {model, lexicon.score} : /\ low = Model!Min({model, lexicon.score})
                                              /\ low <= model /\ low <= lexicon.score
    <3>1. \E x \in {model, lexicon.score} : \A y \in {model, lexicon.score} : x <= y
      BY <1>0, <2>0
    <3>2. QED
      BY <3>1 DEF Model!Min
  <2>2. PICK high \in {model, lexicon.score} : /\ high = Model!Max({model, lexicon.score})
                                               /\ model <= high /\ lexicon.score <= high
    <3>1. \E x \in {model, lexicon.score} : \A y \in {model, lexicon.score} : x >= y
      BY <1>0, <2>0
    <3>2. QED
      BY <1>0, <2>0, <3>1 DEF Model!Max
  <2>3. low \in Int /\ high \in Int /\ lexicon.score \in Int /\ lexicon.confidence \in 0..100 /\ confidence \in Int
        /\ model \in Int /\ low <= model /\ low <= lexicon.score /\ model <= high /\ lexicon.score <= high
    BY <1>0, <2>0, <2>1, <2>2
  <2>4. verdict.score \in low..high /\ verdict.confidence <= confidence
    <3>1. \/ verdict.score = model /\ verdict.confidence = confidence
          \/ /\ verdict.score = Blend(model, lexicon.score, lexicon.confidence)
             /\ verdict.confidence = Lowered(confidence, lexicon.confidence)
      <4>1. VerdictOf(model, confidence, lexicon, verdict)
        BY <1>0, <2>0, VerdictCases
      <4> HIDE DEF verdict
      <4>2. QED
        BY <4>1 DEF VerdictOf
    <3> HIDE DEF verdict
    <3>2. Blend(model, lexicon.score, lexicon.confidence) \in low..high
      BY <2>3, BlendBetween, Zenon
    <3>3. Lowered(confidence, lexicon.confidence) \in 1..confidence
      BY <2>3, LoweredIsLower
    <3>4. QED
      BY <2>0, <2>1, <2>2, <2>3, <3>1, <3>2, <3>3
  <2> HIDE DEF verdict
  <2>5. QED
    BY <2>1, <2>2, <2>3, <2>4
<1>3. QED
  BY <1>1, <1>2 DEF Model!VerdictBetween, lexicon

\* A lexicon that found strong bearish terms only is never overruled by a
\* bullish model, however sure.
LEMMA StrongBearishStands ==
  ASSUME None \notin Int, NEW model \in -100..100, NEW confidence \in 1..100,
         NEW lexicon \in Lexicons, lexicon.score <= -80, lexicon.confidence >= 80
  PROVE  Model!ScoreToSentiment(Model!ReconcileSentiment(model, confidence, lexicon).score)
           \in {"NEUTRAL", "BEARISH", "VERY_BEARISH"}
<1> DEFINE score == Model!ReconcileSentiment(model, confidence, lexicon).score
<1>0. lexicon.score \in -100..-80 /\ lexicon.confidence \in 80..100
  BY DEF Lexicons
<1>1. Blend(model, lexicon.score, lexicon.confidence) \in Int /\ Blend(model, lexicon.score, lexicon.confidence) <= 0
  <2>1. ASSUME NEW m \in -100..100, NEW s \in -100..-80, NEW c \in 80..100
        PROVE  Blend(m, s, c) \in Int /\ Blend(m, s, c) <= 0
    <3>1. ASSUME NEW x \in Int, NEW y \in Int, x <= y, NEW k \in Nat PROVE x * k <= y * k
      BY <3>1
    <3>2. m * (100 - c) <= 100 * (100 - c) /\ s * c <= (-80) * c /\ m * (100 - c) + s * c \in Int
      BY <3>1
    <3>3. 100 * (100 - c) + (-80) * c <= 0
      OBVIOUS
    <3>4. m * (100 - c) + s * c <= 0
      BY <3>2, <3>3
    <3>5. ASSUME NEW t \in Int, t <= 0 PROVE t \div 100 \in Int /\ t \div 100 <= 0
      BY <3>5
    <3>6. QED
      BY <3>2, <3>4, <3>5 DEF Blend
  <2>2. QED
    BY <1>0, <2>1
<1>2. \/ /\ score = model
         /\ \/ Model!Magnitude(model - lexicon.score) <= 80
            \/ Model!Sign(model) = Model!Sign(lexicon.score)
      \/ score = Blend(model, lexicon.score, lexicon.confidence)
  <2> DEFINE verdict == Model!ReconcileSentiment(model, confidence, lexicon)
  <2>1. VerdictOf(model, confidence, lexicon, verdict) /\ score = verdict.score
    BY VerdictCases
  <2>2. lexicon.confidence # 0
    BY <1>0
  <2> HIDE DEF verdict, score
  <2>3. QED
    BY <2>1, <2>2 DEF VerdictOf
<1> HIDE DEF score
<1>3. score \in Int /\ score <= 0
  <2>1. ASSUME \/ Model!Magnitude(model - lexicon.score) <= 80
               \/ Model!Sign(model) = Model!Sign(lexicon.score)
        PROVE  model <= 0
    BY <1>0, <2>1 DEF Model!Magnitude, Model!Sign
  <2>2. QED
    BY <1>1, <1>2, <2>1
<1>4. Model!ScoreToSentiment(score) \in {"NEUTRAL", "BEARISH", "VERY_BEARISH"}
  BY <1>3 DEF Model!ScoreToSentiment
<1>5. QED
  BY <1>4 DEF score

\* Of finitely many numbers one is the largest.
LEMMA LargestOf ==
  ASSUME NEW n \in Nat, NEW H \in SUBSET (1..n), H # {}, NEW f, \A i \in H : f[i] \in Int
  PROVE  \E i \in H : \A j \in H : f[j] <= f[i]
<1> DEFINE ok(k) == (\E i \in H : i <= k) => \E i \in H : i <= k /\ \A j \in H : j <= k => f[j] <= f[i]
           bad == {k \in Nat : k <= n /\ ~ok(k)}
<1>1. SUFFICES ASSUME bad # {} PROVE FALSE
  <2>1. n \notin bad
    BY <1>1
  <2> HIDE DEF ok
  <2>2. ok(n)
    BY <2>1
  <2>3. \A i \in H : i <= n
    OBVIOUS
  <2>4. QED
    BY <2>2, <2>3 DEF ok
<1>2. PICK k \in bad : \A l \in bad : k <= l
  BY <1>1, LeastOf
<1>3. \A i \in H : i \in Nat /\ i >= 1
  OBVIOUS
<1>4. k \in Nat /\ k <= n /\ ~ok(k)
  BY <1>2
<1>5. k - 1 \in Nat /\ k - 1 <= n /\ ~(k <= k - 1)
  BY <1>3, <1>4
<1>6. ok(k - 1)
  BY <1>2, <1>5
<1>7. CASE k \in H
  <2>1. CASE \E i \in H : i <= k - 1
    <3>1. PICK i \in H : i <= k - 1 /\ \A j \in H : j <= k - 1 => f[j] <= f[i]
      BY <1>6, <2>1
    <3>2. \A j \in H : j <= k => j <= k - 1 \/ j = k
      BY <1>3, <1>4
    <3>3. CASE f[k] <= f[i]
      <4>1. i <= k /\ \A j \in H : j <= k => f[j] <= f[i]
        BY <1>3, <1>4, <3>1, <3>2, <3>3
      <4>2. QED
        BY <1>4, <4>1
    <3>4. CASE ~(f[k] <= f[i])
      <4>1. k <= k /\ \A j \in H : j <= k => f[j] <= f[k]
        BY <1>4, <1>7, <3>1, <3>2, <3>4
      <4>2. QED
        BY <1>4, <1>7, <4>1
    <3>5. QED
      BY <3>3, <3>4
  <2>2. CASE ~ \E i \in H : i <= k - 1
    <3>1. \A j \in H : j <= k => j = k
      BY <1>3, <1>4, <2>2
    <3>2. k <= k /\ \A j \in H : j <= k => f[j] <= f[k]
      BY <1>4, <1>7, <3>1
    <3>3. QED
      BY <1>4, <1>7, <3>2
  <2>3. QED
    BY <2>1, <2>2
<1>8. CASE k \notin H
  <2>1. \A i \in H : i <= k <=> i <= k - 1
    BY <1>3, <1>4, <1>8
  <2>2. ok(k)
    BY <1>6, <2>1
  <2>3. QED
    BY <1>4, <2>2
<1>9. QED
  BY <1>7, <1>8

\* The sum of naturals is no less than any of them.
LEMMA SumsCover ==
  ASSUME NEW terms \in Seq(Int), \A k \in 1..Len(terms) : terms[k] \in Nat, NEW j \in 1..Len(terms)
  PROVE  terms[j] <= Model!SumOf(terms)
<1> DEFINE others == [terms EXCEPT ![j] = 0]
<1>1. others \in Seq(Int) /\ \A k \in 1..Len(others) : others[k] \in Nat
  OBVIOUS
<1>2. Model!SumOf(others) \in Nat
  BY <1>1, SumsOfNaturals
<1>3. Model!SumOf(others) = Model!SumOf(terms) - terms[j] + 0
  BY SumsChange
<1>4. Model!SumOf(terms) \in Int /\ terms[j] \in Nat
  BY SumIsInt
<1> HIDE DEF others
<1>5. QED
  BY <1>2, <1>3, <1>4

\* A sum of ones and nothing else counts the ones.
Ones(H, n) == [k \in 1..n |-> IF k \in H THEN 1 ELSE 0]

LEMMA OnesCount ==
  ASSUME NEW n \in Nat, NEW H \in SUBSET (1..n)
  PROVE  IsFiniteSet(H) /\ Model!SumOf(Ones(H, n)) = Cardinality(H)
<1> DEFINE ones == Ones(H, n)
           upTo(k) == {i \in H : i <= k}
<1>1. ones \in Seq(Int) /\ Len(ones) = n /\ \A k \in 1..n : ones[k] = IF k \in H THEN 1 ELSE 0
  BY DEF Ones
<1>0. \A i \in H : i \in Nat /\ i >= 1 /\ i <= n
  OBVIOUS
<1>2. \A k \in Nat : IsFiniteSet(upTo(k))
  <2>1. IsFiniteSet(1..n)
    BY FS_Interval
  <2>2. \A k \in Nat : upTo(k) \subseteq 1..n
    OBVIOUS
  <2>3. QED
    BY <2>1, <2>2, FS_Subset
<1>3. upTo(n) = H /\ upTo(0) = {}
  <2>1. \A i \in H : i <= n /\ ~(i <= 0)
    BY <1>0
  <2>2. upTo(n) = H
    BY <2>1
  <2>3. upTo(0) = {}
    BY <2>1
  <2>4. QED
    BY <2>2, <2>3
<1> HIDE DEF ones
<1>4. PICK s : AreSums(s, ones) /\ Model!SumOf(ones) = s[Len(ones)]
  BY <1>1, SumIsLast
<1> DEFINE bad == {k \in Nat : k <= n /\ s[k] # Cardinality(upTo(k))}
<1>5. ASSUME bad # {} PROVE FALSE
  <2>1. PICK k \in bad : \A l \in bad : k <= l
    BY <1>5, LeastOf
  <2>2. s[0] = Cardinality(upTo(0))
    <3>1. Cardinality({}) = 0
      BY FS_EmptySet
    <3>2. QED
      BY <1>3, <1>4, <3>1 DEF AreSums
  <2>3. k \in 1..n /\ k - 1 \in Nat /\ k - 1 <= n /\ ~(k <= k - 1)
    BY <2>1, <2>2
  <2>4. s[k - 1] = Cardinality(upTo(k - 1))
    BY <2>1, <2>3
  <2>5. s[k] = s[k - 1] + ones[k]
    BY <1>1, <1>4, <2>3 DEF AreSums
  <2>6. Cardinality(upTo(k - 1)) \in Nat /\ IsFiniteSet(upTo(k - 1))
    BY <1>2, <2>3, FS_CardinalityType
  <2>7. CASE k \in H
    <3>1. upTo(k) = upTo(k - 1) \union {k} /\ k \notin upTo(k - 1)
      <4>1. \A i \in H : i <= k <=> i <= k - 1 \/ i = k
        BY <1>0, <2>3
      <4>2. ~(k <= k - 1) /\ k <= k
        BY <2>3
      <4>3. QED
        BY <2>7, <4>1, <4>2
    <3>2. Cardinality(upTo(k)) = Cardinality(upTo(k - 1)) + 1
      <4> HIDE DEF upTo
      <4>1. QED
        BY <2>6, <3>1, FS_AddElement
    <3>3. QED
      BY <1>1, <2>1, <2>3, <2>4, <2>5, <2>7, <3>2
  <2>8. CASE k \notin H
    <3>1. upTo(k) = upTo(k - 1)
      <4>1. \A i \in H : i <= k <=> i <= k - 1
        BY <1>0, <2>3, <2>8
      <4>2. QED
        BY <4>1
    <3> HIDE DEF upTo
    <3>2. s[k] = s[k - 1] + 0
      BY <1>1, <2>3, <2>5, <2>8
    <3>3. QED
      BY <2>1, <2>4, <2>6, <3>1, <3>2
  <2>9. QED
    BY <2>7, <2>8
<1>6. s[n] = Cardinality(upTo(n))
  BY <1>5
<1>7. QED
  BY <1>1, <1>2, <1>3, <1>4, <1>6 DEF ones

\* A number that lies between so many times the bounds: its share does.
LEMMA SharesLieBetween ==
  ASSUME NEW sum \in Int, NEW parts \in Nat \ {0}, NEW low \in Int, NEW high \in Int
  PROVE  /\ sum \div parts \in Int
         /\ low * parts <= sum => low <= sum \div parts
         /\ sum <= high * parts => sum \div parts <= high
<1> DEFINE q == sum \div parts
<1>1. q \in Int /\ parts * q <= sum /\ sum < parts * q + parts
  OBVIOUS
<1> HIDE DEF q
<1>2. ASSUME NEW x \in Int, NEW y \in Int, x <= y PROVE parts * x <= parts * y
  BY <1>2
<1>3. \A x \in Int : x * parts = parts * x /\ parts * x \in Int /\ parts * (x + 1) = parts * x + parts
  OBVIOUS
<1>4. ASSUME low * parts <= sum PROVE low <= q
  <2>1. SUFFICES ASSUME q + 1 <= low PROVE FALSE
    BY <1>1
  <2>2. parts * (q + 1) <= parts * low
    BY <1>1, <1>2, <2>1
  <2>3. QED
    BY <1>1, <1>3, <1>4, <2>2
<1>5. ASSUME sum <= high * parts PROVE q <= high
  <2>1. SUFFICES ASSUME high + 1 <= q PROVE FALSE
    BY <1>1
  <2>2. parts * (high + 1) <= parts * q
    BY <1>1, <1>2, <2>1
  <2>3. QED
    BY <1>1, <1>3, <1>5, <2>2
<1>6. QED
  BY <1>1, <1>4, <1>5 DEF q

\* A set has one count, whichever module takes it.
LEMMA CountsAgree == \A S : Model!Cardinality(S) = Cardinality(S) /\ Coins!Cardinality(S) = Cardinality(S)
BY DEF Model!Cardinality, Coins!Cardinality, Cardinality

Texts == Seq(Int \union {Negator, Plain})

\* What the terms of a text add to its weight.
Terms(tokens) ==
  [i \in DOMAIN tokens |-> CASE i \notin Model!Hits(tokens) -> 0
                             [] i \in Model!Hits(tokens) /\ Model!Negated(tokens, i) -> -tokens[i]
                             [] OTHER -> tokens[i]]

LEMMA TermsOfTexts ==
  ASSUME NEW tokens \in Texts
  PROVE  /\ Len(tokens) \in Nat /\ DOMAIN tokens = 1..Len(tokens)
         /\ Model!Hits(tokens) \subseteq 1..Len(tokens)
         /\ \A i \in Model!Hits(tokens) : tokens[i] \in Int
         /\ Terms(tokens) \in Seq(Int) /\ Len(Terms(tokens)) = Len(tokens)
         /\ Model!Weighed(tokens) = Model!SumOf(Terms(tokens)) /\ Model!Weighed(tokens) \in Int
         /\ IsFiniteSet(Model!Hits(tokens)) /\ Cardinality(Model!Hits(tokens)) \in Nat
         /\ (Cardinality(Model!Hits(tokens)) = 0 <=> Model!Hits(tokens) = {})
<1>1. /\ Len(tokens) \in Nat /\ DOMAIN tokens = 1..Len(tokens)
      /\ \A i \in 1..Len(tokens) : tokens[i] \in Int \union {Negator, Plain}
  BY DEF Texts
<1>2. Model!Hits(tokens) \subseteq 1..Len(tokens) /\ \A i \in Model!Hits(tokens) : tokens[i] \in Int
  BY <1>1 DEF Model!Hits
<1>3. \A i \in 1..Len(tokens) : Terms(tokens)[i] \in Int
  <2>1. ASSUME NEW i \in 1..Len(tokens) PROVE Terms(tokens)[i] \in Int
    <3>1. CASE i \notin Model!Hits(tokens)
      BY <1>1, <3>1 DEF Terms
    <3>2. CASE i \in Model!Hits(tokens)
      <4>1. tokens[i] \in Int /\ -tokens[i] \in Int
        BY <1>2, <3>2
      <4>2. Terms(tokens)[i] \in {tokens[i], -tokens[i]}
        BY <1>1, <3>2 DEF Terms
      <4>3. QED
        BY <4>1, <4>2
    <3>3. QED
      BY <3>1, <3>2
  <2>2. QED
    BY <2>1
<1>4. Terms(tokens) \in Seq(Int) /\ Len(Terms(tokens)) = Len(tokens)
  <2>1. DOMAIN Terms(tokens) = 1..Len(tokens) /\ Terms(tokens) = [i \in 1..Len(tokens) |-> Terms(tokens)[i]]
    BY <1>1 DEF Terms
  <2> DEFINE t == Terms(tokens)
  <2>2. t = [i \in 1..Len(tokens) |-> t[i]] /\ \A i \in 1..Len(tokens) : t[i] \in Int
    BY <1>3, <2>1
  <2> HIDE DEF t
  <2>3. t \in Seq(Int) /\ Len(t) = Len(tokens)
    BY <1>1, <2>2
  <2>4. QED
    BY <2>3 DEF t
<1>5. Model!Weighed(tokens) = Model!SumOf(Terms(tokens))
  BY DEF Model!Weighed, Terms
<1>6. Model!Weighed(tokens) \in Int
  BY <1>4, <1>5, SumIsInt
<1>7. IsFiniteSet(Model!Hits(tokens))
  BY <1>1, <1>2, OnesCount
<1>8. Cardinality(Model!Hits(tokens)) \in Nat /\ (Cardinality(Model!Hits(tokens)) = 0 <=> Model!Hits(tokens) = {})
  BY <1>7, FS_CardinalityType, FS_EmptySet
<1>9. QED
  BY <1>1, <1>2, <1>4, <1>5, <1>6, <1>7, <1>8

\* The strongest term of a text that has any.
Strongest(tokens) == Model!Max({Model!Magnitude(tokens[i]) : i \in Model!Hits(tokens)})

LEMMA StrongestExists ==
  ASSUME NEW tokens \in Texts, Model!Hits(tokens) # {}
  PROVE  /\ Strongest(tokens) \in Nat
         /\ \A i \in Model!Hits(tokens) : Model!Magnitude(tokens[i]) <= Strongest(tokens)
<1> DEFINE H == Model!Hits(tokens)
           f == [i \in H |-> Model!Magnitude(tokens[i])]
           S == {Model!Magnitude(tokens[i]) : i \in H}
<1>1. Len(tokens) \in Nat /\ H \in SUBSET (1..Len(tokens)) /\ \A i \in H : tokens[i] \in Int
  BY TermsOfTexts
<1>2. \A i \in H : f[i] \in Nat
  BY <1>1 DEF Model!Magnitude
<1>3. \A i \in H : f[i] \in Int
  BY <1>2
<1>4. \E i \in H : \A j \in H : f[j] <= f[i]
  <2> HIDE DEF f, H
  <2>1. QED
    BY <1>1, <1>3, LargestOf DEF H
<1>5. \E x \in S : \A y \in S : x >= y
  <2>1. PICK i \in H : \A j \in H : f[j] <= f[i]
    BY <1>4
  <2>2. f[i] \in S /\ \A y \in S : \E j \in H : y = f[j]
    OBVIOUS
  <2>3. \A y \in S : f[i] >= y
    BY <1>2, <2>1, <2>2
  <2>4. QED
    BY <2>2, <2>3
<1>6. Strongest(tokens) \in S /\ \A y \in S : Strongest(tokens) >= y
  <2> HIDE DEF S
  <2>1. Model!Max(S) \in S /\ \A y \in S : Model!Max(S) >= y
    BY <1>5 DEF Model!Max
  <2>2. QED
    BY <2>1 DEF Strongest, S
<1>7. S \subseteq Nat
  BY <1>2
<1>8. QED
  BY <1>6, <1>7

\* sentiment.ts, classifyWithLexicon: every text has a verdict on the scales.
LEMMA LexiconKeepsItsScales ==
  ASSUME NEW tokens \in Texts
  PROVE  Model!ClassifyWithLexicon(tokens) \in Lexicons
<1> DEFINE H == Model!Hits(tokens)
           found == Cardinality(H)
           lexicon == Model!ClassifyWithLexicon(tokens)
<1>1. CASE found = 0
  <2>1. lexicon = [score |-> 0, confidence |-> 0]
    BY <1>1, CountsAgree DEF Model!ClassifyWithLexicon
  <2>2. QED
    BY <2>1 DEF Lexicons
<1>2. CASE found # 0
  <2> DEFINE sum == Model!Weighed(tokens)
             confidence == IF 25 * found > Strongest(tokens) THEN 25 * found ELSE Strongest(tokens)
  <2>1. found \in Nat \ {0} /\ sum \in Int /\ H # {}
    BY <1>2, TermsOfTexts
  <2>2. Strongest(tokens) \in Nat
    BY <2>1, StrongestExists
  <2>3. lexicon = [score |-> Model!Clamp(sum \div found, -100, 100), confidence |-> Model!Clamp(confidence, 0, 100)]
    BY <1>2, CountsAgree DEF Model!ClassifyWithLexicon, Strongest
  <2> HIDE DEF H, found, sum, lexicon
  <2>4. sum \div found \in Int
    BY <2>1, SharesLieBetween
  <2>5. confidence \in Int
    BY <2>1, <2>2
  <2> HIDE DEF confidence
  <2>6. Model!Clamp(sum \div found, -100, 100) \in -100..100 /\ Model!Clamp(confidence, 0, 100) \in 0..100
    <3>1. -100 \in Int /\ 100 \in Int /\ 0 \in Int /\ -100 <= 100 /\ 0 <= 100
      OBVIOUS
    <3>2. Model!Clamp(sum \div found, -100, 100) \in -100..100
      BY <2>4 DEF Model!Clamp
    <3>3. Model!Clamp(confidence, 0, 100) \in 0..100
      BY <2>5 DEF Model!Clamp
    <3>4. QED
      BY <3>2, <3>3
  <2>7. lexicon \in Lexicons
    BY <2>3, <2>6 DEF Lexicons
  <2>8. QED
    BY <2>7 DEF lexicon
<1>3. QED
  BY <1>1, <1>2

\* A text of nothing but strong bearish terms reads as strongly bearish.
LEMMA BadNewsReadsBad ==
  ASSUME NEW tokens \in Texts, Model!OnlyBadNews(tokens)
  PROVE  Model!ClassifyWithLexicon(tokens).score <= -80 /\ Model!ClassifyWithLexicon(tokens).confidence >= 80
<1> DEFINE H == Model!Hits(tokens)
           n == Len(tokens)
           found == Cardinality(H)
           sum == Model!Weighed(tokens)
           lexicon == Model!ClassifyWithLexicon(tokens)
           confidence == IF 25 * found > Strongest(tokens) THEN 25 * found ELSE Strongest(tokens)
<1>1. H # {} /\ \A i \in H : tokens[i] <= -80 /\ ~Model!Negated(tokens, i)
  BY DEF Model!OnlyBadNews
<1>2. /\ n \in Nat /\ H \in SUBSET (1..n) /\ found \in Nat \ {0} /\ sum \in Int
      /\ Terms(tokens) \in Seq(Int) /\ Len(Terms(tokens)) = n /\ sum = Model!SumOf(Terms(tokens))
      /\ \A i \in H : tokens[i] \in Int
  BY <1>1, TermsOfTexts
<1>3. Ones(H, n) \in Seq(Int) /\ Len(Ones(H, n)) = n /\ Model!SumOf(Ones(H, n)) = found
  <2>1. Model!SumOf(Ones(H, n)) = found
    BY <1>2, OnesCount
  <2>2. QED
    BY <1>2, <2>1 DEF Ones
<1>4. \A i \in 1..n : 1 * Terms(tokens)[i] <= (-80) * Ones(H, n)[i]
  <2>1. ASSUME NEW i \in 1..n PROVE 1 * Terms(tokens)[i] <= (-80) * Ones(H, n)[i]
    <3>1. DOMAIN tokens = 1..n
      BY TermsOfTexts
    <3>2. CASE i \in H
      <4>1. Terms(tokens)[i] = tokens[i] /\ Ones(H, n)[i] = 1
        BY <1>1, <3>1, <3>2 DEF Terms, Ones
      <4>2. tokens[i] \in Int /\ tokens[i] <= -80
        BY <1>1, <1>2, <3>2
      <4>3. QED
        BY <4>1, <4>2
    <3>3. CASE i \notin H
      <4>1. Terms(tokens)[i] = 0 /\ Ones(H, n)[i] = 0
        BY <3>1, <3>3 DEF Terms, Ones
      <4>2. QED
        BY <4>1
    <3>4. QED
      BY <3>2, <3>3
  <2>2. QED
    BY <2>1
<1>5. 1 * Model!SumOf(Terms(tokens)) <= (-80) * Model!SumOf(Ones(H, n))
  <2> DEFINE terms == Terms(tokens)
             ones == Ones(H, n)
  <2>1. /\ terms \in Seq(Int) /\ ones \in Seq(Int) /\ Len(ones) = Len(terms)
        /\ \A k \in 1..Len(terms) : 1 * terms[k] <= (-80) * ones[k]
    BY <1>2, <1>3, <1>4
  <2> HIDE DEF terms, ones
  <2>2. 1 * Model!SumOf(terms) <= (-80) * Model!SumOf(ones)
    <3>1. 1 \in Int /\ -80 \in Int
      OBVIOUS
    <3>2. QED
      BY <2>1, <3>1, SumsCompare
  <2>3. QED
    BY <2>2 DEF terms, ones
<1>6. sum <= (-80) * found
  BY <1>2, <1>3, <1>5
<1>7. Strongest(tokens) \in Nat /\ Strongest(tokens) >= 80
  <2>1. PICK i \in H : TRUE
    BY <1>1
  <2>2. Model!Magnitude(tokens[i]) >= 80 /\ Model!Magnitude(tokens[i]) \in Int
    BY <1>1, <1>2, <2>1 DEF Model!Magnitude
  <2>3. Strongest(tokens) \in Nat /\ Model!Magnitude(tokens[i]) <= Strongest(tokens)
    BY <1>1, <2>1, StrongestExists
  <2>4. QED
    BY <2>2, <2>3
<1>8. lexicon = [score |-> Model!Clamp(sum \div found, -100, 100), confidence |-> Model!Clamp(confidence, 0, 100)]
  <2>1. found # 0
    BY <1>2
  <2>2. QED
    BY <2>1, CountsAgree DEF Model!ClassifyWithLexicon, Strongest
<1>9. confidence \in Int /\ confidence >= 80
  BY <1>2, <1>7
<1> HIDE DEF H, n, found, sum, lexicon, confidence
<1>10. sum \div found \in Int /\ sum \div found <= -80
  <2>1. sum \in Int /\ found \in Nat \ {0} /\ -80 \in Int /\ 0 \in Int
    BY <1>2
  <2>2. QED
    BY <1>6, <2>1, SharesLieBetween
<1>11. Model!Clamp(sum \div found, -100, 100) <= -80
  BY <1>10 DEF Model!Clamp
<1>12. Model!Clamp(confidence, 0, 100) >= 80
  BY <1>9 DEF Model!Clamp
<1>13. lexicon.score <= -80 /\ lexicon.confidence >= 80
  BY <1>8, <1>11, <1>12
<1>14. QED
  BY <1>13 DEF lexicon

\* sentiment.ts, reconcileSentiment: of every text, verdict and confidence,
\* what is stored lies between the model and the lexicon, and a disclosure
\* whose only terms are strong bearish ones never keeps a bullish verdict.
THEOREM SentimentAlwaysSound ==
  ASSUME None \notin Int, NEW tokens \in Texts, NEW model \in (-100..100) \union {None}, NEW confidence \in 1..100
  PROVE  Model!VerdictBetween(tokens, model, confidence) /\ Model!BadNewsStaysBad(tokens, model, confidence)
<1>1. Model!VerdictBetween(tokens, model, confidence)
  BY LexiconKeepsItsScales, VerdictsLieBetween
<1>2. ASSUME model # None, Model!OnlyBadNews(tokens)
      PROVE  Model!ScoreToSentiment(Model!ReconcileSentiment(model, confidence, Model!ClassifyWithLexicon(tokens)).score)
               \in {"NEUTRAL", "BEARISH", "VERY_BEARISH"}
  <2> DEFINE lexicon == Model!ClassifyWithLexicon(tokens)
  <2>1. lexicon \in Lexicons /\ lexicon.score <= -80 /\ lexicon.confidence >= 80
    BY <1>2, LexiconKeepsItsScales, BadNewsReadsBad
  <2> HIDE DEF lexicon
  <2>2. model \in -100..100
    BY <1>2
  <2>3. Model!ScoreToSentiment(Model!ReconcileSentiment(model, confidence, lexicon).score)
          \in {"NEUTRAL", "BEARISH", "VERY_BEARISH"}
    BY <2>1, <2>2, StrongBearishStands
  <2>4. QED
    BY <2>3 DEF lexicon
<1>3. QED
  BY <1>1, <1>2 DEF Model!BadNewsStaysBad

Samples == Seq([score : Int, weight : Int])

\* What the samples add to the sum and to the weight of their mean.
Counts(samples, k) == samples[k].weight > 0
Bounded(samples, k) == Model!Clamp(samples[k].score, -100, 100)
Scored(samples) ==
  [k \in DOMAIN samples |-> IF Counts(samples, k) THEN Bounded(samples, k) * samples[k].weight ELSE 0]
Carried(samples) == [k \in DOMAIN samples |-> IF Counts(samples, k) THEN samples[k].weight ELSE 0]

LEMMA MeanIsOfSums ==
  ASSUME NEW samples
  PROVE  Model!AggregateSentiment(samples)
           = IF Model!SumOf(Carried(samples)) = 0 THEN None
             ELSE Model!SumOf(Scored(samples)) \div Model!SumOf(Carried(samples))
BY DEF Model!AggregateSentiment, Scored, Carried, Counts, Bounded

LEMMA PartsOfSamples ==
  ASSUME NEW samples \in Samples
  PROVE  /\ Len(samples) \in Nat /\ DOMAIN samples = 1..Len(samples)
         /\ Scored(samples) \in Seq(Int) /\ Len(Scored(samples)) = Len(samples)
         /\ Carried(samples) \in Seq(Int) /\ Len(Carried(samples)) = Len(samples)
         /\ \A k \in 1..Len(samples) :
              /\ samples[k] \in [score : Int, weight : Int]
              /\ Bounded(samples, k) \in -100..100
              /\ Carried(samples)[k] \in Nat
              /\ Carried(samples)[k] = (IF Counts(samples, k) THEN samples[k].weight ELSE 0)
              /\ Scored(samples)[k] = (IF Counts(samples, k) THEN Bounded(samples, k) * samples[k].weight ELSE 0)
<1>1. /\ Len(samples) \in Nat /\ DOMAIN samples = 1..Len(samples)
      /\ \A k \in 1..Len(samples) : samples[k] \in [score : Int, weight : Int]
  <2>1. ASSUME NEW R, NEW s \in Seq(R) PROVE Len(s) \in Nat /\ DOMAIN s = 1..Len(s) /\ \A k \in 1..Len(s) : s[k] \in R
    OBVIOUS
  <2>2. QED
    BY <2>1 DEF Samples
<1>2. ASSUME NEW k \in 1..Len(samples)
      PROVE  /\ Bounded(samples, k) \in -100..100
             /\ Carried(samples)[k] = (IF Counts(samples, k) THEN samples[k].weight ELSE 0)
             /\ Scored(samples)[k] = (IF Counts(samples, k) THEN Bounded(samples, k) * samples[k].weight ELSE 0)
             /\ Carried(samples)[k] \in Nat /\ Scored(samples)[k] \in Int
  <2>1. samples[k].score \in Int /\ samples[k].weight \in Int
    BY <1>1
  <2>2. Bounded(samples, k) \in -100..100
    <3>1. ASSUME NEW x \in Int PROVE Model!Clamp(x, -100, 100) \in -100..100
      BY <3>1 DEF Model!Clamp
    <3>2. QED
      BY <2>1, <3>1 DEF Bounded
  <2>3. Carried(samples)[k] = (IF Counts(samples, k) THEN samples[k].weight ELSE 0)
    BY <1>1 DEF Carried
  <2>4. Scored(samples)[k] = (IF Counts(samples, k) THEN Bounded(samples, k) * samples[k].weight ELSE 0)
    BY <1>1 DEF Scored
  <2>5. Counts(samples, k) => samples[k].weight \in Nat
    BY <2>1 DEF Counts
  <2>6. Carried(samples)[k] \in Nat
    BY <2>3, <2>5
  <2>7. Scored(samples)[k] \in Int
    <3>1. \A x \in -100..100, y \in Int : x * y \in Int
      OBVIOUS
    <3>2. Bounded(samples, k) * samples[k].weight \in Int
      BY <2>1, <2>2, <3>1
    <3>3. QED
      BY <2>4, <3>2
  <2>8. QED
    BY <2>2, <2>3, <2>4, <2>6, <2>7
<1>3. ASSUME NEW f, f = [k \in 1..Len(samples) |-> f[k]], \A k \in 1..Len(samples) : f[k] \in Int
      PROVE  f \in Seq(Int) /\ Len(f) = Len(samples)
  BY <1>1, <1>3
<1>4. Scored(samples) \in Seq(Int) /\ Len(Scored(samples)) = Len(samples)
  <2>1. Scored(samples) = [k \in 1..Len(samples) |-> Scored(samples)[k]]
    BY <1>1 DEF Scored
  <2>2. QED
    BY <1>2, <1>3, <2>1
<1>5. Carried(samples) \in Seq(Int) /\ Len(Carried(samples)) = Len(samples)
  <2>1. Carried(samples) = [k \in 1..Len(samples) |-> Carried(samples)[k]]
    BY <1>1 DEF Carried
  <2>2. \A k \in 1..Len(samples) : Carried(samples)[k] \in Int
    BY <1>2
  <2>3. QED
    BY <1>3, <2>1, <2>2
<1>6. QED
  BY <1>1, <1>2, <1>4, <1>5

\* The mean lies between any bounds of the scores that count.
LEMMA MeanLiesBetween ==
  ASSUME NEW samples \in Samples, NEW low \in Int, NEW high \in Int,
         \A k \in 1..Len(samples) : Counts(samples, k) => low <= Bounded(samples, k) /\ Bounded(samples, k) <= high,
         NEW j \in 1..Len(samples), Counts(samples, j)
  PROVE  LET mean == Model!AggregateSentiment(samples) IN mean \in Int /\ low <= mean /\ mean <= high
<1> DEFINE total == Model!SumOf(Carried(samples))
           sum == Model!SumOf(Scored(samples))
           n == Len(samples)
<1>1. /\ n \in Nat /\ Scored(samples) \in Seq(Int) /\ Len(Scored(samples)) = n
      /\ Carried(samples) \in Seq(Int) /\ Len(Carried(samples)) = n
      /\ \A k \in 1..n : Carried(samples)[k] \in Nat /\ Scored(samples)[k] \in Int
  <2>1. /\ n \in Nat /\ Scored(samples) \in Seq(Int) /\ Len(Scored(samples)) = n
        /\ Carried(samples) \in Seq(Int) /\ Len(Carried(samples)) = n
        /\ \A k \in 1..n : Carried(samples)[k] \in Nat
    BY PartsOfSamples
  <2>2. QED
    BY <2>1
<1>2. total \in Nat \ {0} /\ sum \in Int
  <2>1. Carried(samples)[j] <= total
    BY <1>1, SumsCover
  <2>2. Carried(samples)[j] > 0
    BY PartsOfSamples DEF Counts
  <2>3. total \in Nat /\ sum \in Int
    BY <1>1, SumsOfNaturals, SumIsInt
  <2>4. Carried(samples)[j] \in Nat
    BY <1>1
  <2>5. QED
    BY <2>1, <2>2, <2>3, <2>4
<1>3. ASSUME NEW x \in Int, NEW y \in Int, x <= y, NEW w \in Nat PROVE x * w <= y * w /\ x * w = w * x /\ x * w \in Int
  BY <1>3
<1>4. \A k \in 1..n : low * Carried(samples)[k] <= 1 * Scored(samples)[k]
                      /\ 1 * Scored(samples)[k] <= high * Carried(samples)[k]
  <2>1. ASSUME NEW k \in 1..n
        PROVE  low * Carried(samples)[k] <= 1 * Scored(samples)[k] /\ 1 * Scored(samples)[k] <= high * Carried(samples)[k]
    <3> DEFINE w == samples[k].weight
               b == Bounded(samples, k)
    <3>1. CASE Counts(samples, k)
      <4>0. samples[k] \in [score : Int, weight : Int] /\ b \in -100..100 /\ w > 0
        BY <3>1, PartsOfSamples DEF Counts
      <4>1. Carried(samples)[k] = w /\ Scored(samples)[k] = b * w /\ w \in Nat /\ b \in Int /\ low <= b /\ b <= high
        <5>0. w \in Int
          BY <4>0
        <5> HIDE DEF w, b
        <5>1. w \in Nat /\ b \in Int
          BY <4>0, <5>0
        <5> USE DEF w, b
        <5>2. Carried(samples)[k] = w /\ Scored(samples)[k] = b * w
          BY <3>1, PartsOfSamples
        <5>3. QED
          BY <3>1, <5>1, <5>2
      <4> HIDE DEF w, b
      <4>2. low * w <= b * w /\ b * w <= high * w /\ b * w \in Int
        BY <1>3, <4>1
      <4>3. QED
        BY <4>1, <4>2
    <3>2. CASE ~Counts(samples, k)
      <4>1. Carried(samples)[k] = 0 /\ Scored(samples)[k] = 0
        BY <3>2, PartsOfSamples
      <4>2. QED
        BY <4>1
    <3>3. QED
      BY <3>1, <3>2
  <2>2. QED
    BY <2>1
<1>5. low * total <= 1 * sum
  <2> DEFINE carried == Carried(samples)
             scored == Scored(samples)
  <2>1. /\ carried \in Seq(Int) /\ scored \in Seq(Int) /\ Len(scored) = Len(carried) /\ 1 \in Int
        /\ \A k \in 1..Len(carried) : low * carried[k] <= 1 * scored[k]
    BY <1>1, <1>4
  <2> HIDE DEF carried, scored
  <2>2. low * Model!SumOf(carried) <= 1 * Model!SumOf(scored)
    BY <2>1, SumsCompare
  <2>3. QED
    BY <2>2 DEF carried, scored
<1>6. 1 * sum <= high * total
  <2> DEFINE carried == Carried(samples)
             scored == Scored(samples)
  <2>1. /\ carried \in Seq(Int) /\ scored \in Seq(Int) /\ Len(carried) = Len(scored) /\ 1 \in Int
        /\ \A k \in 1..Len(scored) : 1 * scored[k] <= high * carried[k]
    BY <1>1, <1>4
  <2> HIDE DEF carried, scored
  <2>2. 1 * Model!SumOf(scored) <= high * Model!SumOf(carried)
    BY <2>1, SumsCompare
  <2>3. QED
    BY <2>2 DEF carried, scored
<1>7. Model!AggregateSentiment(samples) = sum \div total
  BY <1>2, MeanIsOfSums
<1> HIDE DEF sum, total
<1>8. low * total <= sum /\ sum <= high * total
  <2>1. 1 * sum = sum
    BY <1>2
  <2>2. QED
    BY <1>5, <1>6, <2>1
<1>9. sum \div total \in Int /\ low <= sum \div total /\ sum \div total <= high
  BY <1>2, <1>8, SharesLieBetween
<1>10. QED
  BY <1>7, <1>9

\* sentiment.ts, aggregateSentiment, and reddit.ts: of any samples.
THEOREM MeanAlwaysBetween ==
  ASSUME None \notin Int, NEW samples \in Samples
  PROVE  Model!MeanBetween(samples)
<1> DEFINE n == Len(samples)
           counted == {k \in DOMAIN samples : samples[k].weight > 0}
           scores == {Model!Clamp(samples[k].score, -100, 100) : k \in counted}
           mean == Model!AggregateSentiment(samples)
           changed(other) ==
             [k \in DOMAIN samples |-> IF k \in counted THEN samples[k] ELSE [samples[k] EXCEPT !.score = other]]
<1>1. /\ n \in Nat /\ DOMAIN samples = 1..n /\ counted \in SUBSET (1..n)
      /\ \A k \in counted : Bounded(samples, k) \in Int
      /\ \A k \in 1..n : k \in counted <=> Counts(samples, k)
  <2>1. n \in Nat /\ DOMAIN samples = 1..n /\ \A k \in 1..n : Bounded(samples, k) \in -100..100
    BY PartsOfSamples
  <2>2. counted \in SUBSET (1..n) /\ \A k \in 1..n : k \in counted <=> Counts(samples, k)
    BY <2>1 DEF Counts
  <2> HIDE DEF counted
  <2>3. \A x \in -100..100 : x \in Int
    OBVIOUS
  <2>4. \A k \in counted : Bounded(samples, k) \in Int
    BY <2>1, <2>2, <2>3
  <2>5. QED
    BY <2>1, <2>2, <2>4
<1>2. scores = {Bounded(samples, k) : k \in counted}
  BY DEF Bounded
<1>3. ASSUME NEW other PROVE mean = Model!AggregateSentiment(changed(other))
  <2> DEFINE others == changed(other)
  <2>1. DOMAIN others = DOMAIN samples
    OBVIOUS
  <2>2. ASSUME NEW k \in DOMAIN samples
        PROVE  others[k].weight = samples[k].weight /\ (k \in counted => others[k] = samples[k])
    <3>1. samples[k] \in [score : Int, weight : Int]
      BY <1>1, PartsOfSamples
    <3>2. QED
      BY <3>1
  <2>3. \A k \in DOMAIN samples : Counts(samples, k) = (k \in counted)
    BY DEF Counts
  <2> HIDE DEF others, counted
  <2>4. Carried(others) = Carried(samples)
    BY <2>1, <2>2 DEF Carried, Counts
  <2>5. \A k \in DOMAIN samples : /\ Counts(others, k) = Counts(samples, k)
                                  /\ Counts(samples, k) => Bounded(others, k) = Bounded(samples, k)
    BY <2>2, <2>3 DEF Counts, Bounded
  <2>6. Scored(others) = Scored(samples)
    <3>1. \A k \in DOMAIN samples :
            (IF Counts(others, k) THEN Bounded(others, k) * others[k].weight ELSE 0)
              = (IF Counts(samples, k) THEN Bounded(samples, k) * samples[k].weight ELSE 0)
      BY <2>2, <2>5
    <3>2. QED
      BY <2>1, <3>1 DEF Scored
  <2>7. QED
    BY <2>4, <2>6, MeanIsOfSums DEF others
<1>4. CASE counted = {}
  <2> DEFINE carried == Carried(samples)
  <2>1. /\ carried \in Seq(Int) /\ Len(carried) = n /\ 0 \in Int /\ 1 \in Int
        /\ \A k \in 1..n : carried[k] = 0
    <3>1. carried \in Seq(Int) /\ Len(carried) = n
      BY PartsOfSamples
    <3>2. \A k \in 1..n : ~Counts(samples, k)
      BY <1>1, <1>4
    <3>3. \A k \in 1..n : carried[k] = 0
      BY <3>2, PartsOfSamples
    <3>4. QED
      BY <3>1, <3>3
  <2> HIDE DEF carried
  <2>2. 1 * Model!SumOf(carried) <= 0 * Model!SumOf(carried)
    <3>1. \A k \in 1..Len(carried) : 1 * carried[k] <= 0 * carried[k]
      BY <2>1
    <3>2. QED
      BY <2>1, <3>1, SumsCompare
  <2>3. Model!SumOf(carried) \in Nat
    BY <2>1, SumsOfNaturals
  <2>4. Model!SumOf(carried) = 0
    BY <2>2, <2>3
  <2>5. mean = None
    BY <2>4, MeanIsOfSums DEF carried
  <2>6. \A other \in {0, 100} : mean = Model!AggregateSentiment(changed(other))
    BY <1>3
  <2> HIDE DEF mean
  <2>7. QED
    BY <1>4, <2>5, <2>6 DEF Model!MeanBetween, mean
<1>5. CASE counted # {}
  <2> DEFINE f == [k \in counted |-> Bounded(samples, k)]
             g == [k \in counted |-> -Bounded(samples, k)]
  <2>1. \A k \in counted : f[k] \in Int /\ g[k] \in Int /\ f[k] = Bounded(samples, k) /\ g[k] = -Bounded(samples, k)
    BY <1>1
  <2> HIDE DEF f, g, counted
  <2>2. PICK h \in counted : \A k \in counted : f[k] <= f[h]
    BY <1>1, <1>5, <2>1, LargestOf
  <2>3. PICK l \in counted : \A k \in counted : g[k] <= g[l]
    BY <1>1, <1>5, <2>1, LargestOf
  <2>4. \A k \in counted : /\ Bounded(samples, k) \in Int
                           /\ Bounded(samples, k) <= Bounded(samples, h) /\ Bounded(samples, l) <= Bounded(samples, k)
    BY <1>1, <2>1, <2>2, <2>3
  <2> HIDE DEF scores
  <2>5. Bounded(samples, h) \in scores /\ \A y \in scores : Bounded(samples, h) >= y
    BY <1>2, <2>4
  <2>6. Bounded(samples, l) \in scores /\ \A y \in scores : Bounded(samples, l) <= y
    BY <1>2, <2>4
  <2>7. Model!Max(scores) \in scores /\ \A y \in scores : Model!Max(scores) >= y
    BY <2>5 DEF Model!Max
  <2>8. Model!Min(scores) \in scores /\ \A y \in scores : Model!Min(scores) <= y
    BY <2>6 DEF Model!Min
  <2>9. Model!Max(scores) \in Int /\ Model!Min(scores) \in Int
    BY <1>1, <1>2, <2>7, <2>8
  <2>10. \A k \in 1..n : Counts(samples, k) =>
           Model!Min(scores) <= Bounded(samples, k) /\ Bounded(samples, k) <= Model!Max(scores)
    BY <1>1, <1>2, <2>7, <2>8
  <2>11. h \in 1..Len(samples) /\ Counts(samples, h)
    BY <1>1, <2>2
  <2> HIDE DEF mean
  <2>12. Model!Min(scores) <= mean /\ mean <= Model!Max(scores)
    BY <2>9, <2>10, <2>11, MeanLiesBetween DEF mean
  <2>13. QED
    BY <1>3, <1>5, <2>12 DEF Model!MeanBetween, scores, counted, mean
<1>6. QED
  BY <1>4, <1>5

------------------------------------------------------------------------------
\* The model's voice (ModelOutput).

\* Only the category, the model and the credibility are known.
Bare(i) ==
  /\ {"category", "model", "credibility"} \cup Model!OptionalInputs \cup {"doublings", "decay"} \subseteq DOMAIN i
  /\ i.category \in DOMAIN Model!Prior /\ i.credibility \in Levels /\ i.model \in Levels \union {None}
  /\ \A f \in (Model!OptionalInputs \union {"doublings"}) \ {"model"} : i[f] = None

LEMMA BareScore ==
  ASSUME None \notin Int, NEW i, Bare(i)
  PROVE  LET base == Model!Prior[i.category] * 30 + i.credibility * 15
             known == i.model # None
         IN  Model!WeightedScore(Model!ImportanceParts(i))
               = <<base + (IF known THEN i.model * 25 ELSE 0), 45 + (IF known THEN 25 ELSE 0)>>
<1> DEFINE c == Model!ImportanceParts(i)
           p == Model!Prior[i.category]
           m == i.model
           d == i.credibility
<1>1. i.hint = None /\ i.magnitude = None /\ i.authority = None /\ i.engagement = None /\ i.doublings = None
  BY DEF Bare, Model!OptionalInputs
<1>2. p \in 1..100 /\ m \in Levels \union {None} /\ d \in Levels
  BY PriorsAreLevels DEF Bare
<1>3. c = << <<p, 30>>, <<m, 25>>, <<None, 20>>, <<None, 20>>, <<None, 12>>, <<None, 10>>, <<None, 15>>, <<d, 15>> >>
  BY <1>1 DEF Model!ImportanceParts, Model!Corroboration
<1> HIDE DEF c, p, m, d
<1>4. p # None /\ d # None /\ p \in Nat /\ d \in Nat /\ p \in Levels
  BY <1>2 DEF Levels
<1>5. c \in Components /\ Len(c) = 8
  <2>1. << <<p, 30>>, <<m, 25>>, <<None, 20>>, <<None, 20>>, <<None, 12>>, <<None, 10>>, <<None, 15>>, <<d, 15>> >>
          \in Seq((Levels \union {None}) \X Nat)
    BY <1>2, <1>4
  <2>2. QED
    BY <1>3, <2>1 DEF Components
<1>6. /\ Values(c) \in Seq(Int) /\ Len(Values(c)) = 8 /\ Weights(c) \in Seq(Int) /\ Len(Weights(c)) = 8 /\ DOMAIN c = 1..8
  BY <1>5, ComponentParts
<1>7. /\ Values(c)[1] = p * 30 /\ Values(c)[2] = (IF m # None THEN m * 25 ELSE 0) /\ Values(c)[3] = 0
      /\ Values(c)[4] = 0 /\ Values(c)[5] = 0 /\ Values(c)[6] = 0 /\ Values(c)[7] = 0 /\ Values(c)[8] = d * 15
  BY <1>3, <1>4, <1>6 DEF Values
<1>8. /\ Weights(c)[1] = 30 /\ Weights(c)[2] = (IF m # None THEN 25 ELSE 0) /\ Weights(c)[3] = 0
      /\ Weights(c)[4] = 0 /\ Weights(c)[5] = 0 /\ Weights(c)[6] = 0 /\ Weights(c)[7] = 0 /\ Weights(c)[8] = 15
  BY <1>3, <1>4, <1>6 DEF Weights
<1>9. ASSUME NEW terms \in Seq(Int), Len(terms) = 8
      PROVE  Model!SumOf(terms) = terms[1] + terms[2] + terms[3] + terms[4] + terms[5] + terms[6] + terms[7] + terms[8]
  <2>1. PICK s : AreSums(s, terms) /\ Model!SumOf(terms) = s[8]
    BY <1>9, SumIsLast
  <2>2. s[0] = 0 /\ \A k \in 1..8 : s[k] = s[k - 1] + terms[k]
    BY <1>9, <2>1 DEF AreSums
  <2>3. \A k \in 1..Len(terms) : terms[k] \in Int
    OBVIOUS
  <2>4. /\ s[1] = s[0] + terms[1] /\ s[2] = s[1] + terms[2] /\ s[3] = s[2] + terms[3] /\ s[4] = s[3] + terms[4]
    <3>1. \A j \in 0..7 : j + 1 \in 1..8 /\ (j + 1) - 1 = j
      OBVIOUS
    <3>2. \A j \in 0..7 : s[j + 1] = s[j] + terms[j + 1]
      BY <2>2, <3>1
    <3>3. s[0 + 1] = s[0] + terms[0 + 1] /\ s[1 + 1] = s[1] + terms[1 + 1] /\ s[2 + 1] = s[2] + terms[2 + 1]
          /\ s[3 + 1] = s[3] + terms[3 + 1]
      BY <3>2
    <3>4. QED
      BY <3>3
  <2>5. /\ s[5] = s[4] + terms[5] /\ s[6] = s[5] + terms[6] /\ s[7] = s[6] + terms[7] /\ s[8] = s[7] + terms[8]
    BY <2>2
  <2>6. QED
    BY <1>9, <2>1, <2>2, <2>3, <2>4, <2>5
<1>10. (IF m # None THEN m * 25 ELSE 0) \in Int /\ p * 30 \in Int /\ d * 15 \in Int
  BY <1>2, <1>4 DEF Levels
<1>11. /\ Model!SumOf(Values(c)) = p * 30 + d * 15 + (IF m # None THEN m * 25 ELSE 0)
       /\ Model!SumOf(Weights(c)) = 45 + (IF m # None THEN 25 ELSE 0)
  <2>1. Model!SumOf(Values(c)) = p * 30 + (IF m # None THEN m * 25 ELSE 0) + 0 + 0 + 0 + 0 + 0 + d * 15
    <3> DEFINE terms == Values(c)
    <3>1. terms \in Seq(Int) /\ Len(terms) = 8
      BY <1>6
    <3> HIDE DEF terms
    <3>2. Model!SumOf(terms) = terms[1] + terms[2] + terms[3] + terms[4] + terms[5] + terms[6] + terms[7] + terms[8]
      BY <1>9, <3>1
    <3>3. QED
      BY <1>7, <3>2 DEF terms
  <2>2. Model!SumOf(Weights(c)) = 30 + (IF m # None THEN 25 ELSE 0) + 0 + 0 + 0 + 0 + 0 + 15
    <3> DEFINE terms == Weights(c)
    <3>1. terms \in Seq(Int) /\ Len(terms) = 8
      BY <1>6
    <3> HIDE DEF terms
    <3>2. Model!SumOf(terms) = terms[1] + terms[2] + terms[3] + terms[4] + terms[5] + terms[6] + terms[7] + terms[8]
      BY <1>9, <3>1
    <3>3. QED
      BY <1>8, <3>2 DEF terms
  <2>3. QED
    BY <1>10, <2>1, <2>2
<1>12. QED
  BY <1>11, ScoreIsSums DEF c, p, m, d

\* The score of a bare input, in points.
BareImportance(p, m, d, percent) ==
  Model!Clamp(Model!ToScore100(<<p * 30 + d * 15 + (IF m # None THEN m * 25 ELSE 0), 45 + (IF m # None THEN 25 ELSE 0)>>,
                               percent), 1, 100)

LEMMA BareImportanceIs ==
  ASSUME None \notin Int, NEW i, Bare(i)
  PROVE  Model!ComputeImportance(i) = BareImportance(Model!Prior[i.category], i.model, i.credibility, i.decay)
BY BareScore DEF Model!ComputeImportance, BareImportance

\* scoring.ts:71 "No single input dominates": a certain model and a perfect
\* source make no SOCIAL item critical, and no trivial one important.
THEOREM NothingDominates ==
  ASSUME None \notin Int
  PROVE  Model!NoInputDominates
<1> DEFINE alone(category, model) ==
             [category |-> category, model |-> model, hint |-> None, magnitude |-> None, authority |-> None,
              engagement |-> None, doublings |-> None, credibility |-> 100, decay |-> 100]
<1>1. Model!Prior["SOCIAL"] = 30 /\ Model!Prior["OTHER"] = 25 /\ {"SOCIAL", "OTHER"} \subseteq DOMAIN Model!Prior
  BY DEF Model!Prior, Model!NamedPrior
<1>2. ASSUME NEW category \in {"SOCIAL", "OTHER"}, NEW model \in Levels \union {None}
      PROVE  Model!ComputeImportance(alone(category, model))
               = BareImportance(Model!Prior[category], model, 100, 100)
  <2> DEFINE i == alone(category, model)
  <2>1. Bare(i)
    BY <1>1 DEF Bare, Model!OptionalInputs, Levels
  <2>2. i.category = category /\ i.model = model /\ i.credibility = 100 /\ i.decay = 100
    OBVIOUS
  <2> HIDE DEF i
  <2>3. QED
    BY <2>1, <2>2, BareImportanceIs DEF i
<1>3. Model!ImportanceToImpact(Model!ComputeImportance(alone("SOCIAL", 100))) # "CRITICAL"
  <2>1. BareImportance(30, 100, 100, 100) = 70
    <3>1. 100 # None
      OBVIOUS
    <3>2. (2 * (4900 * 100) + 70 * 100) \div (2 * (70 * 100)) = 70
      OBVIOUS
    <3>3. 30 * 30 + 100 * 15 + 100 * 25 = 4900 /\ 45 + 25 = 70
      OBVIOUS
    <3>4. Model!ToScore100(<<4900, 70>>, 100) = 70
      BY <3>2 DEF Model!ToScore100, Model!Clamp
    <3>5. QED
      BY <3>1, <3>3, <3>4 DEF BareImportance, Model!Clamp
  <2>2. Model!ComputeImportance(alone("SOCIAL", 100)) = 70
    <3>1. 100 \in Levels \union {None}
      BY DEF Levels
    <3> HIDE DEF alone
    <3>2. QED
      BY <1>1, <1>2, <2>1, <3>1
  <2>3. QED
    BY <2>2 DEF Model!ImportanceToImpact, Model!ImpactFloor
<1>4. ASSUME NEW value \in {None} \union 0..20
      PROVE  Model!ImportanceToImpact(Model!ComputeImportance(alone("OTHER", value))) \in {"LOW", "MEDIUM"}
  <2>1. BareImportance(25, value, 100, 100) \in 1..50
    <3>1. CASE value = None
      <4>1. 25 * 30 + 100 * 15 + 0 = 2250 /\ 45 + 0 = 45
        OBVIOUS
      <4>2. (2 * (2250 * 100) + 45 * 100) \div (2 * (45 * 100)) = 50
        OBVIOUS
      <4>3. Model!ToScore100(<<2250, 45>>, 100) = 50
        BY <4>2 DEF Model!ToScore100, Model!Clamp
      <4>4. QED
        BY <3>1, <4>1, <4>3 DEF BareImportance, Model!Clamp
    <3>2. CASE value # None
      <4> DEFINE s == 25 * 30 + 100 * 15 + value * 25
      <4>1. value \in 0..20 /\ s \in 2250..2750 /\ 45 + 25 = 70
        BY <3>2
      <4> HIDE DEF s
      <4>2. (2 * (s * 100) + 70 * 100) \div (2 * (70 * 100)) \in 1..50
        BY <4>1
      <4>3. Model!ToScore100(<<s, 70>>, 100) \in 1..50
        BY <4>2 DEF Model!ToScore100, Model!Clamp
      <4>4. BareImportance(25, value, 100, 100) = Model!Clamp(Model!ToScore100(<<s, 70>>, 100), 1, 100)
        BY <3>2, <4>1 DEF BareImportance, s
      <4>5. QED
        BY <4>3, <4>4 DEF Model!Clamp
    <3>3. QED
      BY <3>1, <3>2
  <2>2. Model!ComputeImportance(alone("OTHER", value)) = BareImportance(25, value, 100, 100)
    <3>1. value \in Levels \union {None}
      BY DEF Levels
    <3> HIDE DEF alone
    <3>2. QED
      BY <1>1, <1>2, <3>1
  <2> HIDE DEF alone
  <2>3. QED
    BY <2>1, <2>2 DEF Model!ImportanceToImpact, Model!ImpactFloor
<1>5. QED
  BY <1>3, <1>4 DEF Model!NoInputDominates

\* What a model wrote, and what it was asked about.
Answered(raw) ==
  /\ raw.importance \in Int \union {None, Missing, Unknown}
  /\ raw.confidence \in Int \union {None, Missing, Unknown}
AskedAbout(about) ==
  /\ {"category", "credibility", "decay", "tokens"} \subseteq DOMAIN about
  /\ about.category \in DOMAIN Model!Prior /\ about.credibility \in Levels /\ about.decay \in Levels
  /\ about.tokens \in Texts

LEMMA CoercedIsPoints ==
  ASSUME NEW field \in Int \union {None, Missing, Unknown}
  PROVE  Model!CoercedNumber(field) \in 1..100
<1>1. ASSUME NEW x \in Int PROVE Model!Clamp(x, 1, 100) \in 1..100
  BY <1>1 DEF Model!Clamp
<1> DEFINE number == CASE field \in {Missing, Unknown} -> 50 [] field = None -> 0 [] OTHER -> field
<1>2. number \in Int
  OBVIOUS
<1> HIDE DEF number
<1>3. Model!Clamp(number, 1, 100) \in 1..100
  BY <1>1, <1>2
<1>4. QED
  BY <1>3 DEF Model!CoercedNumber, number

\* Two rounded scores of which one counts the model.
LEMMA ModelsShare ==
  ASSUME None \notin Int, NEW p \in 1..100, NEW d \in Levels, NEW m \in 1..100, NEW percent \in Levels
  PROVE  LET read == BareImportance(p, m, d, percent)
             unread == BareImportance(p, None, d, percent)
         IN  read \in 1..100 /\ unread \in 1..100 /\ read - unread <= 36 /\ unread - read <= 36
<1> DEFINE a == p * 30 + d * 15
           b == a + m * 25
           q == a * percent
           r == m * percent
           x == (2 * (q + 25 * r) + 7000) \div 14000
           y == (2 * q + 4500) \div 9000
<1>1. a \in 0..4500 /\ m \in Nat /\ m <= 100 /\ percent \in 0..100
  BY DEF Levels
<1>2. ASSUME NEW u \in Nat, NEW v \in Nat, NEW k \in Nat, u <= v PROVE u * k <= v * k /\ u * k \in Nat /\ v * k \in Nat
  BY <1>2
<1>3. q \in Nat /\ r \in Nat /\ q <= 4500 * percent /\ r <= 100 * percent
  <2> HIDE DEF a
  <2>1. a \in Nat /\ 4500 \in Nat /\ a <= 4500 /\ 100 \in Nat /\ percent \in Nat
    BY <1>1
  <2>2. QED
    BY <1>1, <1>2, <2>1
<1>4. b * percent = q + 25 * r
  <2> HIDE DEF a
  <2>1. ASSUME NEW u \in Int, NEW v \in Int, NEW k \in Int PROVE (u + v * 25) * k = u * k + 25 * (v * k)
    BY <2>1
  <2>2. a \in Int /\ m \in Int /\ percent \in Int
    BY <1>1
  <2>3. QED
    BY <2>1, <2>2
<1>5. BareImportance(p, m, d, percent) = Model!Clamp(Model!Clamp(x, 0, 100), 1, 100)
  <2>1. m # None
    OBVIOUS
  <2>2. BareImportance(p, m, d, percent) = Model!Clamp(Model!ToScore100(<<b, 45 + 25>>, percent), 1, 100)
    BY <2>1 DEF BareImportance
  <2> HIDE DEF a, b, q, r
  <2>3. Model!ToScore100(<<b, 45 + 25>>, percent)
          = Model!Clamp((2 * (b * percent) + (45 + 25) * 100) \div (2 * ((45 + 25) * 100)), 0, 100)
    BY DEF Model!ToScore100
  <2>4. (45 + 25) * 100 = 7000 /\ 2 * ((45 + 25) * 100) = 14000
    OBVIOUS
  <2>5. QED
    BY <1>4, <2>2, <2>3, <2>4
<1>6. BareImportance(p, None, d, percent) = Model!Clamp(Model!Clamp(y, 0, 100), 1, 100)
  <2>1. a + 0 = a /\ 45 + 0 = 45
    BY <1>1
  <2>2. BareImportance(p, None, d, percent) = Model!Clamp(Model!ToScore100(<<a, 45>>, percent), 1, 100)
    BY <2>1 DEF BareImportance
  <2> HIDE DEF a
  <2>3. Model!ToScore100(<<a, 45>>, percent) = Model!Clamp((2 * (a * percent) + 45 * 100) \div (2 * (45 * 100)), 0, 100)
    BY DEF Model!ToScore100
  <2>4. 45 * 100 = 4500 /\ 2 * (45 * 100) = 9000
    OBVIOUS
  <2>5. QED
    BY <2>2, <2>3, <2>4
<1> HIDE DEF a, b, q, r
<1>7. x \in Int /\ y \in Int /\ x - y <= 36 /\ y - x <= 36 /\ q <= 450000 /\ r <= 10000
  BY <1>1, <1>3
<1> HIDE DEF x, y
<1>8. ASSUME NEW u \in Int, NEW v \in Int, u - v <= 36
      PROVE  /\ Model!Clamp(Model!Clamp(u, 0, 100), 1, 100) \in 1..100
             /\ Model!Clamp(Model!Clamp(v, 0, 100), 1, 100) \in 1..100
             /\ Model!Clamp(Model!Clamp(u, 0, 100), 1, 100) - Model!Clamp(Model!Clamp(v, 0, 100), 1, 100) <= 36
  BY <1>8 DEF Model!Clamp
<1>9. QED
  BY <1>5, <1>6, <1>7, <1>8

\* enricher.ts, #reconcile "The platform refuses simply to believe the model":
\* ModelIsOneVoice of whatever it wrote about whatever event.
THEOREM ModelAlwaysOneVoice ==
  ASSUME None \notin Int, NEW raw, Answered(raw), NEW about, AskedAbout(about)
  PROVE  Model!ModelIsOneVoice(raw, about)
<1> DEFINE category == Model!CoercedCategory(raw.category, about.category)
           other == [about EXCEPT !.category = category]
           verdict == Model!Enrich(raw, about)
           unread == Model!EnrichByLexicon(other)
           bare(model, from) ==
             [category |-> category, model |-> model, hint |-> None, magnitude |-> None, authority |-> None,
              engagement |-> None, doublings |-> None, credibility |-> from.credibility, decay |-> from.decay]
<1>1. category \in DOMAIN Model!Prior
  BY DEF Model!CoercedCategory, AskedAbout
<1>2. /\ other.category = category /\ other.credibility = about.credibility /\ other.decay = about.decay
      /\ other.tokens = about.tokens
  BY DEF AskedAbout
<1>3. ASSUME verdict # None PROVE raw.summary # None
  BY <1>3 DEF Model!Enrich
<1> DEFINE m == Model!ModelImportance(raw.importance)
           confidence == Model!CoercedNumber(raw.confidence)
<1>4. m \in 1..100 /\ confidence \in 1..100
  BY CoercedIsPoints DEF Answered, Model!ModelImportance
<1>5. ASSUME NEW model \in Levels \union {None}, NEW from \in {about, other}
      PROVE  Model!ImportanceOf(category, model, from)
               = BareImportance(Model!Prior[category], model, about.credibility, about.decay)
  <2> DEFINE i == bare(model, from)
  <2> HIDE DEF category, other
  <2>1. from.credibility = about.credibility /\ from.decay = about.decay
    BY <1>2
  <2>2. Bare(i)
    BY <1>1, <2>1 DEF Bare, Model!OptionalInputs, AskedAbout
  <2>3. i.category = category /\ i.model = model /\ i.credibility = about.credibility /\ i.decay = about.decay
    BY <2>1
  <2>4. Model!ImportanceOf(category, model, from) = Model!ComputeImportance(i)
    BY DEF Model!ImportanceOf
  <2> HIDE DEF i
  <2>5. QED
    BY <2>2, <2>3, <2>4, BareImportanceIs
<1>6. ASSUME verdict # None PROVE Model!Magnitude(verdict.importance - unread.importance) <= 36
  <2>1. verdict.importance = Model!ImportanceOf(category, m, about)
    BY <1>3, <1>6 DEF Model!Enrich
  <2>2. unread.importance = Model!ImportanceOf(category, None, other)
    BY <1>2 DEF Model!EnrichByLexicon
  <2>3. m \in Levels \union {None}
    BY <1>4 DEF Levels
  <2> HIDE DEF verdict, unread, m, category, other
  <2> DEFINE read == BareImportance(Model!Prior[category], m, about.credibility, about.decay)
             without == BareImportance(Model!Prior[category], None, about.credibility, about.decay)
  <2>4. verdict.importance = read /\ unread.importance = without
    BY <1>5, <2>1, <2>2, <2>3
  <2>5. Model!Prior[category] \in 1..100 /\ about.credibility \in Levels /\ about.decay \in Levels
    BY <1>1, PriorsAreLevels DEF AskedAbout
  <2>6. read \in 1..100 /\ without \in 1..100 /\ read - without <= 36 /\ without - read <= 36
    BY <1>4, <2>5, ModelsShare
  <2> HIDE DEF read, without
  <2>7. QED
    BY <2>4, <2>6 DEF Model!Magnitude
<1>7. ASSUME verdict # None, Model!OnlyBadNews(about.tokens)
      PROVE  verdict.sentiment \notin {"BULLISH", "VERY_BULLISH"}
  <2> DEFINE lexicon == Model!ClassifyWithLexicon(about.tokens)
             anchor == Model!Anchor[Model!CoercedSentiment(raw.sentiment)]
  <2>1. verdict.sentiment = Model!ScoreToSentiment(Model!ReconcileSentiment(anchor, confidence, lexicon).score)
    BY <1>3, <1>7 DEF Model!Enrich
  <2>2. anchor \in -100..100
    <3>1. Model!CoercedSentiment(raw.sentiment) \in DOMAIN Model!Anchor
      BY DEF Model!CoercedSentiment, Model!Anchor
    <3>2. \A label \in DOMAIN Model!Anchor : Model!Anchor[label] \in -100..100
      BY DEF Model!Anchor
    <3>3. QED
      BY <3>1, <3>2
  <2>3. lexicon \in Lexicons /\ lexicon.score <= -80 /\ lexicon.confidence >= 80
    BY <1>7, LexiconKeepsItsScales, BadNewsReadsBad DEF AskedAbout
  <2> HIDE DEF lexicon, anchor, verdict, confidence
  <2>4. verdict.sentiment \in {"NEUTRAL", "BEARISH", "VERY_BEARISH"}
    BY <1>4, <2>1, <2>2, <2>3, StrongBearishStands
  <2>5. QED
    BY <2>4
<1>8. QED
  BY <1>6, <1>7 DEF Model!ModelIsOneVoice

------------------------------------------------------------------------------
\* The coins of a text (CoinMatcher).

Word == [form : {"cashtag", "name", "alias", "symbol"}, coins : SUBSET Matchable, place : [Matchable -> Nat]]

\* The rung on which a text names a coin.
Rung(t, c) == Coins!Min(Coins!Evidence(t, c))

\* A coin that is named on a rung is named foremost somewhere.
LEMMA SomeForemost ==
  ASSUME NEW t \in Seq(Word), NEW form, NEW c, Coins!Positions(t, form, c) # {}
  PROVE  /\ Coins!Foremost(t, form, c) # {} /\ Coins!Foremost(t, form, c) \subseteq Coins!Positions(t, form, c)
         /\ Coins!Foremost(t, form, c) \in SUBSET Nat /\ Coins!Foremost(t, form, c) \subseteq 1..Len(t)
         /\ \A i \in Coins!Positions(t, form, c) : t[i].place[c] \in Nat
<1> DEFINE P == Coins!Positions(t, form, c)
           F == Coins!Foremost(t, form, c)
           places == {t[i].place[c] : i \in P}
<1>1. P \subseteq 1..Len(t) /\ F \subseteq P /\ \A i \in P : c \in t[i].coins
  BY DEF Coins!Positions, Coins!Foremost
<1>2. \A i \in 1..Len(t) : t[i] \in Word
  OBVIOUS
<1>3. \A i \in P : t[i].place[c] \in Nat
  BY <1>1, <1>2 DEF Word
<1>4. F # {}
  <2>1. CASE form = "alias"
    <3> HIDE DEF P
    <3>1. places \in SUBSET Nat /\ places # {}
      BY <1>3 DEF P
    <3>2. PICK x \in places : \A y \in places : x <= y
      BY <3>1, LeastOf
    <3>3. PICK i \in P : x = t[i].place[c]
      BY <3>2
    <3>4. \A j \in P : t[i].place[c] <= t[j].place[c]
      BY <3>2, <3>3
    <3>5. QED
      BY <3>3, <3>4 DEF Coins!Foremost, P
  <2>2. CASE form # "alias"
    BY <2>2 DEF Coins!Foremost
  <2>3. QED
    BY <2>1, <2>2
<1>5. F \subseteq 1..Len(t) /\ 1..Len(t) \subseteq Nat
  BY <1>1
<1>6. QED
  BY <1>1, <1>3, <1>4, <1>5

\* What a rung and an index are.
LEMMA RungsAre ==
  ASSUME NEW t \in Seq(Word), NEW c, Coins!Evidence(t, c) # {}
  PROVE  LET k == Rung(t, c)
         IN  /\ k \in 1..4 /\ k \in Coins!Evidence(t, c) /\ \A j \in Coins!Evidence(t, c) : k <= j
             /\ Coins!MatchOf(t, c).index \in Coins!Positions(t, Coins!Rungs[k], c)
             /\ Coins!MatchOf(t, c).index \in Coins!Foremost(t, Coins!Rungs[k], c)
             /\ \A i \in Coins!Foremost(t, Coins!Rungs[k], c) : Coins!MatchOf(t, c).index <= i
             /\ Coins!MatchOf(t, c).index \in 1..Len(t)
             /\ Coins!MatchOf(t, c).coin = c /\ Coins!MatchOf(t, c).confidence = Coins!Confidence[Coins!Rungs[k]]
<1> DEFINE E == Coins!Evidence(t, c)
           k == Rung(t, c)
           F == Coins!Foremost(t, Coins!Rungs[k], c)
<1>1. E \in SUBSET Nat /\ E \subseteq 1..4
  BY DEF Coins!Evidence
<1>2. k \in E /\ \A j \in E : k <= j
  <2>1. \E j \in E : \A l \in E : j <= l
    BY <1>1, LeastOf
  <2>2. QED
    BY <2>1 DEF Coins!Min, Rung
<1>3. F # {} /\ F \in SUBSET Nat /\ F \subseteq 1..Len(t) /\ F \subseteq Coins!Positions(t, Coins!Rungs[k], c)
  <2>1. Coins!Positions(t, Coins!Rungs[k], c) # {}
    BY <1>2 DEF Coins!Evidence
  <2> HIDE DEF k
  <2>2. QED
    BY <2>1, SomeForemost
<1>4. Coins!Min(F) \in F /\ \A i \in F : Coins!Min(F) <= i
  <2> HIDE DEF F
  <2>1. \E j \in F : \A l \in F : j <= l
    BY <1>3, LeastOf
  <2>2. QED
    BY <2>1 DEF Coins!Min
<1>5. /\ Coins!MatchOf(t, c).index = Coins!Min(F) /\ Coins!MatchOf(t, c).coin = c
      /\ Coins!MatchOf(t, c).confidence = Coins!Confidence[Coins!Rungs[k]]
  BY DEF Coins!MatchOf, Coins!Via, Rung, Coins!FirstOf
<1>6. QED
  BY <1>1, <1>2, <1>3, <1>4, <1>5

LEMMA ConfidencesFall ==
  \A j, k \in 1..4 : /\ Coins!Confidence[Coins!Rungs[k]] \in 65..100
                     /\ j < k => Coins!Confidence[Coins!Rungs[k]] < Coins!Confidence[Coins!Rungs[j]]
BY DEF Coins!Confidence, Coins!Rungs

\* The matches above the bar: they are finitely many and one is the first.
LEMMA MatchesAbove ==
  ASSUME IsFiniteSet(Matchable), Matchable \subseteq Nat, NEW t \in Seq(Word), NEW least \in Int
  PROVE  /\ IsFiniteSet(Coins!Matches(t, least))
         /\ \A m \in Coins!Matches(t, least) :
              /\ m.coin \in Matchable /\ m = Coins!MatchOf(t, m.coin) /\ Coins!Evidence(t, m.coin) # {}
              /\ m.confidence \in 65..100 /\ m.index \in 1..Len(t) /\ m.confidence >= least
         /\ \A c \in Matchable : Coins!Evidence(t, c) # {} /\ Coins!MatchOf(t, c).confidence >= least =>
              Coins!MatchOf(t, c) \in Coins!Matches(t, least)
<1> DEFINE named == {d \in Matchable : Coins!Evidence(t, d) # {}}
           all == {Coins!MatchOf(t, c) : c \in named}
<1>1. IsFiniteSet(all)
  <2>1. IsFiniteSet(named)
    BY FS_Subset
  <2> DEFINE f == [c \in named |-> Coins!MatchOf(t, c)]
  <2>2. f \in Surjection(named, all)
    BY DEF Surjection
  <2> HIDE DEF named, all
  <2>3. QED
    BY <2>1, <2>2, FS_Surjection
<1>2. Coins!Matches(t, least) \subseteq all
  BY DEF Coins!Matches
<1>3. IsFiniteSet(Coins!Matches(t, least))
  BY <1>1, <1>2, FS_Subset
<1>4. ASSUME NEW m \in Coins!Matches(t, least)
      PROVE  /\ m.coin \in Matchable /\ m = Coins!MatchOf(t, m.coin) /\ Coins!Evidence(t, m.coin) # {}
             /\ m.confidence \in 65..100 /\ m.index \in 1..Len(t) /\ m.confidence >= least
  <2>1. PICK c \in Matchable : Coins!Evidence(t, c) # {} /\ m = Coins!MatchOf(t, c)
    BY DEF Coins!Matches
  <2>2. /\ Rung(t, c) \in 1..4 /\ m.index \in 1..Len(t) /\ m.coin = c
        /\ m.confidence = Coins!Confidence[Coins!Rungs[Rung(t, c)]]
    BY <2>1, RungsAre
  <2>3. m.confidence \in 65..100
    BY <2>2, ConfidencesFall
  <2>4. m.confidence >= least
    BY DEF Coins!Matches
  <2>5. QED
    BY <2>1, <2>2, <2>3, <2>4
<1>5. \A c \in Matchable : Coins!Evidence(t, c) # {} /\ Coins!MatchOf(t, c).confidence >= least =>
        Coins!MatchOf(t, c) \in Coins!Matches(t, least)
  BY DEF Coins!Matches
<1>6. QED
  BY <1>3, <1>4, <1>5

LEMMA SomeMatchIsFirst ==
  ASSUME IsFiniteSet(Matchable), Matchable \subseteq Nat, NEW t \in Seq(Word), NEW least \in Int, Coins!Matches(t, least) # {}
  PROVE  \E m \in Coins!Matches(t, least) : Coins!Ahead(Coins!Matches(t, least), m) = {}
<1> DEFINE A == Coins!Matches(t, least)
           doubts == {100 - m.confidence : m \in A}
<1>1. \A m \in A : /\ m.confidence \in Int /\ m.confidence <= 100 /\ 100 - m.confidence \in Nat
                   /\ m.index \in Nat /\ m.coin \in Nat
  <2>1. \A m \in A : m.confidence \in 65..100 /\ m.index \in 1..Len(t) /\ m.coin \in Matchable
    BY MatchesAbove
  <2>2. Matchable \subseteq Nat /\ 1..Len(t) \subseteq Nat /\ \A x \in 65..100 : x \in Int /\ x <= 100 /\ 100 - x \in Nat
    OBVIOUS
  <2> HIDE DEF A
  <2>3. QED
    BY <2>1, <2>2
<1> HIDE DEF A
<1>2. A # {}
  BY DEF A
<1>3. PICK a \in A : \A m \in A : m.confidence <= a.confidence
  <2>1. doubts \in SUBSET Nat /\ doubts # {}
    BY <1>1, <1>2
  <2>2. PICK x \in doubts : \A y \in doubts : x <= y
    BY <2>1, LeastOf
  <2>3. PICK a \in A : x = 100 - a.confidence
    BY <2>2
  <2>4. \A m \in A : 100 - a.confidence <= 100 - m.confidence
    BY <2>2, <2>3
  <2>5. \A m \in A : m.confidence <= a.confidence
    BY <1>1, <2>4
  <2>6. QED
    BY <2>5
<1> DEFINE B == {m \in A : m.confidence = a.confidence}
           places == {m.index : m \in B}
<1>4. PICK b \in B : \A m \in B : b.index <= m.index
  <2>1. places \in SUBSET Nat /\ places # {}
    BY <1>1, <1>3
  <2>2. PICK x \in places : \A y \in places : x <= y
    BY <2>1, LeastOf
  <2>3. QED
    BY <2>2
<1> DEFINE C == {m \in B : m.index = b.index}
           names == {m.coin : m \in C}
<1>5. PICK c \in C : \A m \in C : c.coin <= m.coin
  <2>1. names \in SUBSET Nat /\ names # {}
    BY <1>1, <1>4
  <2>2. PICK x \in names : \A y \in names : x <= y
    BY <2>1, LeastOf
  <2>3. QED
    BY <2>2
<1>6. \A m \in A : ~Coins!Before(m, c)
  <2>1. ASSUME NEW m \in A, Coins!Before(m, c) PROVE FALSE
    <3>1. c \in A /\ c.confidence = a.confidence /\ c.index = b.index
      BY <1>5
    <3>2. m.confidence <= c.confidence
      BY <1>3, <3>1
    <3>3. m.confidence = c.confidence => c.index <= m.index
      BY <1>4, <3>1
    <3>4. m.confidence = c.confidence /\ m.index = c.index => c.coin <= m.coin
      BY <1>5, <3>1
    <3>5. m.confidence \in Int /\ c.confidence \in Int /\ m.index \in Nat /\ c.index \in Nat /\ m.coin \in Nat /\ c.coin \in Nat
      BY <1>1, <3>1
    <3>6. QED
      BY <2>1, <3>2, <3>3, <3>4, <3>5 DEF Coins!Before
  <2>2. QED
    BY <2>1
<1>7. QED
  BY <1>5, <1>6 DEF Coins!Ahead, A

LEMMA FirstMatch ==
  ASSUME IsFiniteSet(Matchable), Matchable \subseteq Nat, MaxMatches \in Nat \ {0}, NEW t \in Seq(Word), NEW least \in Int
  PROVE  LET A == Coins!Matches(t, least)
             r == Coins!MatchCoins(t, least)
         IN  /\ A = {} => r = <<>>
             /\ A # {} => r # <<>> /\ r[1] \in A /\ Coins!Ahead(A, r[1]) = {}
<1> DEFINE A == Coins!Matches(t, least)
           r == Coins!MatchCoins(t, least)
           found == Cardinality(A)
           n == IF MaxMatches < found THEN MaxMatches ELSE found
           nth(k) == CHOOSE m \in A : Cardinality(Coins!Ahead(A, m)) = k - 1
<1>1. r = [k \in 1..n |-> nth(k)]
  BY CountsAgree DEF Coins!MatchCoins
<1>2. IsFiniteSet(A) /\ found \in Nat /\ (found = 0 <=> A = {})
  BY MatchesAbove, FS_CardinalityType, FS_EmptySet
<1>3. \A m \in A : Coins!Ahead(A, m) \subseteq A
  BY DEF Coins!Ahead
<1>4. ASSUME NEW m \in A PROVE Cardinality(Coins!Ahead(A, m)) = 0 <=> Coins!Ahead(A, m) = {}
  <2>1. IsFiniteSet(Coins!Ahead(A, m))
    BY <1>2, <1>3, FS_Subset
  <2>2. QED
    BY <2>1, FS_EmptySet
<1>5. CASE A = {}
  <2>1. n = 0
    BY <1>2, <1>5
  <2> HIDE DEF n, nth
  <2>2. r = <<>>
    BY <1>1, <2>1
  <2>3. QED
    BY <1>5, <2>2
<1>6. CASE A # {}
  <2>1. n \in Nat /\ 1 \in 1..n
    BY <1>2, <1>6
  <2>2. \E m \in A : Coins!Ahead(A, m) = {}
    BY <1>6, SomeMatchIsFirst
  <2>3. \E m \in A : Cardinality(Coins!Ahead(A, m)) = 1 - 1
    BY <1>4, <2>2
  <2>4. nth(1) \in A /\ Cardinality(Coins!Ahead(A, nth(1))) = 0
    <3> HIDE DEF A
    <3>1. nth(1) \in A /\ Cardinality(Coins!Ahead(A, nth(1))) = 1 - 1
      BY <2>3
    <3>2. QED
      BY <3>1
  <2> HIDE DEF n, nth, A, r
  <2>5. r[1] = nth(1) /\ DOMAIN r = 1..n
    BY <1>1, <2>1
  <2>6. r # <<>>
    BY <2>1, <2>5
  <2>7. r[1] \in A /\ Coins!Ahead(A, r[1]) = {}
    BY <1>4, <2>4, <2>5
  <2>8. QED
    BY <1>6, <2>6, <2>7 DEF A, r
<1>7. QED
  BY <1>5, <1>6

\* What a text says of a coin is said of it by every text it begins, but where
\* an alias listed earlier takes the place of the one that counted.
LEMMA BeginningsSay ==
  ASSUME NEW t \in Seq(Word), NEW n \in 0..Len(t), NEW c
  PROVE  LET b == SubSeq(t, 1, n)
         IN  /\ b \in Seq(Word) /\ Len(b) = n
             /\ \A form : /\ Coins!Positions(b, form, c) \subseteq Coins!Positions(t, form, c)
                          /\ \A i \in Coins!Positions(t, form, c) : i <= n => i \in Coins!Positions(b, form, c)
             /\ Coins!Evidence(b, c) \subseteq Coins!Evidence(t, c)
             /\ Coins!Evidence(b, c) # {} =>
                  \/ Rung(t, c) < Rung(b, c)
                  \/ Coins!MatchOf(t, c) = Coins!MatchOf(b, c)
                  \/ Rung(t, c) = Rung(b, c) /\ Rung(b, c) = 3 /\ Coins!Overtaken(t, n, c)
             /\ Coins!Evidence(t, c) # {} /\ Coins!MatchOf(t, c).index <= n =>
                  Coins!Evidence(b, c) # {} /\ Coins!MatchOf(b, c) = Coins!MatchOf(t, c)
<1> DEFINE b == SubSeq(t, 1, n)
<1>1. b \in Seq(Word) /\ Len(b) = n /\ Len(t) \in Nat /\ n \in Nat /\ n <= Len(t) /\ \A i \in 1..n : b[i] = t[i]
  OBVIOUS
<1> HIDE DEF b
<1>2. ASSUME NEW form
      PROVE  /\ Coins!Positions(b, form, c) \subseteq Coins!Positions(t, form, c)
             /\ \A i \in Coins!Positions(t, form, c) : i <= n => i \in Coins!Positions(b, form, c)
  BY <1>1 DEF Coins!Positions
<1>3. Coins!Evidence(b, c) \subseteq Coins!Evidence(t, c)
  <2>1. ASSUME NEW k \in Coins!Evidence(b, c) PROVE k \in Coins!Evidence(t, c)
    <3>1. k \in 1..4 /\ Coins!Tried(Coins!Rungs[k], c) /\ Coins!Positions(b, Coins!Rungs[k], c) # {}
      BY DEF Coins!Evidence
    <3>2. Coins!Positions(t, Coins!Rungs[k], c) # {}
      BY <1>2, <3>1
    <3>3. QED
      BY <3>1, <3>2 DEF Coins!Evidence
  <2>2. QED
    BY <2>1
\* On one rung, the foremost positions up to n are the same.
<1>4. ASSUME Coins!Evidence(b, c) # {}, Rung(t, c) = Rung(b, c), Rung(b, c) = 3 => ~Coins!Overtaken(t, n, c)
      PROVE  Coins!MatchOf(t, c) = Coins!MatchOf(b, c)
  <2> DEFINE k == Rung(b, c)
             form == Coins!Rungs[k]
             x == Coins!MatchOf(b, c).index
             y == Coins!MatchOf(t, c).index
             place(i) == t[i].place[c]
             P == Coins!Positions(t, form, c)
             B == Coins!Positions(b, form, c)
  <2>1. Coins!Evidence(t, c) # {}
    BY <1>3, <1>4
  <2>2. /\ x \in Coins!Foremost(b, form, c) /\ (\A i \in Coins!Foremost(b, form, c) : x <= i) /\ x \in 1..Len(b)
        /\ x \in B /\ k \in 1..4
    BY <1>1, <1>4, RungsAre
  <2>3. /\ y \in Coins!Foremost(t, form, c) /\ (\A i \in Coins!Foremost(t, form, c) : y <= i) /\ y \in 1..Len(t)
        /\ y \in P
    BY <1>1, <1>4, <2>1, RungsAre
  <2>4. form = "alias" => k = 3 /\ ~Coins!Overtaken(t, n, c)
    BY <1>4, <2>2 DEF Coins!Rungs
  <2> HIDE DEF x, y, k
  <2>5. /\ x \in Nat /\ y \in Nat /\ x <= n
        /\ B \subseteq P /\ (\A i \in P : i <= n => i \in B) /\ \A i \in B : i \in 1..n /\ b[i] = t[i]
    <3>1. \A i \in B : i \in 1..Len(b)
      BY DEF Coins!Positions
    <3>2. QED
      BY <1>1, <1>2, <2>2, <2>3, <3>1
  <2>6. \A i \in P : place(i) \in Nat
    BY <2>3, SomeForemost
  <2> HIDE DEF form
  <2>7. form = "alias" => \A i \in P : \E j \in B : ~(place(i) < place(j))
    <3>1. ASSUME form = "alias", NEW i \in P PROVE \E j \in B : ~(place(i) < place(j))
      <4>1. \E j \in P : j <= n /\ ~(place(i) < place(j))
        BY <2>4, <3>1 DEF Coins!Overtaken
      <4>2. QED
        BY <2>5, <4>1
    <3>2. QED
      BY <3>1
  <2>8. form = "alias" => \A j \in B : place(x) <= place(j)
    BY <2>2, <2>5 DEF Coins!Foremost
  <2>9. form = "alias" => \A j \in P : place(y) <= place(j)
    BY <2>3 DEF Coins!Foremost
  <2>10. form = "alias" => \A i \in P : place(x) <= place(i)
    <3>1. ASSUME form = "alias", NEW i \in P PROVE place(x) <= place(i)
      <4>1. PICK j \in B : ~(place(i) < place(j))
        BY <2>7, <3>1
      <4>2. place(x) <= place(j) /\ place(i) \in Nat /\ place(j) \in Nat /\ place(x) \in Nat
        BY <2>2, <2>5, <2>6, <2>8, <3>1
      <4> HIDE DEF place
      <4>3. QED
        BY <4>1, <4>2
    <3>2. QED
      BY <3>1
  <2>11. y <= x
    <3>1. x \in Coins!Foremost(t, form, c)
      BY <2>2, <2>5, <2>10 DEF Coins!Foremost
    <3>2. QED
      BY <2>3, <3>1
  <2>12. x <= y
    <3>1. y \in B
      BY <2>3, <2>5, <2>11
    <3>2. y \in Coins!Foremost(b, form, c)
      <4>1. form = "alias" => \A j \in B : b[y].place[c] <= b[j].place[c]
        BY <2>5, <2>9, <3>1
      <4>2. QED
        BY <3>1, <4>1 DEF Coins!Foremost
    <3>3. QED
      BY <2>2, <3>2
  <2>13. x = y
    BY <2>5, <2>11, <2>12
  <2>14. Coins!Via(t, c) = Coins!Via(b, c)
    BY <1>4 DEF Coins!Via, Rung
  <2>15. Coins!FirstOf(t, Coins!Via(t, c), c) = Coins!FirstOf(b, Coins!Via(b, c), c)
    BY <2>13 DEF x, y, Coins!MatchOf
  <2>16. QED
    BY <2>14, <2>15 DEF Coins!MatchOf
<1>5. ASSUME Coins!Evidence(b, c) # {}
      PROVE  \/ Rung(t, c) < Rung(b, c)
             \/ Coins!MatchOf(t, c) = Coins!MatchOf(b, c)
             \/ Rung(t, c) = Rung(b, c) /\ Rung(b, c) = 3 /\ Coins!Overtaken(t, n, c)
  <2>1. Coins!Evidence(t, c) # {} /\ Rung(b, c) \in Coins!Evidence(t, c)
    BY <1>1, <1>3, <1>5, RungsAre
  <2>2. Rung(t, c) <= Rung(b, c) /\ Rung(t, c) \in 1..4 /\ Rung(b, c) \in 1..4
    BY <1>1, <1>5, <2>1, RungsAre
  <2>3. CASE Rung(t, c) = Rung(b, c)
    BY <1>4, <1>5, <2>3
  <2>4. QED
    BY <2>2, <2>3
<1>6. ASSUME Coins!Evidence(t, c) # {}, Coins!MatchOf(t, c).index <= n
      PROVE  Coins!Evidence(b, c) # {} /\ Coins!MatchOf(b, c) = Coins!MatchOf(t, c)
  <2> DEFINE k == Rung(t, c)
  <2>1. /\ k \in 1..4 /\ k \in Coins!Evidence(t, c) /\ \A j \in Coins!Evidence(t, c) : k <= j
        /\ Coins!MatchOf(t, c).index \in Coins!Positions(t, Coins!Rungs[k], c)
        /\ Coins!MatchOf(t, c).index \in Coins!Foremost(t, Coins!Rungs[k], c)
    BY <1>6, RungsAre
  <2> HIDE DEF k
  <2>2. Coins!Positions(b, Coins!Rungs[k], c) # {}
    BY <1>2, <1>6, <2>1
  <2>3. k \in Coins!Evidence(b, c)
    BY <2>1, <2>2 DEF Coins!Evidence
  <2>4. Rung(b, c) <= k /\ Rung(b, c) \in Coins!Evidence(b, c) /\ Rung(b, c) \in 1..4
    BY <1>1, <2>3, RungsAre
  <2>5. k <= Rung(b, c)
    BY <1>3, <2>1, <2>4
  <2>6. Rung(t, c) = Rung(b, c)
    BY <2>1, <2>4, <2>5 DEF k
  <2>7. Rung(b, c) = 3 => ~Coins!Overtaken(t, n, c)
    <3>1. ASSUME Rung(b, c) = 3, NEW i \in Coins!Positions(t, "alias", c)
          PROVE  \E j \in Coins!Positions(t, "alias", c) : j <= n /\ ~(t[i].place[c] < t[j].place[c])
      <4> DEFINE y == Coins!MatchOf(t, c).index
      <4>1. Coins!Rungs[k] = "alias"
        BY <2>6, <3>1 DEF k, Coins!Rungs
      <4>2. y \in Coins!Positions(t, "alias", c) /\ y <= n /\ t[y].place[c] <= t[i].place[c]
        BY <1>6, <2>1, <3>1, <4>1 DEF Coins!Foremost
      <4>3. t[y].place[c] \in Nat /\ t[i].place[c] \in Nat
        BY <3>1, <4>2, SomeForemost
      <4> HIDE DEF y
      <4>4. ~(t[i].place[c] < t[y].place[c])
        BY <4>2, <4>3
      <4>5. QED
        BY <4>2, <4>4
    <3>2. QED
      BY <3>1 DEF Coins!Overtaken
  <2>8. QED
    BY <1>4, <2>3, <2>6, <2>7
<1>7. QED
  BY <1>1, <1>2, <1>3, <1>5, <1>6 DEF b

\* coin-matcher.ts, matchCoins and primaryCoin: of every text, however it goes
\* on and whichever coins it is matched against.
THEOREM PrimaryAlwaysStable ==
  ASSUME IsFiniteSet(Matchable), Matchable \subseteq Nat \ {0}, MaxMatches \in Nat \ {0}, NEW text \in Seq(Word), NEW least \in Int
  PROVE  Coins!PrimaryIsStable(text, least)
<1>0. Matchable \subseteq Nat
  OBVIOUS
<1> SUFFICES ASSUME NEW n \in 0..Len(text)
             PROVE  LET earlier == Coins!MatchCoins(SubSeq(text, 1, n), least)
                        later == Coins!MatchCoins(text, least)
                    IN  /\ earlier # <<>> => \/ Coins!PrimaryCoin(later) = Coins!PrimaryCoin(earlier)
                                             \/ later[1].confidence > earlier[1].confidence
                                             \/ /\ earlier[1].confidence = Coins!Confidence.alias
                                                /\ Coins!Overtaken(text, n, earlier[1].coin)
                        /\ Coins!PrimaryCoin(later) # 0 =>
                             \E i \in 1..Len(text) :
                               Coins!PrimaryCoin(later) \in text[i].coins /\
                                 (text[i].form = "symbol" => Coins!PrimaryCoin(later) \notin AmbiguousTicker)
  BY DEF Coins!PrimaryIsStable
<1> DEFINE b == SubSeq(text, 1, n)
           A == Coins!Matches(b, least)
           L == Coins!Matches(text, least)
           earlier == Coins!MatchCoins(b, least)
           later == Coins!MatchCoins(text, least)
           e == earlier[1]
           l == later[1]
<1>1. b \in Seq(Word) /\ n \in Nat
  BY BeginningsSay
<1> HIDE DEF b
<1>2. (A = {} => earlier = <<>>) /\ (A # {} => earlier # <<>> /\ e \in A /\ Coins!Ahead(A, e) = {})
  BY <1>0, <1>1, FirstMatch
<1>3. (L = {} => later = <<>>) /\ (L # {} => later # <<>> /\ l \in L /\ Coins!Ahead(L, l) = {})
  BY <1>0, FirstMatch
<1>4. \A m \in A : /\ m.coin \in Matchable /\ m = Coins!MatchOf(b, m.coin) /\ Coins!Evidence(b, m.coin) # {}
                   /\ m.confidence \in 65..100 /\ m.index \in 1..n /\ m.confidence >= least
  <2>1. Len(b) = n
    BY BeginningsSay DEF b
  <2>2. QED
    BY <1>0, <1>1, <2>1, MatchesAbove
<1>5. /\ \A m \in L : /\ m.coin \in Matchable /\ m = Coins!MatchOf(text, m.coin) /\ Coins!Evidence(text, m.coin) # {}
                      /\ m.confidence \in 65..100 /\ m.index \in 1..Len(text) /\ m.confidence >= least
      /\ \A c \in Matchable : Coins!Evidence(text, c) # {} /\ Coins!MatchOf(text, c).confidence >= least =>
           Coins!MatchOf(text, c) \in L
      /\ \A c \in Matchable : Coins!Evidence(b, c) # {} /\ Coins!MatchOf(b, c).confidence >= least => Coins!MatchOf(b, c) \in A
  BY <1>0, <1>1, MatchesAbove
<1>6. \A c \in Matchable : Coins!Evidence(text, c) # {} /\ Coins!MatchOf(text, c).index <= n =>
                        Coins!Evidence(b, c) # {} /\ Coins!MatchOf(b, c) = Coins!MatchOf(text, c)
  BY BeginningsSay DEF b
<1>7. \A c \in Matchable : Coins!Evidence(b, c) # {} =>
        Coins!Evidence(text, c) # {} /\ (
          \/ Coins!MatchOf(text, c) = Coins!MatchOf(b, c)
          \/ Coins!MatchOf(text, c).confidence > Coins!MatchOf(b, c).confidence
          \/ Coins!MatchOf(b, c).confidence = Coins!Confidence.alias /\ Coins!Overtaken(text, n, c))
  <2>1. ASSUME NEW c \in Matchable, Coins!Evidence(b, c) # {}
        PROVE  Coins!Evidence(text, c) # {} /\ (
          \/ Coins!MatchOf(text, c) = Coins!MatchOf(b, c)
          \/ Coins!MatchOf(text, c).confidence > Coins!MatchOf(b, c).confidence
          \/ Coins!MatchOf(b, c).confidence = Coins!Confidence.alias /\ Coins!Overtaken(text, n, c))
    <3>1. /\ Coins!Evidence(text, c) # {}
          /\ \/ Rung(text, c) < Rung(b, c) \/ Coins!MatchOf(text, c) = Coins!MatchOf(b, c)
             \/ Rung(b, c) = 3 /\ Coins!Overtaken(text, n, c)
      BY <2>1, BeginningsSay DEF b
    <3>2. CASE Rung(text, c) < Rung(b, c)
      <4>1. /\ Rung(text, c) \in 1..4 /\ Coins!MatchOf(text, c).confidence = Coins!Confidence[Coins!Rungs[Rung(text, c)]]
            /\ Rung(b, c) \in 1..4 /\ Coins!MatchOf(b, c).confidence = Coins!Confidence[Coins!Rungs[Rung(b, c)]]
        BY <1>1, <2>1, <3>1, RungsAre
      <4>2. Coins!Confidence[Coins!Rungs[Rung(b, c)]] < Coins!Confidence[Coins!Rungs[Rung(text, c)]]
        BY <3>2, <4>1, ConfidencesFall
      <4>3. Coins!Confidence[Coins!Rungs[Rung(b, c)]] \in 65..100 /\ Coins!Confidence[Coins!Rungs[Rung(text, c)]] \in 65..100
        BY <4>1, ConfidencesFall
      <4>4. QED
        BY <3>1, <4>1, <4>2, <4>3
    <3>3. CASE Rung(b, c) = 3 /\ Coins!Overtaken(text, n, c)
      <4>1. Coins!MatchOf(b, c).confidence = Coins!Confidence[Coins!Rungs[3]]
        BY <1>1, <2>1, <3>3, RungsAre
      <4>2. Coins!Rungs[3] = "alias"
        BY DEF Coins!Rungs
      <4>3. QED
        BY <3>1, <3>3, <4>1, <4>2
    <3>4. QED
      BY <3>1, <3>2, <3>3
  <2>2. QED
    BY <2>1
<1> HIDE DEF A, L, earlier, later
<1>8. ASSUME earlier # <<>>, ~(e.confidence = Coins!Confidence.alias /\ Coins!Overtaken(text, n, e.coin))
      PROVE  Coins!PrimaryCoin(later) = Coins!PrimaryCoin(earlier) \/ l.confidence > e.confidence
  <2> DEFINE c == e.coin
             m == Coins!MatchOf(text, c)
  <2>1. e \in A /\ Coins!Ahead(A, e) = {} /\ c \in Matchable /\ e = Coins!MatchOf(b, c) /\ Coins!Evidence(b, c) # {}
        /\ e.confidence \in 65..100 /\ e.index \in 1..n /\ e.confidence >= least
    BY <1>2, <1>4, <1>8
  <2>2. Coins!Evidence(text, c) # {} /\ (m = e \/ m.confidence > e.confidence)
    BY <1>7, <1>8, <2>1
  <2> HIDE DEF m, c
  <2>3. m.confidence \in 65..100
    <3>1. m.confidence = Coins!Confidence[Coins!Rungs[Rung(text, c)]] /\ Rung(text, c) \in 1..4
      BY <2>2, RungsAre DEF m
    <3>2. QED
      BY <3>1, ConfidencesFall
  <2>4. m.confidence >= least /\ m.confidence >= e.confidence
    <3>1. \A x \in 65..100 : x \in Int
      OBVIOUS
    <3>2. e.confidence \in Int /\ m.confidence \in Int /\ e.confidence >= least
      BY <2>1, <2>3, <3>1
    <3>3. m.confidence >= e.confidence
      BY <2>2, <3>2
    <3>4. QED
      BY <3>2, <3>3
  <2>5. m \in L
    BY <1>5, <2>1, <2>2, <2>4 DEF m
  <2>6. /\ later # <<>> /\ l \in L /\ Coins!Ahead(L, l) = {} /\ l.coin \in Matchable /\ l = Coins!MatchOf(text, l.coin)
        /\ Coins!Evidence(text, l.coin) # {} /\ l.confidence \in 65..100 /\ l.index \in 1..Len(text) /\ l.confidence >= least
    BY <1>3, <1>5, <2>5
  <2>7. ~Coins!Before(m, l)
    BY <2>5, <2>6 DEF Coins!Ahead
  <2> HIDE DEF l, e
  <2>8. l.confidence >= m.confidence
    <3>1. ~(m.confidence > l.confidence)
      BY <2>7 DEF Coins!Before
    <3>2. \A x, y \in 65..100 : ~(y > x) => x >= y
      OBVIOUS
    <3>3. QED
      BY <2>3, <2>6, <3>1, <3>2
  <2>9. CASE l.confidence > e.confidence
    BY <2>9
  <2>10. CASE ~(l.confidence > e.confidence)
    <3>1. l.confidence = e.confidence /\ m = e
      <4>1. \A x, y, z \in 65..100 : x >= y /\ y >= z /\ ~(x > z) => x = z /\ ~(y > z)
        OBVIOUS
      <4>2. l.confidence = e.confidence /\ ~(m.confidence > e.confidence)
        BY <2>1, <2>3, <2>4, <2>6, <2>8, <2>10, <4>1
      <4>3. QED
        BY <2>2, <4>2
    <3>2. l.index <= e.index /\ l.index <= n /\ l.index \in Nat /\ e.index \in Nat
      BY <1>1, <2>1, <2>6, <2>7, <3>1 DEF Coins!Before
    <3>3. Coins!Evidence(b, l.coin) # {} /\ Coins!MatchOf(b, l.coin) = l
      BY <1>6, <2>6, <3>2
    <3>4. l \in A
      BY <1>5, <2>6, <3>3
    <3>5. ~Coins!Before(l, e)
      BY <2>1, <3>4 DEF Coins!Ahead
    <3>6. l.coin \in Nat /\ e.coin \in Nat
      BY <1>0, <2>1, <2>6 DEF c
    <3>7. l.coin = e.coin
      BY <2>1, <2>6, <2>7, <3>1, <3>2, <3>5, <3>6 DEF Coins!Before
    <3>8. Coins!PrimaryCoin(later) = Coins!PrimaryCoin(earlier)
      BY <1>8, <2>6, <3>1, <3>7 DEF Coins!PrimaryCoin, l, e
    <3>9. QED
      BY <3>8
  <2>11. QED
    BY <2>9, <2>10
<1>9. ASSUME Coins!PrimaryCoin(later) # 0
      PROVE  \E i \in 1..Len(text) :
               Coins!PrimaryCoin(later) \in text[i].coins /\
                 (text[i].form = "symbol" => Coins!PrimaryCoin(later) \notin AmbiguousTicker)
  <2> DEFINE d == l.coin
             k == Rung(text, d)
             i == Coins!MatchOf(text, d).index
  <2>1. later # <<>> /\ Coins!PrimaryCoin(later) = d
    BY <1>9 DEF Coins!PrimaryCoin
  <2>2. Coins!Evidence(text, d) # {}
    BY <1>3, <1>5, <2>1
  <2>3. k \in Coins!Evidence(text, d) /\ i \in Coins!Positions(text, Coins!Rungs[k], d) /\ i \in 1..Len(text)
    BY <2>2, RungsAre
  <2> HIDE DEF i, k, d
  <2>4. text[i].form = Coins!Rungs[k] /\ d \in text[i].coins
    BY <2>3 DEF Coins!Positions
  <2>5. text[i].form = "symbol" => d \notin AmbiguousTicker
    BY <2>3, <2>4 DEF Coins!Evidence, Coins!Tried
  <2>6. QED
    BY <2>1, <2>3, <2>4, <2>5
<1>10. QED
  BY <1>8, <1>9 DEF b, earlier, later

------------------------------------------------------------------------------
\* What the run asks of the services.

\* scoring.ts, sentiment.ts, coin-matcher.ts, enricher.ts: VerdictsSound of every
\* input on its scale, each part by the theorem about its service.
THEOREM VerdictsAlwaysSound == ASSUME None \notin Int, Stored(input) PROVE VerdictsSound
<1>1. OnScale(input)
  BY DEF Stored
<1>2. ASSUME About("importance") PROVE Model!ImportanceSound(input)
  <2>1. Rateable(input)
    BY <1>1, <1>2 DEF OnScale, About, Rateable
  <2>2. QED
    BY <2>1, ImportanceAlwaysSound
<1>3. ASSUME About("confidence") PROVE Model!ConfidenceSound(input)
  <2>1. Trustable(input)
    BY <1>1, <1>3 DEF OnScale, About, Trustable
  <2>2. QED
    BY <2>1, ConfidenceAlwaysSound
<1>4. ASSUME About("trend") PROVE Model!TrendingSound(input)
  <2>1. Measured(input)
    BY <1>1, <1>4 DEF OnScale, About, Measured
  <2>2. QED
    BY <2>1, TrendsAlwaysSound
<1>5. ASSUME About("development") PROVE Model!DevActivitySound(input)
  <2>1. Active(input)
    BY <1>1, <1>5 DEF OnScale, About, Active
  <2>2. QED
    BY <2>1, ActivityAlwaysSound
<1>6. ASSUME About("samples") PROVE Model!MeanBetween(input.samples)
  <2>1. input.samples \in Samples
    BY <1>1, <1>6 DEF OnScale, About, Samples
  <2>2. QED
    BY <2>1, MeanAlwaysBetween
<1>7. ASSUME About("whales") PROVE Model!WhalesMirrored(input.in, input.out) /\ Model!NoInputDominates
  <2>1. input.in \in Nat /\ input.out \in Nat
    BY <1>1, <1>7 DEF OnScale, About, Has
  <2>2. QED
    BY <2>1, WhalesAlwaysMirrored, NothingDominates
<1>8. ASSUME About("sentiment")
      PROVE  /\ Model!VerdictBetween(input.tokens, input.model, input.confidence)
             /\ Model!BadNewsStaysBad(input.tokens, input.model, input.confidence)
  <2>1. input.tokens \in Texts /\ input.model \in (-100..100) \union {None} /\ input.confidence \in 1..100
    BY <1>1, <1>8 DEF OnScale, About, Texts
  <2>2. QED
    BY <2>1, SentimentAlwaysSound
<1>9. ASSUME About("verdict") PROVE Model!ModelIsOneVoice(input.raw, input.of)
  <2>1. /\ Has(input.raw, {"importance", "confidence"}, Int \union {None, Missing, Unknown})
        /\ Has(input.of, {"category"}, DOMAIN Model!Prior) /\ Has(input.of, {"credibility", "decay"}, 0..100)
        /\ Has(input.of, {"tokens"}, Seq(Int \union {Negator, Plain}))
    BY <1>1, <1>9 DEF OnScale, About
  <2>2. Answered(input.raw)
    BY <2>1 DEF Answered, Has
  <2>3. AskedAbout(input.of)
    BY <2>1 DEF AskedAbout, Has, Levels, Texts
  <2>4. QED
    BY <2>2, <2>3, ModelAlwaysOneVoice
<1>10. ASSUME About("coins") PROVE Coins!PrimaryIsStable(input.text, input.minimum)
  <2>1. input.text \in Seq(Word) /\ input.minimum \in Int
    BY <1>1, <1>10 DEF OnScale, About, Word
  <2>2. QED
    BY <2>1, MatcherAssumption, PrimaryAlwaysStable
<1>11. QED
  BY <1>2, <1>3, <1>4, <1>5, <1>6, <1>7, <1>8, <1>9, <1>10 DEF VerdictsSound

\* What the run asks of the services holds of every behaviour in which they are
\* asked only what they can be asked.
THEOREM ServicesAlwaysSound ==
  ASSUME None \notin Int
  PROVE  []Stored(input) => []ServicesSound
<1>1. Stored(input) => ServicesSound
  BY SignalsAlwaysSound, VerdictsAlwaysSound, FailuresStayAlone DEF ServicesSound
<1>2. QED
  BY <1>1, PTL
=============================================================================
