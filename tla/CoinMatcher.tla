----------------------------- MODULE CoinMatcher -----------------------------
(* Which coins a text is about (packages/core/src/services/coin-matcher.ts).  *)
(* A text is a sequence of words; a word is [form, coins, place], what the    *)
(* patterns see in it: a cashtag, the whole name, an alias or the upper-case  *)
(* ticker of these coins, several of which may share a symbol or a name.      *)
(* place[c] is where an alias stands in coin c's own list of aliases.         *)
EXTENDS Naturals, Sequences, FiniteSets, FiniteSetsExt

CONSTANTS
  Coin,             \* the coins to look for, small numbers: their order in the list
  AmbiguousTicker,  \* those whose symbol is an English word or at most two letters
  AmbiguousName,    \* those whose one-word name is one of these words too
  MaxMatches

Confidence == [cashtag |-> 100, name |-> 90, alias |-> 75, symbol |-> 65]

\* Whether the pattern of a form is tried at all for a coin.
Tried(form, coin) == /\ form = "symbol" => coin \notin AmbiguousTicker
                     /\ form = "name" => coin \notin AmbiguousName

Positions(text, form, coin) == {i \in 1..Len(text) : text[i].form = form /\ coin \in text[i].coins}

\* Aliases are tried in the order of the coin's list, so that an earlier one
\* counts before all others, wherever they stand in the text.
Foremost(text, form, coin) ==
  {i \in Positions(text, form, coin) :
     form = "alias" => \A j \in Positions(text, form, coin) : text[i].place[coin] <= text[j].place[coin]}

FirstOf(text, form, coin) == Min(Foremost(text, form, coin))

Rungs == <<"cashtag", "name", "alias", "symbol">>

\* The rungs of the ladder a coin can be found on; the first one counts.
Evidence(text, coin) ==
  {k \in 1..4 : Tried(Rungs[k], coin) /\ Positions(text, Rungs[k], coin) # {}}

Via(text, coin) == Rungs[Min(Evidence(text, coin))]

MatchOf(text, coin) ==
  [coin |-> coin, confidence |-> Confidence[Via(text, coin)], index |-> FirstOf(text, Via(text, coin), coin)]

Matches(text, minConfidence) ==
  {m \in {MatchOf(text, c) : c \in {d \in Coin : Evidence(text, d) # {}}} : m.confidence >= minConfidence}

\* By confidence and then by position.  The offsets of names and aliases are
\* those of the normalised text, so only equal confidences, which have one
\* origin, compare them.
Before(a, b) ==
  \/ a.confidence > b.confidence
  \/ a.confidence = b.confidence /\ a.index < b.index
  \/ a.confidence = b.confidence /\ a.index = b.index /\ a.coin < b.coin

Ahead(matches, m) == {other \in matches : Before(other, m)}

MatchCoins(text, minConfidence) ==
  LET matches == Matches(text, minConfidence)
      found == Cardinality(matches)
  IN  [k \in 1..(IF MaxMatches < found THEN MaxMatches ELSE found) |->
        CHOOSE m \in matches : Cardinality(Ahead(matches, m)) = k - 1]

PrimaryCoin(matches) ==
  IF matches = <<>> \/ matches[1].confidence < 65 THEN 0 ELSE matches[1].coin

------------------------------------------------------------------------------
\* An alias of the coin that is listed before all those among the first n words
\* stands behind them.
Overtaken(text, n, coin) ==
  \E i \in Positions(text, "alias", coin) :
    \A j \in Positions(text, "alias", coin) : j <= n => text[i].place[coin] < text[j].place[coin]

\* coin-matcher.ts:465: words added to the end of a text, a mention of another
\* coin or of the same one, leave the event with the coin it is about, unless a
\* stronger kind of mention is among them, or the coin was known by an alias
\* and one listed before it is among them, whose later position then counts
\* and lets another coin go first.  A text whose only mentions are English
\* words is about no coin.
PrimaryIsStable(text, minConfidence) ==
  \A n \in 0..Len(text) :
    LET earlier == MatchCoins(SubSeq(text, 1, n), minConfidence)
        later == MatchCoins(text, minConfidence)
    IN  /\ earlier # <<>> => \/ PrimaryCoin(later) = PrimaryCoin(earlier)
                             \/ later[1].confidence > earlier[1].confidence
                             \/ /\ earlier[1].confidence = Confidence.alias
                                /\ Overtaken(text, n, earlier[1].coin)
        /\ PrimaryCoin(later) # 0 =>
             \E i \in 1..Len(text) :
               PrimaryCoin(later) \in text[i].coins /\
                 (text[i].form = "symbol" => PrimaryCoin(later) \notin AmbiguousTicker)
=============================================================================
