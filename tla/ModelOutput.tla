---------------------------- MODULE ModelOutput ----------------------------
(* From what a model writes to a verdict (packages/ai/src/json.ts and         *)
(* enricher.ts).  A text is a sequence of the characters that matter to the   *)
(* extraction; every other one is a letter.  None is JSON null, or no block.  *)
EXTENDS Scoring, SequencesExt

CONSTANTS
  Missing,        \* a field the model left out
  Unknown         \* a word no enumeration has, a number that is none

Opening == {"{", "["}
Closing == {"}", "]"}

FirstIn(text, chars) == SelectInSeq(text, LAMBDA c : c \in chars)

\* The model's own delimiter is preferred to the whole text.
Haystack(text) ==
  LET from == FirstIn(text, {"fence"})
      rest == SubSeq(text, from + 1, Len(text))
      to == FirstIn(rest, {"fence"})
  IN  IF from > 0 /\ to > 0 THEN SubSeq(rest, 1, to - 1) ELSE text

\* One character of the brace count: only braces of the opening kind, outside
\* strings, count.
Scanned(at, c) ==
  LET next == [at EXCEPT !.length = @ + 1, !.escaped = ~@ /\ c = "escape"]
      plain == ~at.done /\ ~at.escaped
  IN  CASE at.done -> at
        [] plain /\ c = "quote" -> [next EXCEPT !.inString = ~@]
        [] plain /\ ~at.inString /\ c = at.open -> [next EXCEPT !.depth = @ + 1]
        [] plain /\ ~at.inString /\ c = at.close -> [next EXCEPT !.depth = @ - 1, !.done = at.depth = 1]
        [] OTHER -> next

Scan(block) ==
  FoldLeft(Scanned, [depth |-> 0, length |-> 0, inString |-> FALSE, escaped |-> FALSE, done |-> FALSE,
                     open |-> block[1], close |-> IF block[1] = "{" THEN "}" ELSE "]"], block)

ExtractJsonBlock(text) ==
  LET haystack == Haystack(text)
      start == FirstIn(haystack, Opening)
      block == SubSeq(haystack, start, Len(haystack))
  IN  IF start = 0 \/ ~Scan(block).done THEN None ELSE SubSeq(block, 1, Scan(block).length)

\* Commas before a close vanish and typographic quotes become quotes, inside
\* strings too.
RepairJson(text) ==
  LET kept == SelectSeq([i \in 1..Len(text) |-> i],
                LAMBDA i : ~(text[i] = "," /\ i < Len(text) /\ text[i + 1] \in Closing))
  IN  [k \in 1..Len(kept) |-> IF text[kept[k]] = "smart" THEN "quote" ELSE text[kept[k]]]

\* JSON.parse, of the texts considered here: one block, and outside its strings
\* nothing but structure, with no comma before a close.
Parses(text) ==
  /\ text # <<>> /\ text[1] \in Opening
  /\ Scan(text).done /\ Scan(text).length = Len(text)
  /\ \A i \in 2..(Len(text) - 1) :
       ~Scan(SubSeq(text, 1, i - 1)).inString =>
         /\ text[i] \notin {"letter", "smart", "escape", "fence"}
         /\ text[i] = "," => text[i + 1] \notin Closing

\* Progressively more aggressive repairs, the first that parses.
ParseLlmJson(text) ==
  LET block == ExtractJsonBlock(text)
      candidates == (IF block = None THEN <<>> ELSE <<block, RepairJson(block)>>) \o <<text, RepairJson(text)>>
      parsing == SelectSeq(candidates, Parses)
  IN  IF parsing = <<>> THEN None ELSE parsing[1]

\* z.coerce.number().catch(50), then rounded and clamped; JSON null is 0.
CoercedNumber(field) ==
  Clamp(CASE field \in {Missing, Unknown} -> 50 [] field = None -> 0 [] OTHER -> field, 1, 100)

ModelImportance(field) == CoercedNumber(field)

CoercedSentiment(field) == IF field \in DOMAIN Anchor THEN field ELSE "NEUTRAL"

\* The model's category, or the hint.
CoercedCategory(field, hint) == IF field \in DOMAIN Prior THEN field ELSE hint

ImportanceOf(category, model, about) ==
  ComputeImportance(
    [category |-> category, model |-> model, hint |-> None, magnitude |-> None, authority |-> None,
     engagement |-> None, doublings |-> None, credibility |-> about.credibility, decay |-> about.decay])

ConfidenceOf(model, agree, about) ==
  ComputeConfidence([credibility |-> about.credibility, model |-> model, doublings |-> None,
                            hardData |-> FALSE, agree |-> agree])

\* The verdict on an event [category, credibility, decay, tokens].  A text that
\* is there must be a text: null fails the validation.
Enrich(raw, about) ==
  LET lexicon == ClassifyWithLexicon(about.tokens)
      confidence == CoercedNumber(raw.confidence)
      reconciled == ReconcileSentiment(Anchor[CoercedSentiment(raw.sentiment)], confidence, lexicon)
      importance == ImportanceOf(CoercedCategory(raw.category, about.category),
                                 ModelImportance(raw.importance), about)
  IN  IF raw.summary = None THEN None
      ELSE [sentiment  |-> ScoreToSentiment(reconciled.score),
            importance |-> importance,
            impact     |-> ImportanceToImpact(importance),
            confidence |-> ConfidenceOf(confidence, ~reconciled.disagreed, about)]

\* The verdict without a model: at most 45 points of confidence from the lexicon.
EnrichByLexicon(about) ==
  LET lexicon == ClassifyWithLexicon(about.tokens)
      importance == ImportanceOf(about.category, None, about)
  IN  [sentiment  |-> ScoreToSentiment(lexicon.score),
       importance |-> importance,
       impact     |-> ImportanceToImpact(importance),
       confidence |-> ConfidenceOf((lexicon.confidence * 45 + 50) \div 100, TRUE, about)]

------------------------------------------------------------------------------
\* json.ts:15: the object a model wrote is read as it was written whatever
\* prose is around it, fenced or not, with braces and escaped quotes in its
\* strings; one with a trailing comma is read without it.
ReadAsWritten(before, object, after) ==
  /\ ParseLlmJson(before \o object \o after) = object
  /\ ParseLlmJson(<<"letter", "fence">> \o object \o <<"fence">> \o after) = object
  /\ LET careless == SubSeq(object, 1, Len(object) - 1) \o <<",", Last(object)>>
     IN  RepairJson(object) = object => ParseLlmJson(before \o careless \o after) = object

\* enricher.ts, #reconcile: the platform refuses simply to believe the model.
\* Whatever it writes for the importance (garbage, null, 1000) moves the
\* event's by no more than its share of the weights from where the lexicon's
\* verdict has it in the same category, and a bullish verdict on a text whose
\* only terms are strong bearish ones does not stand.
ModelIsOneVoice(raw, about) ==
  LET verdict == Enrich(raw, about)
      unread == EnrichByLexicon([about EXCEPT !.category = CoercedCategory(raw.category, about.category)])
  IN  verdict # None =>
        /\ Magnitude(verdict.importance - unread.importance) <= 36
        /\ OnlyBadNews(about.tokens) => verdict.sentiment \notin {"BULLISH", "VERY_BULLISH"}
=============================================================================
