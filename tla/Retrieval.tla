----------------------------- MODULE Retrieval -----------------------------
(* What is found, ranked and numbered for the model and the reader: hybrid    *)
(* search (search-repository.ts), citations and the context they number       *)
(* (agent.ts), the key events and rankings of a report                        *)
(* (analytics-repository.ts, reports.ts) and embedding batches (llm.ts).      *)
(* Events are numbers; a corpus gives each its scores, None without any.      *)
EXTENDS Integers, Sequences, SequencesExt, FiniteSetsExt

CONSTANTS None, OverFetch, KeyRows, KeyEvents

Least(a, b) == IF a < b THEN a ELSE b
Most(a, b) == IF a < b THEN b ELSE a

\* The best first, at most n: ORDER BY ... LIMIT.
Top(sorted, n) == SubSeq(sorted, 1, Least(n, Len(sorted)))

------------------------------------------------------------------------------
\* Ranks of the text search are squashed onto tenths: four times, at most 10.
Squashed(rank) == Least(10, rank * 4)

\* Matching events by rank, the newer of equals (the lower number) first.
KeywordSearch(corpus, n) ==
  Top(SetToSortSeq({e \in DOMAIN corpus : corpus[e].rank # None},
                   LAMBDA a, b : corpus[a].rank > corpus[b].rank \/ (corpus[a].rank = corpus[b].rank /\ a < b)), n)

\* Embedded events by similarity, in tenths.
SemanticSearch(corpus, n) ==
  Top(SetToSortSeq({e \in DOMAIN corpus : corpus[e].near # None},
                   LAMBDA a, b : corpus[a].near > corpus[b].near \/ (corpus[a].near = corpus[b].near /\ a < b)), n)

\* 0.6 of the similarity and 0.4 of the rank, in hundredths.
Blend(corpus, e, keyword, semantic) ==
    (IF Contains(semantic, e) THEN 6 * corpus[e].near ELSE 0)
  + (IF Contains(keyword, e) THEN 4 * Squashed(corpus[e].rank) ELSE 0)

\* Both lists, merged in the order of the map (semantic hits first), sorted
\* stably; without a vector the text search alone.
HybridSearch(corpus, limit, vector) ==
  LET fetched == Most(2 * limit, OverFetch)
      keyword == KeywordSearch(corpus, fetched)
      semantic == IF vector THEN SemanticSearch(corpus, fetched) ELSE <<>>
      merged == semantic \o SelectSeq(keyword, LAMBDA e : ~Contains(semantic, e))
      score(k) == Blend(corpus, merged[k], keyword, semantic)
      order == Top(SetToSortSeq(1..Len(merged), LAMBDA j, k : score(j) > score(k) \/ (score(j) = score(k) /\ j < k)), limit)
  IN  [k \in 1..Len(order) |-> merged[order[k]]]

------------------------------------------------------------------------------
\* retrieve: the hits that are still there, in order.
Citations(hits, present) == SelectSeq(hits, LAMBDA e : e \in present)

\* #buildContext: numbered as cited, then those that are gone are left out.
ContextLines(citations, present) == {<<k, citations[k]>> : k \in {j \in 1..Len(citations) : citations[j] \in present}}

------------------------------------------------------------------------------
\* The first of each story; events without a cluster are stories of their own.
FirstOfEach(rows, cluster) ==
  LET first(k) == cluster[rows[k]] = None \/ \A j \in 1..(k - 1) : cluster[rows[j]] # cluster[rows[k]]
      kept == SelectSeq([k \in 1..Len(rows) |-> k], first)
  IN  [k \in 1..Len(kept) |-> rows[kept[k]]]

\* Events are in the order of their importance and date here.  More rows are
\* fetched than wanted, because stories collapse.
KeyEventsOf(corpus, rows, wanted) ==
  LET stories == FirstOfEach(Top([e \in 1..Len(corpus) |-> e], rows),
                             [e \in DOMAIN corpus |-> corpus[e].cluster])
  IN  SubSeq(stories, 1, Least(wanted, Len(stories)))

------------------------------------------------------------------------------
\* embed: one row for each text, in the order of their indices (a missing one
\* counts as 0), or an error; a vector of the wrong length is None here.
Vectors(texts, rows) ==
  LET index(k) == IF rows[k].index = None THEN 0 ELSE rows[k].index
      order == SetToSortSeq(1..Len(rows), LAMBDA j, k : index(j) < index(k) \/ (index(j) = index(k) /\ j < k))
  IN  IF Len(rows) # Len(texts) \/ \E k \in 1..Len(rows) : rows[k].vector = None THEN None
      ELSE [k \in 1..Len(order) |-> rows[order[k]].vector]

------------------------------------------------------------------------------
\* search-repository.ts:293: of two events found, one that is nearer to the
\* question and also matches its words better (or neither matches) comes first,
\* so an event that both searches like is never behind one that both like less.
BetterComesFirst(corpus, limit, vector) ==
  LET found == HybridSearch(corpus, limit, vector)
      beats(x, y) == x # None /\ (y = None \/ x > y)
      neither(x, y) == x = None /\ y = None
      better(a, b) ==
        /\ ~vector \/ neither(corpus[a].near, corpus[b].near) \/ beats(corpus[a].near, corpus[b].near)
        /\ neither(corpus[a].rank, corpus[b].rank) \/ beats(corpus[a].rank, corpus[b].rank)
        /\ beats(corpus[a].rank, corpus[b].rank) \/ (vector /\ beats(corpus[a].near, corpus[b].near))
  IN  \A k \in 1..Len(found) : \A a \in DOMAIN corpus :
        better(a, found[k]) => \E j \in 1..(k - 1) : found[j] = a

\* agent.ts and ask-panel.tsx: the model's "[n]" means the citation the reader
\* sees as n, also when events vanish between the search and the prompt.
CitedAsNumbered(hits, present, later) ==
  LET citations == Citations(hits, present)
  IN  \A line \in ContextLines(citations, later) : citations[line[1]] = line[2] /\ line[2] \in later

\* analytics-repository.ts:304: a report cites no story twice and what it
\* leaves out is a later copy or less important than all it cites; it falls
\* short of its size only if there are no more stories among the rows it
\* fetched, which are more than it wants.
ReportCitesTheTop(corpus) ==
  LET cited == KeyEventsOf(corpus, KeyRows, KeyEvents)
      same(a, b) == corpus[a].cluster = corpus[b].cluster /\ corpus[a].cluster # None
      covered(e) == \E k \in 1..Len(cited) : cited[k] = e \/ (same(cited[k], e) /\ cited[k] < e)
  IN  /\ \A j, k \in 1..Len(cited) : j < k => cited[j] < cited[k] /\ ~same(cited[j], cited[k])
      /\ \A e \in DOMAIN corpus : covered(e) \/ \A k \in 1..Len(cited) : cited[k] < e
      /\ \/ Len(cited) = KeyEvents
         \/ \A e \in DOMAIN corpus : covered(e) \/ e > KeyRows

\* llm.ts:502 and enrichment.ts:171: each event gets the vector of its own text
\* however the provider orders its answer.  A row is what the provider made of
\* the text its index names.
VectorsMatchTexts(texts, order) ==
  LET rows == [k \in 1..Len(order) |-> [index |-> order[k] - 1, vector |-> texts[order[k]]]]
  IN  Vectors(texts, rows) = texts
=============================================================================
