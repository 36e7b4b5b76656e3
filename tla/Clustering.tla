----------------------------- MODULE Clustering -----------------------------
(* Telling that two reports are one story (packages/core/src/services/        *)
(* dedupe.ts) and the step of an ingestion that stores it                     *)
(* (packages/worker/src/ingestion.ts, #clusterNewEvents).  The ingestions of  *)
(* several connectors interleave at every await; each one clusters all recent *)
(* events from scratch, whatever clusters they have, and writes only its own. *)
EXTENDS Integers, FiniteSets, FiniteSetsExt, SequencesExt

CONSTANTS
  Report,           \* the events: small numbers, the order of their keys
  OccurredAt,       \* Report -> hour
  Url,              \* Report -> canonical URL or Null
  Headline,         \* Report -> headline
  Similarity(_, _), \* of two headlines, in per cent, 0 below the threshold
  Null,
  WindowHours, CandidateCap,
  LastHour          \* bound of the model

ASSUME ClusterAssumption ==
  /\ \A a, b \in Report : Similarity(Headline[a], Headline[b]) \in 0..100
  /\ \A r \in Report : OccurredAt[r] \in Nat
  /\ IsFiniteSet(Report) /\ CandidateCap \in Nat

VARIABLES
  stored,      \* the events in the table
  cluster,     \* their cluster ids, Null until one is written
  ingestions,  \* those under way: [new, stage, todo]
  hour,        \* the clock
  disturbed    \* history: an event came late, or a stored one was no candidate

clusterVars == <<stored, cluster, ingestions, hour, disturbed>>

------------------------------------------------------------------------------
DeriveClusterId(report) ==
  IF Url[report] # Null THEN <<Url[report]>> ELSE <<Headline[report], OccurredAt[report]>>

Close(a, b) == /\ OccurredAt[a] - OccurredAt[b] <= WindowHours
               /\ OccurredAt[b] - OccurredAt[a] <= WindowHours

SameUrl(a, b) == Url[a] # Null /\ Url[a] = Url[b]

Alike(a, b) == Close(a, b) /\ (SameUrl(a, b) \/ Similarity(Headline[a], Headline[b]) > 0)

\* Mutant of FindCluster: nothing is too different.
FindClusterAny(incoming, candidates) ==
  LET near == {n \in DOMAIN candidates : Close(candidates[n].report, incoming)}
  IN  IF near = {} THEN Null ELSE candidates[Min(near)].cluster

\* Candidates are [report, cluster].  The first with the same URL, or else the
\* first of the most similar ones.
FindCluster(incoming, candidates) ==
  LET alike == {n \in DOMAIN candidates : /\ candidates[n].report # incoming
                                          /\ Alike(candidates[n].report, incoming)}
      same == {n \in alike : SameUrl(candidates[n].report, incoming)}
      similarity(n) == Similarity(Headline[incoming], Headline[candidates[n].report])
      best == {n \in alike : \A m \in alike : similarity(m) <= similarity(n)}
  IN  IF alike = {} THEN Null ELSE candidates[Min(IF same = {} THEN best ELSE same)].cluster

\* A report joins one placed before or seeds a cluster of its own.
Placed(assigned, report) ==
  LET found == FindCluster(report, assigned)
  IN  Append(assigned, [report |-> report, cluster |-> IF found = Null THEN DeriveClusterId(report) ELSE found])

\* Mutant of ClusterBatch: the newest report seeds the cluster.
ClusterBatchNewest(oldestFirst) ==
  LET placed[n \in 0..Len(oldestFirst)] ==
        IF n = 0 THEN <<>> ELSE Placed(placed[n - 1], oldestFirst[Len(oldestFirst) + 1 - n])
  IN  placed[Len(oldestFirst)]

\* One pass, oldest first.
ClusterBatch(oldestFirst) ==
  LET placed[n \in 0..Len(oldestFirst)] == IF n = 0 THEN <<>> ELSE Placed(placed[n - 1], oldestFirst[n])
  IN  placed[Len(oldestFirst)]

\* The newest `count` of some reports, oldest first; of those of one moment in any
\* order, which the query leaves open.
OldestFirst(reports, count) ==
  {s \in [1..count -> reports] :
     /\ \A m, n \in 1..count : m < n => s[m] # s[n] /\ OccurredAt[s[m]] <= OccurredAt[s[n]]
     /\ \A r \in reports \ Range(s), n \in 1..count : OccurredAt[r] <= OccurredAt[s[n]]}

\* listRecentForClustering: the newest of the window.
Candidates ==
  LET recent == {r \in stored : OccurredAt[r] >= hour - WindowHours}
  IN  OldestFirst(recent, IF Cardinality(recent) <= CandidateCap THEN Cardinality(recent) ELSE CandidateCap)

------------------------------------------------------------------------------
ClusterInit ==
  /\ stored = {} /\ cluster = [r \in Report |-> Null]
  /\ ingestions = {} /\ hour = 0 /\ disturbed = FALSE

\* A connector delivers reports that have happened, perhaps long ago.
Ingest(new) ==
  /\ new # {} /\ new \intersect stored = {}
  /\ \A r \in new : OccurredAt[r] <= hour
  /\ stored' = stored \union new
  /\ ingestions' = ingestions \union {[new |-> new, stage |-> "created", todo |-> {}]}
  /\ disturbed' = (disturbed \/ \E r \in new, q \in stored \union new :
                                  q # r /\ (OccurredAt[r] = OccurredAt[q]
                                            \/ (q \in stored /\ OccurredAt[r] < OccurredAt[q])))
  /\ UNCHANGED <<cluster, hour>>

\* #clusterNewEvents up to its first write.
ClusterNewEvents(i, candidates) ==
  /\ i.stage = "created"
  /\ LET todo == {a \in ToSet(ClusterBatch(candidates)) :
                    a.report \in i.new /\ a.cluster # cluster[a.report]}
     IN  /\ ingestions' = (ingestions \ {i}) \union
                            (IF todo = {} THEN {} ELSE {[i EXCEPT !.stage = "writing", !.todo = todo]})
         /\ disturbed' = (disturbed \/ ToSet(candidates) # stored)
  /\ UNCHANGED <<stored, cluster, hour>>

\* setCluster, one event after another.
SetClusterId(i, a) ==
  /\ i.stage = "writing" /\ a \in i.todo
  /\ \A b \in i.todo : OccurredAt[b.report] <= OccurredAt[a.report]
  /\ cluster' = [cluster EXCEPT ![a.report] = a.cluster]
  /\ ingestions' = (ingestions \ {i}) \union
                     (IF i.todo = {a} THEN {} ELSE {[i EXCEPT !.todo = @ \ {a}]})
  /\ UNCHANGED <<stored, hour, disturbed>>

\* A query throws or the process dies; nobody clusters these events again.
Abandon(i) ==
  /\ ingestions' = ingestions \ {i}
  /\ UNCHANGED <<stored, cluster, hour, disturbed>>

HourPasses ==
  /\ hour < LastHour /\ hour' = hour + 1
  /\ UNCHANGED <<stored, cluster, ingestions, disturbed>>

ClusterNext ==
  \/ \E new \in SUBSET Report : Ingest(new)
  \/ \E i \in ingestions :
       \/ \E candidates \in Candidates : ClusterNewEvents(i, candidates)
       \/ \E a \in i.todo : SetClusterId(i, a)
       \/ Abandon(i)
  \/ HourPasses

ClusterSpec == ClusterInit /\ [][ClusterNext]_clusterVars

------------------------------------------------------------------------------
\* Two reports that tell the same story, or that would seed the same cluster:
\* with one URL, or one headline in one hour.
Linked(a, b) == Alike(a, b) \/ DeriveClusterId(a) = DeriveClusterId(b)

\* dedupe.ts, findCluster: two events share a cluster only when reports that
\* are pairwise linked lead from one to the other, so a story that nothing links
\* to the rest shares no cluster with it: no interleaving of ingestions, no late
\* report and no lost candidate merges two stories.
StoriesApart ==
  \A story \in SUBSET stored :
    (\A a \in story, b \in stored \ story : ~Linked(a, b) /\ ~Linked(b, a)) =>
      \A a \in story, b \in stored \ story : cluster[a] # Null => cluster[a] # cluster[b]

\* dedupe.ts:352: as long as reports come in the order of their hours and all
\* of them are candidates, what the ingestions wrote, each from what it saw, is
\* what one pass over everything gives: the earliest report seeds the cluster
\* and the later ones join it.
StoriesTogether ==
  ~disturbed =>
    \A all \in OldestFirst(stored, Cardinality(stored)) : \A a \in ToSet(ClusterBatch(all)) :
      cluster[a.report] \in {Null, a.cluster}
=============================================================================
