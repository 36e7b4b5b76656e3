------------------------------ MODULE Collection ------------------------------
(***************************************************************************)
(* The durable side of one connector's polls: the high-water mark, what    *)
(* collect fetches above it, EventRepository.insertMany, the typed records *)
(* that are linked to their events by position, and the clustering and the *)
(* live push of what insertMany reported as created.                       *)
(*                                                                         *)
(* A runner is the collector run of one worker replica; within a replica   *)
(* runs never overlap (Scheduler), between replicas they do.               *)
(*                                                                         *)
(*   idle -> fetch* -> lookup -> create -> link -> cluster -> publish*     *)
(*        -> mark -> idle                                                  *)
(*                                                                         *)
(* Items are numbered in the order they appear at the provider, which is   *)
(* also the order in which a run's lists hold them.  An item carries its   *)
(* own date, in seconds or days: any number of items may share one, and an *)
(* item may appear long after its date, or be dated ahead of it.           *)
(* The baseline score is in Enrichment, the telemetry in Scheduler.        *)
(***************************************************************************)
EXTENDS Integers, FiniteSets

CONSTANTS
  Runners,     \* worker replicas that run this connector
  Targets,     \* what one poll asks the provider about, one request each
  LastItem,    \* bound: the items are 1..LastItem
  TargetOf,    \* TargetOf[i]: the target that lists item i
  SkipsFailed, \* a failed request skips its target (else it fails the run)
  LastDate,    \* bound: the items are dated 1..LastDate
  Quiet,       \* items below the connector's bar: a typed record, no event
  RecordsAll,  \* typed records are emitted for every item shown, new or not
  MayFail      \* whether requests fail, awaits throw and replicas crash

Items == 1..LastItem

ASSUME CollectionAssumption ==
  /\ LastItem \in Nat
  /\ TargetOf \in [Items -> Targets]
  /\ LastDate \in Nat
  /\ Quiet \subseteq Items
  /\ SkipsFailed \in BOOLEAN /\ RecordsAll \in BOOLEAN /\ MayFail \in BOOLEAN

VARIABLES
  date,       \* date[i]: the item's own date, 0 before it appears
  late,       \* ghost: the items that appeared too late for a mark
  mark,       \* ConnectorState.lastItemAt, 0 for null
  stored,     \* the items with an Event row
  link,       \* link[i]: whose Event row i's typed record points to, 0 if none
  clustered,  \* the items clusterBatch has considered as new
  published,  \* the items pushed to the browsers
  created,    \* ghost: created[i], how many runs were told they created i
  dropped,    \* ghost: what a run was told it created and failed with
  pc, since,  \* per runner: its await, the mark it read
  left,       \* targets still to be asked
  events,     \* the drafts collected
  records,    \* the typed records collected
  fresh       \* the drafts it found no row for; then those still to publish

vars == <<date, late, mark, stored, link, clustered, published, created, dropped,
          pc, since, left, events, records, fresh>>
provider == <<date, late>>
tables == <<mark, stored, link, clustered, published, created, dropped>>
batch == <<since, left, events, records, fresh>>

PCs == {"idle", "fetch", "lookup", "create", "link", "cluster", "publish", "mark"}

Posted == {i \in Items : date[i] > 0}

Init ==
  /\ date = [i \in Items |-> 0]
  /\ late = {}
  /\ mark = 0
  /\ stored = {}
  /\ link = [i \in Items |-> 0]
  /\ clustered = {}
  /\ published = {}
  /\ created = [i \in Items |-> 0]
  /\ dropped = {}
  /\ pc = [r \in Runners |-> "idle"]
  /\ since = [r \in Runners |-> 0]
  /\ left = [r \in Runners |-> {}]
  /\ events = [r \in Runners |-> {}]
  /\ records = [r \in Runners |-> {}]
  /\ fresh = [r \in Runners |-> {}]

\* Dated no later than the mark, than a mark that a run is working with, or
\* than an event that a run has been shown and may yet take for the mark.
TooLate(d) ==
  \/ d <= mark
  \/ \E r \in Runners : pc[r] # "idle" /\ (d <= since[r] \/ \E e \in events[r] : d <= date[e])

\* The provider shows its next item, whatever its date.
Post(i) ==
  /\ date[i] = 0
  /\ \A j \in 1..(i - 1) : date[j] > 0
  /\ \E d \in 1..LastDate :
       /\ date' = [date EXCEPT ![i] = d]
       /\ late' = IF TooLate(d) THEN late \cup {i} ELSE late
  /\ UNCHANGED <<tables, pc, batch>>

Goto(r, where) == pc' = [pc EXCEPT ![r] = where]

\* getState, then collect.
Begin(r) ==
  /\ pc[r] = "idle"
  /\ Goto(r, "fetch")
  /\ since' = [since EXCEPT ![r] = mark]
  /\ left' = [left EXCEPT ![r] = Targets]
  /\ events' = [events EXCEPT ![r] = {}]
  /\ records' = [records EXCEPT ![r] = {}]
  /\ fresh' = [fresh EXCEPT ![r] = {}]
  /\ UNCHANGED <<provider, tables>>

Shown(t) == {i \in Posted : TargetOf[i] = t}

\* "occurredAt <= since" is skipped, and so is what is not worth an event.
NewEvents(t, s) == {i \in Shown(t) : date[i] > s} \ Quiet
NewRecords(t, s) == IF RecordsAll THEN Shown(t) ELSE NewEvents(t, s)

\* On to the next target, or to insertMany, which returns at once on no drafts.
NextTarget(r) ==
  Goto(r, IF left'[r] # {} THEN "fetch" ELSE IF events'[r] # {} THEN "lookup" ELSE "mark")

Fetch(r, t) ==
  /\ pc[r] = "fetch" /\ t \in left[r]
  /\ left' = [left EXCEPT ![r] = @ \ {t}]
  /\ events' = [events EXCEPT ![r] = @ \cup NewEvents(t, since[r])]
  /\ records' = [records EXCEPT ![r] = @ \cup NewRecords(t, since[r])]
  /\ NextTarget(r)
  /\ UNCHANGED <<provider, tables, since, fresh>>

\* if (!response.ok) continue;
SkipTarget(r, t) ==
  /\ MayFail /\ SkipsFailed
  /\ pc[r] = "fetch" /\ t \in left[r]
  /\ left' = [left EXCEPT ![r] = @ \ {t}]
  /\ UNCHANGED <<provider, tables, since, events, records, fresh>>
  /\ NextTarget(r)

\* insertMany: which of the drafts have a row already?
Lookup(r) ==
  /\ pc[r] = "lookup"
  /\ fresh' = [fresh EXCEPT ![r] = events[r] \ stored]
  /\ Goto(r, IF events[r] \subseteq stored THEN "link" ELSE "create")
  /\ UNCHANGED <<provider, tables, since, left, events, records>>

\* createMany skips what another run has inserted meanwhile, but the drafts
\* not found before are all reported as created.
Create(r) ==
  /\ pc[r] = "create"
  /\ stored' = stored \cup fresh[r]
  /\ created' = [i \in Items |-> IF i \in fresh[r] THEN created[i] + 1 ELSE created[i]]
  /\ Goto(r, "link")
  /\ UNCHANGED <<provider, mark, link, clustered, published, dropped, batch>>

\* The place of i in a list of the items in S, newest first.
Place(i, S) == Cardinality({j \in S : j > i})

\* Mutant of EventAt: one of the two lists is oldest first.
EventAtReversed(i, evs, recs) ==
  {e \in evs : Place(e, evs) = Cardinality(recs) - 1 - Place(i, recs)}

\* The event at record i's index, if the list of events is long enough.
EventAt(i, evs, recs) == {e \in evs : Place(e, evs) = Place(i, recs)}

Used == {link[i] : i \in Items}

\* Mutant of Link: records are only written for the events reported as created.
LinkCreated(r) ==
  /\ pc[r] = "link"
  /\ link' = [i \in Items |-> IF i \in records[r] \cap fresh[r] THEN i ELSE link[i]]
  /\ Goto(r, IF fresh[r] = {} THEN "mark" ELSE "cluster")
  /\ UNCHANGED <<provider, mark, stored, clustered, published, created, dropped, batch>>

(***************************************************************************)
(* #writeRecords zips records and event ids and inserts with               *)
(* skipDuplicates; a record is unique, and so is the event it points to.   *)
(***************************************************************************)
Link(r) ==
  /\ pc[r] = "link"
  /\ link' = [i \in Items |->
       IF i \in records[r] /\ link[i] = 0 /\ EventAt(i, events[r], records[r]) \ Used # {}
       THEN CHOOSE e \in EventAt(i, events[r], records[r]) : TRUE
       ELSE link[i]]
  /\ Goto(r, IF fresh[r] = {} THEN "mark" ELSE "cluster")
  /\ UNCHANGED <<provider, mark, stored, clustered, published, created, dropped, batch>>

Newest(S) == {i \in S : \A j \in S : date[j] <= date[i]}

\* Mutant of Cluster: the candidates hold only the newest of the new events.
ClusterNewest(r) ==
  /\ pc[r] = "cluster"
  /\ clustered' = clustered \cup Newest(fresh[r])
  /\ Goto(r, "publish")
  /\ UNCHANGED <<provider, mark, stored, link, published, created, dropped, batch>>

\* The new events are taken to be among the newest 500 of the cluster window.
Cluster(r) ==
  /\ pc[r] = "cluster"
  /\ clustered' = clustered \cup fresh[r]
  /\ Goto(r, "publish")
  /\ UNCHANGED <<provider, mark, stored, link, published, created, dropped, batch>>

Publish(r) ==
  /\ pc[r] = "publish"
  /\ \E i \in fresh[r] :
       /\ published' = published \cup {i}
       /\ fresh' = [fresh EXCEPT ![r] = @ \ {i}]
       /\ Goto(r, IF fresh[r] = {i} THEN "mark" ELSE "publish")
  /\ UNCHANGED <<provider, mark, stored, link, clustered, created, dropped, since, left, events,
                 records>>

\* setState: the newest event of the run, whatever the mark is by now.
Mark(r) ==
  /\ pc[r] = "mark"
  /\ \/ events[r] = {} /\ UNCHANGED mark
     \/ \E i \in Newest(events[r]) : mark' = date[i]
  /\ Goto(r, "idle")
  /\ UNCHANGED <<provider, stored, link, clustered, published, created, dropped, batch>>

\* Mutant of Fail: the mark is set in the finally block.
FailMarking(r) ==
  /\ MayFail
  /\ pc[r] # "idle"
  /\ Goto(r, "idle")
  /\ \E i \in Newest(events[r]) : mark' = date[i]
  /\ UNCHANGED <<provider, stored, link, clustered, published, created, dropped, batch>>

\* The run fails: a request of an all-or-nothing connector, a throw, a crash.
Fail(r) ==
  /\ MayFail
  /\ pc[r] # "idle"
  /\ Goto(r, "idle")
  /\ dropped' = IF pc[r] \in {"link", "cluster", "publish"} THEN dropped \cup fresh[r] ELSE dropped
  /\ UNCHANGED <<provider, mark, stored, link, clustered, published, created, batch>>

Work(r) ==
  \/ \E t \in Targets : Fetch(r, t)
  \/ Lookup(r) \/ Create(r) \/ Link(r) \/ Cluster(r) \/ Publish(r) \/ Mark(r)

Next ==
  \/ \E i \in Items : Post(i)
  \/ \E r \in Runners : Begin(r) \/ Work(r) \/ Fail(r)
  \/ \E r \in Runners, t \in Targets : SkipTarget(r, t)

Spec == Init /\ [][Next]_vars

(***************************************************************************)
(* Fairness: the scheduler polls for ever, and an await that is reached    *)
(* again and again is answered properly in the end.  Nothing need appear.  *)
(***************************************************************************)
Fairness ==
  \A r \in Runners :
    /\ WF_vars(Begin(r))
    /\ \A t \in Targets : SF_vars(Fetch(r, t))
    /\ SF_vars(Lookup(r)) /\ SF_vars(Create(r)) /\ SF_vars(Link(r))
    /\ SF_vars(Cluster(r)) /\ SF_vars(Publish(r)) /\ SF_vars(Mark(r))

FairSpec == Spec /\ Fairness
-----------------------------------------------------------------------------
TypeOK ==
  /\ date \in [Items -> Nat] /\ late \subseteq Posted
  /\ mark \in Nat
  /\ stored \subseteq Items
  /\ link \in [Items -> Items \cup {0}]
  /\ clustered \subseteq Items /\ published \subseteq Items
  /\ created \in [Items -> Nat]
  /\ dropped \subseteq Items
  /\ pc \in [Runners -> PCs]
  /\ since \in [Runners -> Nat]
  /\ left \in [Runners -> SUBSET Targets]
  /\ events \in [Runners -> SUBSET Items]
  /\ records \in [Runners -> SUBSET Items]
  /\ fresh \in [Runners -> SUBSET Items]

\* What NoGaps takes: one request per poll, one record per event.
OneRequest == (\E t : Targets = {t}) /\ ~RecordsAll

(***************************************************************************)
(* No gaps: what lies at or below the high-water mark will never be asked  *)
(* for again, so it must be stored with its typed record.  DEPLOYMENT.md   *)
(* (344) promises it of a restarted worker.  For a connector with one      *)
(* request per poll it holds, crashes and other replicas included, but for *)
(* the late items: those whose date was no later than a mark, or than an   *)
(* event already fetched, when they appeared, which the connectors skip    *)
(* (rss.ts:294) even where they only tie with it.  Nothing else is ever    *)
(* missing.  The run collect_gap_targets shows that a connector with       *)
(* several requests also loses what appeared in time.                      *)
(***************************************************************************)
NoGaps ==
  \A i \in Posted \ (Quiet \cup late) : date[i] <= mark => i \in stored /\ link[i] = i

\* scheduler.ts:231, the mark is "the newest event we actually stored", even
\* when replicas overwrite each other's marks.
MarkIsStored == mark > 0 => \E i \in stored : date[i] = mark

\* A typed record points to its own event: the positional zip never shifts.
RecordsMatchEvents == \A i \in Items : link[i] \in {0, i}

\* Whatever fails on the way, every item that appears in time is stored in
\* the end, with its record.
EventuallyStored ==
  \A i \in Items \ Quiet : date[i] > 0 ~> (i \in stored /\ link[i] = i) \/ i \in late

(***************************************************************************)
(* Clustering and the live push are done for what a run was told it        *)
(* created, and no later poll is told so again.  A stored event without    *)
(* them is in the hands of a run that will see to it, or went down with a  *)
(* run that failed between the insert and the end of its work.             *)
(***************************************************************************)
Held(phases) == UNION {fresh[r] : r \in {q \in Runners : pc[q] \in phases}}
CreatedAreHandled ==
  /\ stored \ clustered \subseteq dropped \cup Held({"link", "cluster"})
  /\ stored \ published \subseteq dropped \cup Held({"link", "cluster", "publish"})
=============================================================================
