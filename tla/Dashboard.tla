------------------------------ MODULE Dashboard ------------------------------
(* The timeline of the terminal (apps/web/src/components/terminal.tsx): the   *)
(* list it shows is fed by answers to queries, which arrive in any order or   *)
(* not at all, and by frames of the live stream.  The server answers from the *)
(* events stored at that moment: the queries of the event repository          *)
(* (packages/db/src/repositories/event-repository.ts) behind the route        *)
(* (apps/web/src/app/api/timeline/route.ts).  A publication reaches the       *)
(* browser or is lost with the connection (module LiveStream).  An event is a *)
(* number; its columns are constant functions.                                *)
EXTENDS Naturals, FiniteSets, SequencesExt

CONSTANTS
  Event,         \* the events that can be stored, positive integers (the ids)
  OccurredAt,    \* their occurredAt, possibly equal for several
  CoinOf,        \* the column the coin, category and importance filters read
  ClusterOf,     \* the cluster ingestion will assign
  Mentioning,    \* the events whose headline or body contains the query
  None,          \* null
  Backlogs,      \* the sets of events that may be stored when the page is rendered
  Filters,       \* the filters the user may set; the first render has NoFilter
  PageSize,      \* limit=60
  Cap,           \* the list is cut to 400 rows when a frame arrives
  MaxRequests,   \* bound: queries in flight
  MaxRefreshes   \* bound: first pages asked for by the user

NoFilter == [coin |-> None, query |-> FALSE]

ASSUME EventAssumption ==
  Event \subseteq Nat \ {0} /\ None \notin Event /\ OccurredAt \in [Event -> Nat]

ASSUME DashboardAssumption ==
  /\ PageSize \in Nat \ {0} /\ Cap \in Nat /\ PageSize <= Cap
  /\ NoFilter \in Filters /\ \A backlog \in Backlogs : backlog \subseteq Event /\ IsFiniteSet(backlog)

------------------------------------------------------------------------------
\* The server.  The clusters set so far are a parameter, because ingestion assigns
\* them after it has stored an event.

\* orderBy occurredAt desc, id desc
Newer(a, b) == \/ OccurredAt[a] > OccurredAt[b]
               \/ OccurredAt[a] = OccurredAt[b] /\ a > b

\* How far down a row stands among all rows, from 1.
Place(r, rows) == Cardinality({s \in rows : ~Newer(r, s)})

InOrder(rows) == [i \in 1..Cardinality(rows) |-> CHOOSE r \in rows : Place(r, rows) = i]

\* The newest n of a set of rows.
Take(rows, n) == {r \in rows : Place(r, rows) <= n}

\* A filter is [coin |-> a coin or None, query |-> is there a text query].
\* `where`: the cursor's OR is spread after the query's OR and replaces it.
Where(rows, filter, cursor) ==
  {r \in rows : /\ filter.coin = None \/ CoinOf[r] = filter.coin
                /\ filter.query /\ cursor = None => r \in Mentioning
                /\ cursor # None => Newer(cursor, r)}

\* A row is dropped when one before it on the page has its cluster.
Collapse(page, clustered) ==
  {r \in page : r \in clustered => \A q \in page \intersect clustered : Newer(q, r) => ClusterOf[q] # ClusterOf[r]}

\* Mutant of Page: the cursor is the row fetched beyond the page.
PageOffByOne(rows, clustered, filter, cursor, limit) ==
  LET fetched == Take(Where(rows, filter, cursor), limit + 1)
      hasMore == Cardinality(fetched) > limit
  IN  [items |-> Collapse(IF hasMore THEN Take(fetched, limit) ELSE fetched, clustered),
       next  |-> IF hasMore THEN CHOOSE r \in fetched : Place(r, fetched) = limit + 1 ELSE None]

\* timeline(): one row more than the limit tells whether another page exists;
\* the cursor is the last raw row of the page, collapsed or not.
Page(rows, clustered, filter, cursor, limit) ==
  LET fetched == Take(Where(rows, filter, cursor), limit + 1)
      hasMore == Cardinality(fetched) > limit
  IN  [items |-> Collapse(IF hasMore THEN Take(fetched, limit) ELSE fetched, clustered),
       next  |-> IF hasMore THEN CHOOSE r \in fetched : Place(r, fetched) = limit ELSE None]

------------------------------------------------------------------------------
VARIABLES
  stored, clustered, published,   \* the server: events stored, with a cluster, sent to the stream
  filters,     \* the filter bar
  events,      \* the list on the screen
  cursor,      \* where the next page starts, None at the end
  loadingMore,
  requests,    \* queries in flight: [first, filters, from, answer]
  refreshes,   \* first pages asked for, to bound them
  base         \* history: the filter and the rows stored when the list's first
               \* page was read, and whether the list was kept free of holes since

serverVars == <<stored, clustered, published>>
listVars == <<events, cursor, base>>
vars == <<stored, clustered, published, filters, events, cursor, loadingMore,
          requests, refreshes, base>>

Unanswered == [items |-> {}, next |-> None, rows |-> {}, known |-> FALSE]

\* A query whose answer is not read yet.
Ask(first, filter, from) == [first |-> first, filters |-> filter, from |-> from, answer |-> Unanswered]

\* The page is rendered on the server with the first page of the timeline.
Init ==
  /\ stored \in Backlogs /\ clustered \in {{}, stored} /\ published = stored
  /\ filters = NoFilter /\ loadingMore = FALSE /\ requests = {} /\ refreshes = 0
  /\ LET page == Page(stored, clustered, NoFilter, None, PageSize)
     IN  events = InOrder(page.items) /\ cursor = page.next
  /\ base = [filters |-> NoFilter, rows |-> stored, whole |-> TRUE]

------------------------------------------------------------------------------
(* The server: ingestion stores an event, assigns its cluster and publishes   *)
(* it; an event may occur long before it is stored.                           *)
Store(e) ==
  /\ e \notin stored /\ stored' = stored \union {e}
  /\ UNCHANGED <<clustered, published, filters, loadingMore, requests, refreshes, listVars>>

SetCluster(e) ==
  /\ e \in stored \ (clustered \union published) /\ clustered' = clustered \union {e}
  /\ UNCHANGED <<stored, published, filters, loadingMore, requests, refreshes, listVars>>

\* The query of a request is executed.
Answer(request) ==
  /\ ~request.answer.known
  /\ LET page == Page(stored, clustered, request.filters, request.from, PageSize)
         answer == [items |-> page.items, next |-> page.next, rows |-> stored, known |-> TRUE]
     IN  requests' = (requests \ {request}) \union {[request EXCEPT !.answer = answer]}
  /\ UNCHANGED <<serverVars, filters, loadingMore, refreshes, listVars>>

------------------------------------------------------------------------------
(* The stream: a live event is put first, whatever the filters, and the list  *)
(* is cut; a publication finds the browser connected or is lost.              *)
OnEvent(e) ==
  LET longer == <<e>> \o events IN
  IF e \in ToSet(events) THEN UNCHANGED listVars
  ELSE /\ events' = SubSeq(longer, 1, IF Cap < Len(longer) THEN Cap ELSE Len(longer))
       /\ base' = [base EXCEPT !.whole = @ /\ Len(longer) <= Cap]
       /\ UNCHANGED cursor

Publish(e) ==
  /\ e \in stored \ published /\ published' = published \union {e}
  /\ OnEvent(e) \/ UNCHANGED listVars
  /\ UNCHANGED <<stored, clustered, filters, loadingMore, requests, refreshes>>

------------------------------------------------------------------------------
(* The user.  Nothing cancels a query in flight.                              *)
Refresh(filter) ==
  /\ refreshes < MaxRefreshes /\ Cardinality(requests) < MaxRequests
  /\ Ask(TRUE, filter, None) \notin requests
  /\ requests' = requests \union {Ask(TRUE, filter, None)}
  /\ refreshes' = refreshes + 1

\* Every change of the filters re-queries with the new ones.
ChangeFilters(filter) ==
  /\ filter # filters /\ filters' = filter /\ Refresh(filter)
  /\ UNCHANGED <<serverVars, loadingMore, listVars>>

\* The key handler is bound once, so its refresh is the one of the first render.
PressR ==
  /\ Refresh(NoFilter)
  /\ UNCHANGED <<serverVars, filters, loadingMore, listVars>>

LoadMore ==
  /\ cursor # None /\ ~loadingMore /\ Cardinality(requests) < MaxRequests
  /\ loadingMore' = TRUE
  /\ requests' = requests \union {Ask(FALSE, filters, cursor)}
  /\ UNCHANGED <<serverVars, filters, refreshes, listVars>>

\* The answer to a first page replaces the list and its cursor; a next page in
\* flight then belongs to the list before.
Replaced(request) ==
  /\ events' = InOrder(request.answer.items) /\ cursor' = request.answer.next
  /\ base' = [filters |-> request.filters, rows |-> request.answer.rows, whole |-> ~loadingMore]
  /\ UNCHANGED loadingMore

\* Mutant of Appended: loadMore appends the page as it is.
AppendedUnfiltered(request) ==
  /\ events' = events \o InOrder(request.answer.items)
  /\ cursor' = request.answer.next
  /\ base' = [base EXCEPT !.whole = @ /\ request.filters = base.filters]
  /\ loadingMore' = FALSE

\* The rows not listed yet are appended.  A page under other filters than the
\* list's leaves the list no longer known to be whole.
Appended(request) ==
  /\ events' = events \o InOrder(request.answer.items \ ToSet(events))
  /\ cursor' = request.answer.next
  /\ base' = [base EXCEPT !.whole = @ /\ request.filters = base.filters]
  /\ loadingMore' = FALSE

Arrive(request) ==
  /\ request.answer.known /\ requests' = requests \ {request}
  /\ IF request.first THEN Replaced(request) ELSE Appended(request)
  /\ UNCHANGED <<serverVars, filters, refreshes>>

\* Mutant of Fail: loadMore resets its flag after the answer instead of in finally.
FailLoading(request) ==
  /\ requests' = requests \ {request} /\ UNCHANGED loadingMore
  /\ UNCHANGED <<serverVars, filters, refreshes, listVars>>

\* apiGet throws: the list stays, and only loadMore has something to reset.
Fail(request) ==
  /\ requests' = requests \ {request}
  /\ loadingMore' = (loadingMore /\ request.first)
  /\ UNCHANGED <<serverVars, filters, refreshes, listVars>>

Next == \/ \E e \in Event : Store(e) \/ SetCluster(e) \/ Publish(e)
        \/ \E filter \in Filters : ChangeFilters(filter)
        \/ PressR \/ LoadMore
        \/ \E request \in requests : Answer(request) \/ Arrive(request) \/ Fail(request)

Spec == Init /\ [][Next]_vars

\* A reader at the end of a list that goes on scrolls; a next page that is asked
\* for again and again is answered, and an answer that comes again and again
\* arrives, some time; a first page arrives or fails.
Fairness ==
  /\ WF_vars(LoadMore)
  /\ SF_vars(\E request \in requests : ~request.first /\ Answer(request))
  /\ SF_vars(\E request \in requests : ~request.first /\ Arrive(request))
  /\ WF_vars(\E request \in requests : request.first /\ (Arrive(request) \/ Fail(request)))

FairSpec == Spec /\ Fairness

------------------------------------------------------------------------------
TypeOK ==
  /\ stored \subseteq Event /\ clustered \subseteq stored /\ published \subseteq stored
  /\ filters \in Filters /\ ToSet(events) \subseteq Event /\ cursor \in Event \union {None}
  /\ loadingMore \in BOOLEAN /\ refreshes \in 0..MaxRefreshes

\* terminal.tsx: no event is listed twice, although the same one can come with
\* a first page, with a later page and as a live frame, in any order (React
\* keys the rows by id).
NoDuplicateRows == \A i, j \in 1..Len(events) : events[i] = events[j] => i = j

\* r is on the screen, or collapsed into a row of its cluster that is.
Represented(r) ==
  \E e \in ToSet(events) : e = r \/ (r \in clustered /\ ClusterOf[e] = ClusterOf[r])

\* terminal.tsx, event-repository.ts: every event that was stored when the
\* list's first page was read, that its filter admits and that is not older
\* than where the next page starts is represented, unless the list was cut, was
\* replaced under a page being loaded, or got a page of other filters.
NoHoles ==
  base.whole =>
    \A r \in Where(base.rows, base.filters, None) :
      (cursor = None \/ ~Newer(cursor, r)) => Represented(r)

\* terminal.tsx: a reader who keeps loading more reaches the end of the list,
\* unless the user keeps starting it anew.
EndReached == []<>(cursor = None)
=============================================================================
