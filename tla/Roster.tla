------------------------------- MODULE Roster -------------------------------
(* The watchlist and the coins it brings in (watchlist-repository.ts,         *)
(* coin-repository.ts, api/coins/route.ts).  Requests run concurrently and    *)
(* interleave at every statement; a request adds a coin in three of them:     *)
(* look it up (and import it), read the last position, write the item.        *)
EXTENDS Integers, FiniteSets, FiniteSetsExt, Functions

CONSTANTS
  Coin,         \* coins, each the upstream record that its slug names
  Rank,         \* their market-cap ranks
  Request,      \* requests that add coins
  PollLimit,    \* how many coins the scheduler polls
  MaxPosition   \* bound: no coin is added behind this position

ASSUME RosterAssumption ==
  /\ \A c, d \in Coin : Rank[c] \in Nat /\ (Rank[c] = Rank[d] => c = d)
  /\ IsFiniteSet(Coin) /\ PollLimit \in Nat /\ MaxPosition \in Nat

VARIABLES
  coins,   \* rows of Coin: what was ever imported
  items,   \* rows of WatchlistItem: [pinned, position] by coin
  adds,    \* requests: [phase, coin, last]
  seen     \* history: listed when the request read, and not moved since

rosterVars == <<coins, items, adds, seen>>

Listed == DOMAIN items
Positions == {items[c].position : c \in Listed}

Adding == [phase : {"idle", "importing", "reading", "writing"}, coin : Coin, last : -1..MaxPosition]
Idle == [phase |-> "idle", coin |-> CHOOSE c \in Coin : TRUE, last |-> -1]

RosterTypeOK ==
  /\ coins \subseteq Coin /\ Listed \subseteq coins
  /\ \A c \in Listed : items[c] \in [pinned : BOOLEAN, position : Nat]
  /\ adds \in [Request -> Adding] /\ seen \in [Request -> SUBSET Coin]

RosterInit ==
  /\ coins \in {{c} : c \in Coin} /\ items = <<>>
  /\ adds = [r \in Request |-> Idle] /\ seen = [r \in Request |-> {}]

Goes(r, phase) == adds' = [adds EXCEPT ![r].phase = phase]

\* The response is sent.
Ends(r) == adds' = [adds EXCEPT ![r] = Idle] /\ seen' = [seen EXCEPT ![r] = {}]

\* Coins that were moved or removed are no longer where a request saw them.
Forget(moved) == seen' = [r \in Request |-> seen[r] \ moved]

\* POST: findByIdentifiers finds the coin here or it is discovered upstream.
Lookup(r, c) ==
  /\ adds[r].phase = "idle"
  /\ adds' = [adds EXCEPT ![r] = [phase |-> IF c \in coins THEN "reading" ELSE "importing", coin |-> c, last |-> -1]]
  /\ UNCHANGED <<coins, items, seen>>

\* The search finds nothing, or fails, which is the same to it.
NotFound(r) ==
  adds[r].phase = "importing" /\ Ends(r) /\ UNCHANGED <<coins, items>>

\* upsert finds first and creates then (it includes relations), so of two that
\* import a coin at once one may fail on the unique slug.
Import(r) ==
  /\ adds[r].phase = "importing"
  /\ coins' = coins \union {adds[r].coin}
  /\ (Goes(r, "reading") /\ UNCHANGED seen) \/ (adds[r].coin \in coins /\ Ends(r))
  /\ UNCHANGED items

\* Mutant of ReadLast: the number of items is taken for the last position.
ReadLastCounting(r) ==
  /\ adds[r].phase = "reading" /\ Positions \subseteq 0..(MaxPosition - 1)
  /\ adds' = [adds EXCEPT ![r].phase = "writing", ![r].last = Cardinality(Listed) - 1]
  /\ seen' = [seen EXCEPT ![r] = Listed]
  /\ UNCHANGED <<coins, items>>

\* addCoin: the last position of the list, before the item is written.
ReadLast(r) ==
  /\ adds[r].phase = "reading" /\ Positions \subseteq 0..(MaxPosition - 1)
  /\ adds' = [adds EXCEPT ![r].phase = "writing", ![r].last = Max(Positions \union {-1})]
  /\ seen' = [seen EXCEPT ![r] = Listed]
  /\ UNCHANGED <<coins, items>>

\* addCoin: a coin that is listed already stays where it is.
Write(r) ==
  /\ adds[r].phase = "writing"
  /\ items' = [c \in Listed \union {adds[r].coin} |->
                 IF c \in Listed THEN items[c] ELSE [pinned |-> FALSE, position |-> adds[r].last + 1]]
  /\ Ends(r) /\ UNCHANGED coins

\* DELETE: the coin and its history stay.
RemoveCoin(c) ==
  /\ c \in Listed
  /\ items' = [d \in Listed \ {c} |-> items[d]]
  /\ Forget({c}) /\ UNCHANGED <<coins, adds>>

\* PATCH, action pin.
SetPinned(c, pinned) ==
  /\ c \in Listed
  /\ items' = [items EXCEPT ![c].pinned = pinned]
  /\ UNCHANGED <<coins, adds, seen>>

\* What the caller last showed: some of the coins, in whatever order.
Orders == UNION {{order \in [1..n -> Coin] : IsInjective(order)} : n \in 1..Cardinality(Coin)}

\* PATCH, action reorder: one transaction over the coins the caller names.
Reorder(order) ==
  /\ items' = [c \in Listed |->
                 IF c \in Range(order)
                 THEN [pinned |-> items[c].pinned, position |-> (CHOOSE n \in DOMAIN order : order[n] = c) - 1]
                 ELSE items[c]]
  /\ Forget(Range(order)) /\ UNCHANGED <<coins, adds>>

RosterNext ==
  \/ \E r \in Request : \/ \E c \in Coin : Lookup(r, c)
                        \/ NotFound(r) \/ Import(r) \/ ReadLast(r) \/ Write(r)
  \/ \E c \in Coin : RemoveCoin(c) \/ \E pinned \in BOOLEAN : SetPinned(c, pinned)
  \/ \E order \in Orders : Reorder(order)

RosterSpec == RosterInit /\ [][RosterNext]_rosterVars

\* listItems: what the terminal shows, the pinned ones first.
ShownBefore(c, d) ==
  \/ items[c].pinned /\ ~items[d].pinned
  \/ items[c].pinned = items[d].pinned /\ items[c].position < items[d].position

\* listTracked: what the scheduler polls, the pinned ones first, then the
\* listed, then by rank.
Tier(c) == IF c \notin Listed THEN 2 ELSE IF items[c].pinned THEN 0 ELSE 1
PolledBefore(c, d) == Tier(c) < Tier(d) \/ (Tier(c) = Tier(d) /\ Rank[c] < Rank[d])
ListTracked == {c \in coins : Cardinality({d \in coins : PolledBefore(d, c)}) < PollLimit}

------------------------------------------------------------------------------
\* watchlist-repository.ts:85 "Append at the end of the list": whatever other
\* requests did since the last position was read, an add leaves the listed
\* coins where they are, its own included, and is shown behind every coin that
\* it saw and that was not moved.  (Two adds at once may share a position.)
AddsAppend ==
  [][\A r \in Request, coin \in Coin :
       (adds[r].phase = "writing" /\ adds'[r].phase = "idle" /\ adds[r].coin = coin) =>
         /\ coin \in DOMAIN items'
         /\ \A c \in Listed : c \in DOMAIN items' /\ items'[c] = items[c]
         /\ coin \notin Listed => \A c \in seen[r] \intersect Listed : ShownBefore(c, coin)']_rosterVars

\* coin-repository.ts:281: while the scheduler leaves out a coin the user
\* watches, it polls no coin that is watched less, and it leaves out one only
\* when it polls as many as it may.
WatchedPolledFirst ==
  \A c \in Listed \ ListTracked :
    Cardinality(ListTracked) = PollLimit /\ \A d \in ListTracked : d \in Listed /\ Tier(d) <= Tier(c)

\* watchlist-repository.ts, coin-repository.ts: WatchedPolledFirst at all times,
\* and AddsAppend of every step.
RosterSound == [](RosterTypeOK /\ WatchedPolledFirst) /\ AddsAppend
=============================================================================
