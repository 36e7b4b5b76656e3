---------------------------- MODULE MCRealtimeBus ----------------------------
(***************************************************************************)
(* A small instance of RealtimeBus, with three streams, so that one can    *)
(* orphan a second, which then tears down the connection of the third; and *)
(* of the other thing that is kept in Redis, the Cache, or else in memory, *)
(* with room for one of two keys.  One of the two at a time.               *)
(***************************************************************************)
EXTENDS RealtimeBus, Cache

VARIABLE exercised   \* "bus" or "cache"

allVars == <<vars, cacheVars, exercised>>

BusStep(A) == exercised = "bus" /\ A /\ UNCHANGED <<cacheVars, exercised>>
CacheStep(A) == exercised = "cache" /\ A /\ UNCHANGED <<vars, exercised>>

MCInit ==
  /\ Init /\ CacheInit
  /\ \/ exercised = "bus" /\ ~redis
     \/ exercised = "cache"
MCNext == BusStep(Next) \/ CacheStep(CacheNext)

\* The fairness of RealtimeBus, and that of Cache.
MCFairness ==
  /\ \A s \in Streams : /\ WF_allVars(BusStep(Subscribe(s))) /\ WF_allVars(BusStep(AbortEvent(s)))
                        /\ WF_allVars(BusStep(CleanUp(s)))
  /\ \A c \in Caller : WF_allVars(CacheStep(Proceeds(c)))

MCSpec == MCInit /\ [][MCNext]_allVars /\ MCFairness

\* event-stream route, cache.ts: LeaversCleanUp of every stream and
\* CallersReturn of every caller: nobody waits for a connection, a flight or a
\* clean-up for ever.
NobodyWaitsForever == LeaversCleanUp /\ CallersReturn
=============================================================================
