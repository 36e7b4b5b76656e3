---------------------------- MODULE MCCollection ----------------------------
(***************************************************************************)
(* Small instances of Collection: two replicas and one request per poll    *)
(* for safety, two requests where an item may appear between them; and of  *)
(* the limiter that paces the replicas' requests, which only delays or     *)
(* fails them, with time enough for an entry of Redis to expire.  One of   *)
(* the two at a time.                                                      *)
(***************************************************************************)
EXTENDS Collection, RateLimiter, TLC

\* All items under one target, or item 2 under a target of its own.
OneTarget == [i \in Items |-> "t1"]
TwoTargets == [i \in Items |-> IF i = 2 THEN "t2" ELSE "t1"]

VARIABLE exercised   \* "polls" or "limiter"

MCInit ==
  /\ Init /\ LimiterInit
  /\ exercised \in {"polls", "limiter"}
  /\ exercised = "polls" => shared

MCNext ==
  \/ exercised = "polls" /\ Next /\ UNCHANGED <<limiterVars, exercised>>
  \/ exercised = "limiter" /\ LimiterNext /\ UNCHANGED <<vars, exercised>>

MCSpec == MCInit /\ [][MCNext]_<<vars, limiterVars, exercised>>

\* Replicas are alike, and so are callers.
Symmetry == Permutations(Runners)
=============================================================================
