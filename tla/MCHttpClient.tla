---------------------------- MODULE MCHttpClient ----------------------------
(* HttpClient with its circuit breaker, and what a connector's polls over it  *)
(* do to the tables (Collection), one of them at a time: to a poll a request  *)
(* answers or fails, and by CallsReturn it does one of the two.               *)
(*                                                                            *)
(* Two concurrent calls are enough for a report to arrive late; every         *)
(* cooldown doubles once before its cap.                                      *)
EXTENDS HttpClient

CONSTANTS Runner

VARIABLES
  exercised,   \* "calls" or "polls"
  date, late, mark, stored, link, clustered, published, created, dropped, pc, since, left, events, records, fresh

Polls == INSTANCE Collection
  WITH Runners <- {Runner}, Targets <- {"t1"}, LastItem <- 3, TargetOf <- [i \in 1..3 |-> "t1"], SkipsFailed <- TRUE,
       LastDate <- 2, Quiet <- {}, RecordsAll <- FALSE, MayFail <- TRUE

pollVars == <<date, late, mark, stored, link, clustered, published, created, dropped, pc, since, left, events, records, fresh>>
allVars == <<vars, pollVars, exercised>>

Called(A) == exercised = "calls" /\ A /\ UNCHANGED <<pollVars, exercised>>
Polled(A) == exercised = "polls" /\ A /\ UNCHANGED <<vars, exercised>>

MCInit == Init /\ Polls!Init /\ exercised \in {"calls", "polls"}
MCNext == Called(Next) \/ Polled(Polls!Next)

\* The fairness of HttpClient, and that of Collection.
MCFairness ==
  /\ \A r \in Requests : WF_allVars(Called(Progress(r))) /\ WF_allVars(Called(Admit(r)))
  /\ WF_allVars(Called(Tick))
  /\ WF_allVars(Polled(Polls!Begin(Runner))) /\ SF_allVars(Polled(Polls!Fetch(Runner, "t1")))
  /\ SF_allVars(Polled(Polls!Lookup(Runner))) /\ SF_allVars(Polled(Polls!Create(Runner)))
  /\ SF_allVars(Polled(Polls!Link(Runner))) /\ SF_allVars(Polled(Polls!Cluster(Runner)))
  /\ SF_allVars(Polled(Polls!Publish(Runner))) /\ SF_allVars(Polled(Polls!Mark(Runner)))

MCSpec == MCInit /\ [][MCNext]_allVars /\ MCFairness

\* ingestion.ts, scheduler.ts: whatever fails on the way, every item that
\* appears at the provider in time is stored in the end, with its record.
EventuallyStored == Polls!EventuallyStored
=============================================================================
