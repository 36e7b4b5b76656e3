------------------------------ MODULE MCAlerts ------------------------------
(***************************************************************************)
(* What becomes of an event: the passes that have it judged (Enrichment),  *)
(* and alerts.process on what was judged (AlertEngine), one of the two at  *)
(* a time: Enrichment knows of the other that it completes or throws, and  *)
(* AlertEngine starts from any signal at any time.                         *)
(***************************************************************************)
EXTENDS AlertEngine, Enrichment, TLC

VARIABLE exercised   \* "alerts" or "passes"

MCInit ==
  /\ Init /\ EnrichmentInit
  /\ exercised \in {"alerts", "passes"}
  /\ exercised = "passes" => \A a \in Alerts : row[a].cooldown = 0

MCNext ==
  \/ exercised = "alerts" /\ Next /\ UNCHANGED <<enrichmentVars, exercised>>
  \/ exercised = "passes" /\ EnrichmentNext /\ UNCHANGED <<vars, exercised>>

MCSpec == MCInit /\ [][MCNext]_<<vars, enrichmentVars, exercised>>

\* Processors are alike, pools are if they are named like them, and so are channels.
Symmetry == Permutations(Processors) \cup Permutations(Channels)
=============================================================================
