------------------------------ MODULE Polling -------------------------------
(***************************************************************************)
(* What the scheduler promises of one connector, without timers, flags or  *)
(* awaits: nothing runs before it is opened, runs follow one another and   *)
(* never overlap, and once it is halted the run in progress may end but no *)
(* further one begins.  Scheduler implements it (ImplementsPolling).       *)
(***************************************************************************)

CONSTANT Run   \* identities of runs, used again once they are over

VARIABLES
  phase,    \* "closed" -> "open" -> "halted"
  active    \* the runs in progress: none or one

vars == <<phase, active>>

Init == phase = "closed" /\ active = {}

Open == phase = "closed" /\ phase' = "open" /\ UNCHANGED active

Begin(r) ==
  /\ phase = "open"
  /\ active = {}
  /\ active' = {r}
  /\ UNCHANGED phase

End(r) ==
  /\ active = {r}
  /\ active' = {}
  /\ UNCHANGED phase

Halt == phase = "open" /\ phase' = "halted" /\ UNCHANGED active

Next == Open \/ Halt \/ \E r \in Run : Begin(r) \/ End(r)

Spec == Init /\ [][Next]_vars
=============================================================================
