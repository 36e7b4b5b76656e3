------------------------------- MODULE Delivery ------------------------------
(***************************************************************************)
(* What the alert runtime promises, without batches, rows or awaits: an    *)
(* alert fires only off its cooldown and never once it is gone, a firing   *)
(* is owed from then until all that became of it is on record or it is     *)
(* given up, it reaches a channel only while it is owed, and nothing is    *)
(* recorded before every channel was tried.  AlertEngine implements it     *)
(* (ImplementsDelivery).                                                   *)
(***************************************************************************)
EXTENDS Integers, Sequences

CONSTANTS Alert, Channel, Time, Cooldown

VARIABLES
  history,   \* per alert, its firings: when, and under which cooldown
  owed,      \* the firings <<a, n>> that somebody still has to see through
  sent,      \* <<a, n, ch>>: alert a's n-th firing was sent to channel ch
  recorded,  \* likewise, for what is on record of it
  lost,      \* the firings given up
  gone       \* the alerts deleted

vars == <<history, owed, sent, recorded, lost, gone>>

Init ==
  /\ history = [a \in Alert |-> <<>>]
  /\ owed = {} /\ sent = {} /\ recorded = {} /\ lost = {} /\ gone = {}

OffCooldown(a, t, c) ==
  \/ c = 0
  \/ history[a] = <<>>
  \/ t - history[a][Len(history[a])].at > c

Fire(a) ==
  /\ a \notin gone
  /\ \E t \in Time, c \in Cooldown :
       /\ OffCooldown(a, t, c)
       /\ history' = [history EXCEPT ![a] = Append(@, [at |-> t, cooldown |-> c])]
  /\ owed' = owed \cup {<<a, Len(history[a]) + 1>>}
  /\ UNCHANGED <<sent, recorded, lost, gone>>

Send(a, n, ch) ==
  /\ <<a, n>> \in owed
  /\ sent' = sent \cup {<<a, n, ch>>}
  /\ UNCHANGED <<history, owed, recorded, lost, gone>>

\* The last record settles the firing.
Record(a, n, ch) ==
  /\ <<a, n>> \in owed
  /\ a \notin gone
  /\ \A c \in Channel : <<a, n, c>> \in sent
  /\ <<a, n, ch>> \notin recorded
  /\ recorded' = recorded \cup {<<a, n, ch>>}
  /\ owed' = IF \A c \in Channel : <<a, n, c>> \in recorded' THEN owed \ {<<a, n>>} ELSE owed
  /\ UNCHANGED <<history, sent, lost, gone>>

Lose(a, n) ==
  /\ <<a, n>> \in owed
  /\ owed' = owed \ {<<a, n>>}
  /\ lost' = lost \cup {<<a, n>>}
  /\ UNCHANGED <<history, sent, recorded, gone>>

\* The records of a deleted alert go with it; what is owed of it stays owed.
Delete(a) ==
  /\ a \notin gone
  /\ gone' = gone \cup {a}
  /\ recorded' = {d \in recorded : d[1] # a}
  /\ UNCHANGED <<history, owed, sent, lost>>

See(a, n) == Lose(a, n) \/ \E ch \in Channel : Send(a, n, ch) \/ Record(a, n, ch)

Next ==
  \E a \in Alert : Fire(a) \/ Delete(a) \/ \E n \in DOMAIN history[a] : See(a, n)

Spec == Init /\ [][Next]_vars
=============================================================================
