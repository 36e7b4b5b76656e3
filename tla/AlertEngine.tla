----------------------------- MODULE AlertEngine ----------------------------
(***************************************************************************)
(* The alert runtime and the claim that guards it: AlertEngine.process and *)
(* processMany, AlertRepository.recordTrigger, the dispatcher, and the     *)
(* user who edits and deletes alerts meanwhile.                            *)
(*                                                                         *)
(* A processor is one processMany batch in progress: a market or unlock    *)
(* tick (which may overlap the previous one), an enrichment worker, or any *)
(* of these in another worker replica.  It captures "now" once, lists the  *)
(* enabled alerts per signal, and claims the matches one by one:           *)
(*                                                                         *)
(*   idle -> list -> (claim -> commit -> dispatch -> record -> publish)*   *)
(*        -> next -> list | idle                                           *)
(*                                                                         *)
(* Which rules match a signal is left open.  The database runs at read     *)
(* committed: the transaction's read and its conditional update are two    *)
(* steps, the update and the insert of the trigger row commit together.    *)
(* Abandon is a database error, or a crash of the processor's replica.     *)
(***************************************************************************)
EXTENDS Integers, Sequences, FiniteSets

CONSTANTS
  Processors,
  Alerts,
  Channels,      \* alert.channels, the same for every alert
  Cooldowns,     \* values of cooldownSeconds a user may set
  Horizon,       \* bound: the clock stops here
  MaxFirings,    \* bound: firings of one alert
  MayAbandon,    \* whether awaits can throw and replicas crash
  NoAlert

ASSUME AlertAssumption ==
  /\ Cooldowns \subseteq Nat
  /\ Horizon \in Nat /\ MaxFirings \in Nat
  /\ MayAbandon \in BOOLEAN
  /\ NoAlert \notin Alerts

VARIABLES
  clock,
  row,       \* row[a]: the Alert row: exists, enabled, cooldown, last, count
  rows,      \* rows[a]: how many AlertTrigger rows reference alert a
  deliveries,\* the NotificationDelivery rows, as <<alert, its n-th firing, channel>>
  firings,   \* ghost: firings[a], every committed claim of a, in commit order
  attempts,  \* ghost: what was handed to a notifier, as in deliveries
  lost,      \* ghost: the firings, as <<alert, n-th>>, whose processor threw on them
  pc, now,   \* per processor: the await it stands at, the captured time
  todo,      \* outcomes of evaluateAlerts still to claim
  cur,       \* the alert being handled
  read,      \* the cooldown its transaction read
  mine       \* which of its firings is being delivered

vars == <<clock, row, rows, deliveries, firings, attempts, lost, pc, now, todo, cur, read, mine>>
database == <<row, rows, deliveries, firings, attempts, lost>>

Never == -1     \* lastTriggeredAt = null

\* The awaits at which one outcome is being handled.
Handling == {"commit", "dispatch", "record", "publish"}
PCs == {"idle", "list", "claim", "next"} \cup Handling

Init ==
  /\ clock = 0
  /\ row \in [Alerts -> [exists: {TRUE}, enabled: {TRUE}, cooldown: Cooldowns,
                         last: {Never}, count: {0}]]
  /\ rows = [a \in Alerts |-> 0]
  /\ deliveries = {}
  /\ firings = [a \in Alerts |-> <<>>]
  /\ attempts = {}
  /\ lost = {}
  /\ pc = [p \in Processors |-> "idle"]
  /\ now = [p \in Processors |-> 0]
  /\ todo = [p \in Processors |-> {}]
  /\ cur = [p \in Processors |-> NoAlert]
  /\ read = [p \in Processors |-> 0]
  /\ mine = [p \in Processors |-> 0]

\* process(signal, now = new Date()), or processMany.
Begin(p) ==
  /\ pc[p] = "idle"
  /\ pc' = [pc EXCEPT ![p] = "list"]
  /\ now' = [now EXCEPT ![p] = clock]
  /\ UNCHANGED <<clock, database, todo, cur, read, mine>>

InCooldown(a, t) ==
  /\ row[a].last # Never /\ row[a].cooldown > 0
  /\ t - row[a].last < row[a].cooldown

\* listEnabled and evaluateAlerts: any of the alerts that are enabled and
\* off cooldown may match the signal.
List(p) ==
  /\ pc[p] = "list"
  /\ \E matches \in SUBSET {a \in Alerts : /\ row[a].exists /\ row[a].enabled
                                           /\ ~InCooldown(a, now[p])} :
       /\ todo' = [todo EXCEPT ![p] = matches]
       /\ pc' = [pc EXCEPT ![p] = IF matches = {} THEN "next" ELSE "claim"]
  /\ UNCHANGED <<clock, database, now, cur, read, mine>>

\* processMany takes its next signal, with the same now, or is through.
NextSignal(p) ==
  /\ pc[p] = "next"
  /\ \/ pc' = [pc EXCEPT ![p] = "list"] /\ UNCHANGED now
     \/ pc' = [pc EXCEPT ![p] = "idle"] /\ now' = [now EXCEPT ![p] = 0]
  /\ UNCHANGED <<clock, database, todo, cur, read, mine>>

\* To the next outcome of the loop, when those in left remain.
OutcomeDone(p, left) ==
  /\ pc' = [pc EXCEPT ![p] = IF left = {} THEN "next" ELSE "claim"]
  /\ cur' = [cur EXCEPT ![p] = NoAlert]
  /\ read' = [read EXCEPT ![p] = 0]
  /\ mine' = [mine EXCEPT ![p] = 0]

\* recordTrigger reads the row; a disabled or deleted alert ends the claim.
ClaimRead(p) ==
  /\ pc[p] = "claim"
  /\ \E a \in todo[p] :
       /\ todo' = [todo EXCEPT ![p] = @ \ {a}]
       /\ \/ /\ row[a].exists /\ row[a].enabled
             /\ cur' = [cur EXCEPT ![p] = a]
             /\ read' = [read EXCEPT ![p] = row[a].cooldown]
             /\ pc' = [pc EXCEPT ![p] = "commit"]
             /\ UNCHANGED mine
          \/ /\ ~(row[a].exists /\ row[a].enabled)
             /\ OutcomeDone(p, todo[p] \ {a})
  /\ UNCHANGED <<clock, database, now>>

\* Mutant of Claimable: the cooldown is only checked when the rules are evaluated.
ClaimableWhenEnabled(a, t, cooldown) == row[a].exists /\ row[a].enabled

\* The WHERE of the conditional update, with the cooldown read before it.
Claimable(a, t, cooldown) ==
  /\ row[a].exists /\ row[a].enabled
  /\ \/ cooldown = 0
     \/ row[a].last = Never
     \/ row[a].last < t - cooldown

\* Mutant of Claimed: the firing is dated but not counted.
ClaimedUncounted(r, t) == [r EXCEPT !.last = t]

Claimed(r, t) == [r EXCEPT !.last = t, !.count = @ + 1]

NewFiring(p) == [at |-> now[p], cooldown |-> read[p]]

\* The update matches and commits with its trigger row ...
ClaimWon(p) ==
  /\ pc[p] = "commit"
  /\ LET a == cur[p] IN
       /\ Len(firings[a]) < MaxFirings
       /\ Claimable(a, now[p], read[p])
       /\ row' = [row EXCEPT ![a] = Claimed(row[a], now[p])]
       /\ rows' = [rows EXCEPT ![a] = @ + 1]
       /\ firings' = [firings EXCEPT ![a] = Append(@, NewFiring(p))]
       /\ mine' = [mine EXCEPT ![p] = Len(firings[a]) + 1]
  /\ pc' = [pc EXCEPT ![p] = "dispatch"]
  /\ UNCHANGED <<clock, deliveries, attempts, lost, now, todo, cur, read>>

\* ... or matches no row, and the outcome is dropped.
ClaimLost(p) ==
  /\ pc[p] = "commit"
  /\ ~Claimable(cur[p], now[p], read[p])
  /\ OutcomeDone(p, todo[p])
  /\ UNCHANGED <<clock, database, now, todo>>

\* The channels among those of p's firing that are in a set of such triples.
ChannelsIn(table, p) == {ch \in Channels : <<cur[p], mine[p], ch>> \in table}

\* Mutant of Dispatch: one channel's answer ends the dispatch.
DispatchFirst(p) ==
  /\ pc[p] = "dispatch"
  /\ \E ch \in Channels : attempts' = attempts \cup {<<cur[p], mine[p], ch>>}
  /\ pc' = [pc EXCEPT ![p] = "record"]
  /\ UNCHANGED <<clock, row, rows, deliveries, firings, lost, now, todo, cur, read, mine>>

\* The dispatcher tries every channel, whatever the others answered ...
Dispatch(p) ==
  /\ pc[p] = "dispatch"
  /\ \E ch \in Channels \ ChannelsIn(attempts, p) :
       /\ attempts' = attempts \cup {<<cur[p], mine[p], ch>>}
       /\ pc' = [pc EXCEPT ![p] = IF Channels = ChannelsIn(attempts', p)
                                  THEN "record" ELSE "dispatch"]
  /\ UNCHANGED <<clock, row, rows, deliveries, firings, lost, now, todo, cur, read, mine>>

\* ... and only then are the outcomes written, one row after the other.
RecordDelivery(p) ==
  /\ pc[p] = "record"
  /\ row[cur[p]].exists
  /\ \E ch \in Channels \ ChannelsIn(deliveries, p) :
       /\ deliveries' = deliveries \cup {<<cur[p], mine[p], ch>>}
       /\ pc' = [pc EXCEPT ![p] = IF Channels = ChannelsIn(deliveries', p)
                                  THEN "publish" ELSE "record"]
  /\ UNCHANGED <<clock, row, rows, firings, attempts, lost, now, todo, cur, read, mine>>

Publish(p) ==
  /\ pc[p] = "publish"
  /\ OutcomeDone(p, todo[p])
  /\ UNCHANGED <<clock, database, now, todo>>

\* process throws, and with it processMany: what is left of the batch is dropped.
Throw(p) ==
  /\ lost' = IF pc[p] \in {"dispatch", "record"} THEN lost \cup {<<cur[p], mine[p]>>} ELSE lost
  /\ pc' = [pc EXCEPT ![p] = "idle"]
  /\ now' = [now EXCEPT ![p] = 0]
  /\ todo' = [todo EXCEPT ![p] = {}]
  /\ cur' = [cur EXCEPT ![p] = NoAlert]
  /\ read' = [read EXCEPT ![p] = 0]
  /\ mine' = [mine EXCEPT ![p] = 0]
  /\ UNCHANGED <<clock, row, rows, deliveries, firings, attempts>>

\* The trigger row a delivery refers to went with its alert.
RecordFails(p) ==
  /\ pc[p] = "record"
  /\ ~row[cur[p]].exists
  /\ Throw(p)

Abandon(p) ==
  /\ MayAbandon
  /\ pc[p] # "idle"
  /\ Throw(p)

\* PATCH /api/alerts
Edit(a) ==
  /\ row[a].exists
  /\ \/ \E c \in Cooldowns : row' = [row EXCEPT ![a].cooldown = c]
     \/ row' = [row EXCEPT ![a].enabled = ~@]
  /\ UNCHANGED <<clock, rows, deliveries, firings, attempts, lost, pc, now, todo, cur, read,
                 mine>>

\* DELETE /api/alerts: the foreign keys of the trigger and delivery rows
\* cascade.
Remove(a) ==
  /\ row[a].exists
  /\ row' = [row EXCEPT ![a].exists = FALSE]
  /\ rows' = [rows EXCEPT ![a] = 0]
  /\ deliveries' = {d \in deliveries : d[1] # a}
  /\ UNCHANGED <<clock, firings, attempts, lost, pc, now, todo, cur, read, mine>>

Tick ==
  /\ clock < Horizon
  /\ clock' = clock + 1
  /\ UNCHANGED <<database, pc, now, todo, cur, read, mine>>

Handle(p) ==
  \/ List(p) \/ NextSignal(p) \/ ClaimRead(p) \/ ClaimWon(p) \/ ClaimLost(p)
  \/ Dispatch(p) \/ RecordDelivery(p) \/ RecordFails(p) \/ Publish(p)

Next ==
  \/ \E p \in Processors : Begin(p) \/ Handle(p) \/ Abandon(p)
  \/ \E a \in Alerts : Edit(a) \/ Remove(a)
  \/ Tick

Spec == Init /\ [][Next]_vars

-----------------------------------------------------------------------------
Firing == [at: Nat, cooldown: Nat]

AlertRow ==
  [exists: BOOLEAN, enabled: BOOLEAN, cooldown: Nat, last: Nat \cup {Never}, count: Nat]

TypeOK ==
  /\ clock \in Nat
  /\ row \in [Alerts -> AlertRow]
  /\ rows \in [Alerts -> Nat]
  /\ deliveries \subseteq Alerts \X Nat \X Channels
  /\ firings \in [Alerts -> Seq(Firing)]
  /\ attempts \subseteq Alerts \X Nat \X Channels
  /\ lost \subseteq Alerts \X Nat
  /\ pc \in [Processors -> PCs]
  /\ now \in [Processors -> Nat]
  /\ todo \in [Processors -> SUBSET Alerts]
  /\ cur \in [Processors -> Alerts \cup {NoAlert}]
  /\ \A p \in Processors : pc[p] \in Handling => cur[p] \in Alerts
  /\ read \in [Processors -> Nat]
  /\ mine \in [Processors -> Nat]

(***************************************************************************)
(* The claim's promise: among firings that were all claimed under a        *)
(* cooldown, any two are further apart than the later one's, by the time   *)
(* the alerts carry: overlapping batches, replicas, batches that listed    *)
(* long ago and edits of the cooldown notwithstanding.                     *)
(***************************************************************************)
SpacedFirings ==
  \A a \in Alerts : \A j \in DOMAIN firings[a] : \A i \in 1..(j - 1) :
    (\A k \in i..j : firings[a][k].cooldown > 0)
      => firings[a][j].at - firings[a][i].at > firings[a][j].cooldown

(***************************************************************************)
(* The row and its history agree: lastTriggeredAt is the latest claim's    *)
(* time and triggerCount the number of AlertTrigger rows, whoever claimed. *)
(***************************************************************************)
LastMatches ==
  \A a \in Alerts :
    row[a].last = IF firings[a] = <<>> THEN Never ELSE firings[a][Len(firings[a])].at
CountMatches ==
  \A a \in Alerts :
    /\ row[a].count = Len(firings[a])
    /\ row[a].exists => rows[a] = row[a].count
RowMatchesHistory == LastMatches /\ CountMatches

(***************************************************************************)
(* A claim once won is paid for.  Nothing looks for a firing again, so     *)
(* each is in the hands of exactly the processor that won it, or was lost  *)
(* with that processor when it threw, or has been handed to every channel  *)
(* with every attempt written down, unless the user deleted the alert and  *)
(* its delivery rows under it.                                             *)
(***************************************************************************)
Holders(a, n) == {p \in Processors : cur[p] = a /\ mine[p] = n}
Delivered(a, n) ==
  \A ch \in Channels : /\ <<a, n, ch>> \in attempts
                       /\ row[a].exists => <<a, n, ch>> \in deliveries
FiringsAccounted ==
  \A a \in Alerts : \A n \in DOMAIN firings[a] :
    /\ \A p, q \in Holders(a, n) : p = q
    /\ Holders(a, n) # {} \/ <<a, n>> \in lost \/ Delivered(a, n)

(***************************************************************************)
(* The runtime implements Delivery: a firing is owed while the processor   *)
(* that won it dispatches or records it.  So whatever the other batches    *)
(* and the user do meanwhile, no firing is taken up again once it is       *)
(* settled or lost, none is recorded before every channel was tried, none  *)
(* is let go half recorded, and a deleted alert never fires.               *)
(***************************************************************************)
Owing == {p \in Processors : pc[p] \in {"dispatch", "record"}}
Owed == {<<cur[p], mine[p]>> : p \in Owing}
Gone == {a \in Alerts : ~row[a].exists}

Contract == INSTANCE Delivery WITH
  Alert <- Alerts, Channel <- Channels, Time <- 0..Horizon, Cooldown <- Cooldowns,
  history <- firings, owed <- Owed, sent <- attempts, recorded <- deliveries, gone <- Gone

ImplementsDelivery == Contract!Spec
=============================================================================
