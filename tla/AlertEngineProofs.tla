-------------------------- MODULE AlertEngineProofs --------------------------
(***************************************************************************)
(* Theorems about AlertEngine, for any number of processors, alerts and    *)
(* channels, any cooldowns and any horizon.                                *)
(***************************************************************************)
EXTENDS AlertEngine, TLAPS

USE DEF Handling, PCs, Never

LEMMA InitTyped == Init => TypeOK
<1> SUFFICES ASSUME Init PROVE TypeOK
  OBVIOUS
<1>1. row \in [Alerts -> AlertRow]
  <2>1. ASSUME NEW r \in [exists: {TRUE}, enabled: {TRUE}, cooldown: Cooldowns,
                          last: {Never}, count: {0}]
        PROVE  r \in AlertRow
    <3>1. r.exists \in BOOLEAN /\ r.enabled \in BOOLEAN /\ r.cooldown \in Nat
      BY AlertAssumption
    <3>2. r.last \in Nat \cup {Never} /\ r.count \in Nat
      OBVIOUS
    <3>3. QED
      BY <3>1, <3>2 DEF AlertRow
  <2>2. QED
    BY <2>1 DEF Init
<1>2. firings \in [Alerts -> Seq(Firing)] /\ rows \in [Alerts -> Nat] /\ clock \in Nat
  BY DEF Init
<1>3. /\ pc \in [Processors -> PCs]
      /\ \A p \in Processors : pc[p] \in Handling => cur[p] \in Alerts
  BY DEF Init
<1>4. /\ now \in [Processors -> Nat] /\ read \in [Processors -> Nat]
      /\ mine \in [Processors -> Nat]
  BY DEF Init
<1>5. todo \in [Processors -> SUBSET Alerts] /\ cur \in [Processors -> Alerts \cup {NoAlert}]
  BY DEF Init
<1>6. QED
  BY <1>1, <1>2, <1>3, <1>4, <1>5 DEF Init, TypeOK

LEMMA OutcomeDoneTyped ==
  ASSUME TypeOK, NEW p \in Processors, NEW left, OutcomeDone(p, left)
  PROVE  /\ pc' \in [Processors -> PCs]
         /\ cur' \in [Processors -> Alerts \cup {NoAlert}]
         /\ \A q \in Processors : pc'[q] \in Handling => cur'[q] \in Alerts
         /\ read' \in [Processors -> Nat] /\ mine' \in [Processors -> Nat]
<1>1. pc' \in [Processors -> PCs] /\ pc'[p] \notin Handling
  BY DEF OutcomeDone, TypeOK
<1>2. cur' \in [Processors -> Alerts \cup {NoAlert}]
  BY DEF OutcomeDone, TypeOK
<1>3. \A q \in Processors \ {p} : pc'[q] = pc[q] /\ cur'[q] = cur[q]
  BY DEF OutcomeDone, TypeOK
<1>4. read' \in [Processors -> Nat] /\ mine' \in [Processors -> Nat]
  BY DEF OutcomeDone, TypeOK
<1>5. QED
  BY <1>1, <1>2, <1>3, <1>4 DEF TypeOK

LEMMA ThrowTyped ==
  ASSUME TypeOK, NEW p \in Processors, Throw(p)
  PROVE  TypeOK'
<1>1. pc' \in [Processors -> PCs] /\ pc'[p] = "idle"
  BY DEF Throw, TypeOK
<1>2. /\ now' \in [Processors -> Nat] /\ todo' \in [Processors -> SUBSET Alerts]
      /\ cur' \in [Processors -> Alerts \cup {NoAlert}]
  BY DEF Throw, TypeOK
<1>3. read' \in [Processors -> Nat] /\ mine' \in [Processors -> Nat]
  BY DEF Throw, TypeOK
<1>4. \A q \in Processors \ {p} : pc'[q] = pc[q] /\ cur'[q] = cur[q]
  BY DEF Throw, TypeOK
<1>5. UNCHANGED <<clock, row, rows, deliveries, firings, attempts>>
  BY DEF Throw
<1>6. lost' \subseteq Alerts \X Nat
  BY DEF Throw, TypeOK
<1>7. QED
  BY <1>1, <1>2, <1>3, <1>4, <1>5, <1>6 DEF TypeOK

LEMMA ClaimedRow ==
  ASSUME NEW r \in AlertRow, NEW t \in Nat
  PROVE  /\ Claimed(r, t) \in AlertRow
         /\ Claimed(r, t).last = t /\ Claimed(r, t).count = r.count + 1
         /\ Claimed(r, t).exists = r.exists
<1>1. r.count \in Nat /\ r.count + 1 \in Nat
  BY DEF AlertRow
<1>2. QED
  BY <1>1 DEF AlertRow, Claimed

\* What winning a claim does: only the claimed alert's row and history move.
LEMMA ClaimWonEffect ==
  ASSUME TypeOK, NEW p \in Processors, ClaimWon(p)
  PROVE  /\ cur[p] \in Alerts
         /\ NewFiring(p) \in Firing
         /\ row' \in [Alerts -> AlertRow] /\ rows' \in [Alerts -> Nat]
         /\ firings' \in [Alerts -> Seq(Firing)]
         /\ mine' \in [Processors -> Nat]
         /\ firings'[cur[p]] = Append(firings[cur[p]], NewFiring(p))
         /\ row'[cur[p]] = Claimed(row[cur[p]], now[p])
         /\ rows'[cur[p]] = rows[cur[p]] + 1
         /\ \A a \in Alerts \ {cur[p]} :
              firings'[a] = firings[a] /\ row'[a] = row[a] /\ rows'[a] = rows[a]
<1>1. cur[p] \in Alerts
  BY DEF ClaimWon, TypeOK
<1>2. NewFiring(p) \in Firing
  BY DEF NewFiring, Firing, TypeOK
<1>3. /\ rows' \in [Alerts -> Nat]
      /\ rows'[cur[p]] = rows[cur[p]] + 1
      /\ \A a \in Alerts \ {cur[p]} : rows'[a] = rows[a]
  BY <1>1 DEF ClaimWon, TypeOK
<1>4. /\ firings' \in [Alerts -> Seq(Firing)]
      /\ firings'[cur[p]] = Append(firings[cur[p]], NewFiring(p))
      /\ \A a \in Alerts \ {cur[p]} : firings'[a] = firings[a]
  BY <1>1, <1>2 DEF ClaimWon, TypeOK
<1>5. mine' \in [Processors -> Nat]
  <2>1. firings[cur[p]] \in Seq(Firing)
    BY <1>1 DEF TypeOK
  <2>2. Len(firings[cur[p]]) + 1 \in Nat
    BY <2>1
  <2>3. QED
    BY <2>2 DEF ClaimWon, TypeOK
<1>6. /\ row' \in [Alerts -> AlertRow]
      /\ row'[cur[p]] = Claimed(row[cur[p]], now[p])
      /\ \A a \in Alerts \ {cur[p]} : row'[a] = row[a]
  <2>1. Claimed(row[cur[p]], now[p]) \in AlertRow
    BY <1>1, ClaimedRow DEF TypeOK
  <2>2. row' = [row EXCEPT ![cur[p]] = Claimed(row[cur[p]], now[p])]
    BY DEF ClaimWon
  <2>3. QED
    BY <1>1, <2>1, <2>2 DEF TypeOK
<1>7. QED
  BY <1>1, <1>2, <1>3, <1>4, <1>5, <1>6

(***************************************************************************)
(* Type correctness.                                                       *)
(***************************************************************************)
LEMMA HandleTyped ==
  ASSUME TypeOK, NEW p \in Processors, Handle(p)
  PROVE  TypeOK'
<1>1. CASE List(p)
  <2>1. PICK matches \in SUBSET Alerts :
          /\ todo' = [todo EXCEPT ![p] = matches]
          /\ pc' = [pc EXCEPT ![p] = IF matches = {} THEN "next" ELSE "claim"]
    BY <1>1 DEF List
  <2>2. todo' \in [Processors -> SUBSET Alerts]
    BY <2>1 DEF TypeOK
  <2>3. /\ pc' \in [Processors -> PCs]
        /\ \A q \in Processors : pc'[q] \in Handling => cur[q] \in Alerts
    BY <2>1 DEF TypeOK
  <2>4. QED
    BY <1>1, <2>2, <2>3 DEF List, database, TypeOK
<1>2. CASE NextSignal(p)
  <2>1. pc' \in [Processors -> PCs] /\ now' \in [Processors -> Nat]
    <3>1. 0 \in Nat /\ "list" \in PCs /\ "idle" \in PCs
      OBVIOUS
    <3>2. pc' \in [Processors -> PCs]
      BY <1>2, <3>1 DEF NextSignal, TypeOK
    <3>3. now' \in [Processors -> Nat]
      BY <1>2, <3>1 DEF NextSignal, TypeOK
    <3>4. QED
      BY <3>2, <3>3
  <2>2. pc'[p] \notin Handling /\ \A q \in Processors \ {p} : pc'[q] = pc[q]
    BY <1>2 DEF NextSignal, TypeOK
  <2>3. QED
    BY <1>2, <2>1, <2>2 DEF NextSignal, database, TypeOK
<1>3. CASE ClaimRead(p)
  <2>1. PICK a \in todo[p] :
          /\ todo' = [todo EXCEPT ![p] = @ \ {a}]
          /\ \/ /\ row[a].exists /\ row[a].enabled
                /\ cur' = [cur EXCEPT ![p] = a]
                /\ read' = [read EXCEPT ![p] = row[a].cooldown]
                /\ pc' = [pc EXCEPT ![p] = "commit"]
                /\ UNCHANGED mine
             \/ OutcomeDone(p, todo[p] \ {a})
    BY <1>3 DEF ClaimRead
  <2>2. a \in Alerts /\ todo' \in [Processors -> SUBSET Alerts] /\ row[a].cooldown \in Nat
    BY <2>1 DEF TypeOK, AlertRow
  <2>3. UNCHANGED <<clock, row, rows, deliveries, firings, attempts, lost, now>>
    BY <1>3 DEF ClaimRead, database
  <2>4. CASE OutcomeDone(p, todo[p] \ {a})
    BY <2>2, <2>3, <2>4, OutcomeDoneTyped DEF TypeOK
  <2>5. CASE /\ cur' = [cur EXCEPT ![p] = a]
             /\ read' = [read EXCEPT ![p] = row[a].cooldown]
             /\ pc' = [pc EXCEPT ![p] = "commit"]
             /\ UNCHANGED mine
    BY <2>2, <2>3, <2>5 DEF TypeOK
  <2>6. QED
    BY <2>1, <2>4, <2>5
<1>4. CASE ClaimWon(p)
  <2>1. /\ pc' \in [Processors -> PCs] /\ cur' = cur
        /\ \A q \in Processors : pc'[q] \in Handling => cur[q] \in Alerts
    BY <1>4, ClaimWonEffect DEF ClaimWon, TypeOK
  <2>2. UNCHANGED <<clock, deliveries, attempts, lost, now, todo, read>>
    BY <1>4 DEF ClaimWon
  <2>3. QED
    BY <1>4, <2>1, <2>2, ClaimWonEffect DEF TypeOK
<1>5. CASE ClaimLost(p)
  BY <1>5, OutcomeDoneTyped DEF ClaimLost, database, TypeOK
<1>6. CASE Dispatch(p)
  <2>1. cur[p] \in Alerts /\ mine[p] \in Nat
    BY <1>6 DEF Dispatch, TypeOK
  <2>2. attempts' \subseteq Alerts \X Nat \X Channels
    BY <1>6, <2>1 DEF Dispatch, TypeOK
  <2>3. /\ pc' \in [Processors -> PCs] /\ cur' = cur
        /\ \A q \in Processors : pc'[q] \in Handling => cur[q] \in Alerts
    BY <1>6, <2>1 DEF Dispatch, TypeOK
  <2>4. QED
    BY <1>6, <2>2, <2>3 DEF Dispatch, TypeOK
<1>7. CASE RecordDelivery(p)
  <2>1. cur[p] \in Alerts /\ mine[p] \in Nat
    BY <1>7 DEF RecordDelivery, TypeOK
  <2>2. deliveries' \subseteq Alerts \X Nat \X Channels
    BY <1>7, <2>1 DEF RecordDelivery, TypeOK
  <2>3. /\ pc' \in [Processors -> PCs] /\ cur' = cur
        /\ \A q \in Processors : pc'[q] \in Handling => cur[q] \in Alerts
    BY <1>7, <2>1 DEF RecordDelivery, TypeOK
  <2>4. QED
    BY <1>7, <2>2, <2>3 DEF RecordDelivery, TypeOK
<1>8. CASE RecordFails(p)
  BY <1>8, ThrowTyped DEF RecordFails
<1>9. CASE Publish(p)
  BY <1>9, OutcomeDoneTyped DEF Publish, database, TypeOK
<1>10. QED
  BY <1>1, <1>2, <1>3, <1>4, <1>5, <1>6, <1>7, <1>8, <1>9 DEF Handle

LEMMA EditTyped ==
  ASSUME TypeOK, NEW a \in Alerts, Edit(a) \/ Remove(a)
  PROVE  /\ row' \in [Alerts -> AlertRow]
         /\ row'[a].last = row[a].last /\ row'[a].count = row[a].count
         /\ row'[a].exists => row[a].exists /\ rows'[a] = rows[a]
         /\ \A b \in Alerts \ {a} : row'[b] = row[b] /\ rows'[b] = rows[b]
<1>1. row[a] \in AlertRow
  BY DEF TypeOK
<1>2. CASE Remove(a)
  BY <1>1, <1>2 DEF Remove, TypeOK, AlertRow
<1>3. CASE Edit(a)
  <2>1. \A c \in Cooldowns : c \in Nat
    BY AlertAssumption
  <2>2. rows' = rows
    BY <1>3 DEF Edit
  <2>3. ASSUME NEW c \in Cooldowns, row' = [row EXCEPT ![a].cooldown = c]
        PROVE  /\ row' \in [Alerts -> AlertRow]
               /\ row'[a].last = row[a].last /\ row'[a].count = row[a].count
               /\ row'[a].exists = row[a].exists
               /\ \A b \in Alerts \ {a} : row'[b] = row[b]
    BY <1>1, <2>1, <2>3 DEF TypeOK, AlertRow
  <2>4. ASSUME row' = [row EXCEPT ![a].enabled = ~@]
        PROVE  /\ row' \in [Alerts -> AlertRow]
               /\ row'[a].last = row[a].last /\ row'[a].count = row[a].count
               /\ row'[a].exists = row[a].exists
               /\ \A b \in Alerts \ {a} : row'[b] = row[b]
    BY <1>1, <2>4 DEF TypeOK, AlertRow
  <2>5. QED
    BY <1>3, <2>2, <2>3, <2>4 DEF Edit
<1>4. QED
  BY <1>2, <1>3

LEMMA TypeKept ==
  ASSUME TypeOK, [Next]_vars
  PROVE  TypeOK'
<1>1. ASSUME NEW p \in Processors, Begin(p) PROVE TypeOK'
  BY <1>1 DEF Begin, database, TypeOK
<1>2. ASSUME NEW p \in Processors, Handle(p) PROVE TypeOK'
  BY <1>2, HandleTyped
<1>3. ASSUME NEW p \in Processors, Abandon(p) PROVE TypeOK'
  BY <1>3, ThrowTyped DEF Abandon
<1>4. ASSUME NEW a \in Alerts, Edit(a) PROVE TypeOK'
  BY <1>4, EditTyped DEF Edit, TypeOK
<1>5. ASSUME NEW a \in Alerts, Remove(a) PROVE TypeOK'
  BY <1>5, EditTyped DEF Remove, TypeOK
<1>6. CASE Tick
  BY <1>6 DEF Tick, database, TypeOK
<1>7. CASE UNCHANGED vars
  BY <1>7 DEF vars, TypeOK
<1>8. QED
  BY <1>1, <1>2, <1>3, <1>4, <1>5, <1>6, <1>7 DEF Next

\* The state is always well formed.
THEOREM TypeCorrect == Spec => []TypeOK
BY InitTyped, TypeKept, PTL DEF Spec

(***************************************************************************)
(* The row and its history agree.                                          *)
(***************************************************************************)
LEMMA HistoryInit == Init => RowMatchesHistory
<1> SUFFICES ASSUME Init PROVE RowMatchesHistory
  OBVIOUS
<1>1. ASSUME NEW a \in Alerts
      PROVE  row[a].last = Never /\ row[a].count = 0 /\ rows[a] = 0 /\ firings[a] = <<>>
  BY DEF Init
<1>2. QED
  BY <1>1 DEF RowMatchesHistory, LastMatches, CountMatches

LEMMA HistoryKept ==
  ASSUME TypeOK, RowMatchesHistory, [Next]_vars
  PROVE  RowMatchesHistory'
<1>1. ASSUME NEW p \in Processors, ClaimWon(p) PROVE RowMatchesHistory'
  <2> DEFINE a == cur[p]
  <2>1. a \in Alerts /\ firings[a] \in Seq(Firing) /\ row[a] \in AlertRow /\ now[p] \in Nat
    BY <1>1, ClaimWonEffect DEF TypeOK
  <2>2. /\ firings'[a] = Append(firings[a], NewFiring(p)) /\ NewFiring(p) \in Firing
        /\ row'[a] = Claimed(row[a], now[p]) /\ rows'[a] = rows[a] + 1
        /\ \A b \in Alerts \ {a} :
             firings'[b] = firings[b] /\ row'[b] = row[b] /\ rows'[b] = rows[b]
    BY <1>1, ClaimWonEffect
  <2>3. /\ row'[a].last = now[p] /\ row'[a].count = row[a].count + 1
        /\ row'[a].exists = row[a].exists
    <3> HIDE DEF a
    <3>1. /\ Claimed(row[a], now[p]).last = now[p]
          /\ Claimed(row[a], now[p]).count = row[a].count + 1
          /\ Claimed(row[a], now[p]).exists = row[a].exists
      BY <2>1, ClaimedRow
    <3>2. row'[a] = Claimed(row[a], now[p])
      BY <2>2
    <3>3. QED
      BY <3>1, <3>2
  <2>4. /\ firings'[a] # <<>> /\ Len(firings'[a]) = Len(firings[a]) + 1
        /\ firings'[a][Len(firings'[a])] = NewFiring(p)
    BY <2>1, <2>2
  <2>5. NewFiring(p).at = now[p]
    BY DEF NewFiring
  <2>6. LastMatches'
    <3>1. row'[a].last = IF firings'[a] = <<>> THEN Never
                         ELSE firings'[a][Len(firings'[a])].at
      BY <2>3, <2>4, <2>5
    <3> HIDE DEF a
    <3>2. ASSUME NEW b \in Alerts
          PROVE  row'[b].last = IF firings'[b] = <<>> THEN Never
                                ELSE firings'[b][Len(firings'[b])].at
      BY <2>2, <3>1 DEF RowMatchesHistory, LastMatches
    <3>3. QED
      BY <3>2 DEF LastMatches
  <2>7. CountMatches'
    BY <2>1, <2>2, <2>3, <2>4 DEF RowMatchesHistory, CountMatches
  <2>8. QED
    BY <2>6, <2>7 DEF RowMatchesHistory
<1>2. ASSUME NEW a \in Alerts, Edit(a) \/ Remove(a) PROVE RowMatchesHistory'
  <2>1. firings' = firings
    BY <1>2 DEF Edit, Remove
  <2>2. QED
    BY <1>2, <2>1, EditTyped DEF RowMatchesHistory, LastMatches, CountMatches
<1>3. ASSUME UNCHANGED <<row, rows, firings>> PROVE RowMatchesHistory'
  BY <1>3 DEF RowMatchesHistory, LastMatches, CountMatches
<1>4. QED
  BY <1>1, <1>2, <1>3
  DEF Next, vars, database, Handle, Begin, List, NextSignal, ClaimRead, ClaimLost, Dispatch,
      RecordDelivery, RecordFails, Publish, Abandon, Throw, Tick

\* lastTriggeredAt and triggerCount always tell the history of claims.
THEOREM RowsTellTheHistory == Spec => []RowMatchesHistory
BY HistoryInit, HistoryKept, TypeCorrect, PTL DEF Spec

(***************************************************************************)
(* Spacing.  Inductive with LastMatches: a claim made under a cooldown is  *)
(* later by more than it than the alert's latest firing, and that firing   *)
(* is later than all those before it back to the last one without.         *)
(***************************************************************************)
LEMMA AppendSpaced ==
  ASSUME NEW s \in Seq(Firing), NEW f \in Firing,
         \A j \in DOMAIN s : \A i \in 1..(j - 1) :
           (\A k \in i..j : s[k].cooldown > 0) => s[j].at - s[i].at > s[j].cooldown,
         s = <<>> \/ f.cooldown = 0 \/ f.at - s[Len(s)].at > f.cooldown
  PROVE  LET t == Append(s, f) IN
         \A j \in DOMAIN t : \A i \in 1..(j - 1) :
           (\A k \in i..j : t[k].cooldown > 0) => t[j].at - t[i].at > t[j].cooldown
<1> DEFINE t == Append(s, f)
           n == Len(s)
<1>1. /\ n \in Nat /\ DOMAIN s = 1..n /\ DOMAIN t = 1..(n + 1)
      /\ t[n + 1] = f /\ \A k \in 1..n : t[k] = s[k]
  OBVIOUS
<1>2. \A k \in 1..n : s[k].at \in Nat /\ s[k].cooldown \in Nat
  <2>1. \A k \in 1..n : s[k] \in Firing
    BY <1>1
  <2>2. QED
    BY <2>1 DEF Firing
<1>3. f.at \in Nat /\ f.cooldown \in Nat
  BY DEF Firing
<1> HIDE DEF t
<1>4. ASSUME NEW j \in DOMAIN t, NEW i \in 1..(j - 1),
             \A k \in i..j : t[k].cooldown > 0
      PROVE  t[j].at - t[i].at > t[j].cooldown
  <2>1. CASE j <= n
    <3>1. j \in DOMAIN s /\ \A k \in i..j : k \in 1..n /\ s[k].cooldown > 0
      BY <1>1, <1>4, <2>1
    <3>2. s[j].at - s[i].at > s[j].cooldown
      BY <3>1
    <3>3. i \in 1..n /\ j \in 1..n
      BY <1>1, <2>1
    <3>4. QED
      BY <1>1, <3>2, <3>3
  <2>2. CASE j = n + 1
    <3>1. i \in 1..n /\ n \in 1..n /\ f.cooldown > 0 /\ s # <<>>
      BY <1>1, <1>4, <2>2
    <3>2. f.at - s[n].at > f.cooldown
      BY <1>3, <3>1
    <3>3. CASE i = n
      BY <1>1, <2>2, <3>1, <3>2, <3>3
    <3>4. CASE i < n
      <4>1. n \in DOMAIN s /\ i \in 1..(n - 1)
        BY <1>1, <3>1, <3>4
      <4>2. \A k \in i..n : k \in i..j /\ k \in 1..n
        BY <1>1, <2>2, <3>1
      <4>3. \A k \in i..n : s[k].cooldown > 0
        BY <1>1, <1>4, <4>2
      <4>4. s[n].at - s[i].at > s[n].cooldown
        BY <4>1, <4>3
      <4>5. t[j] = f /\ t[i] = s[i]
        BY <1>1, <2>2, <3>1
      <4>6. \A x, y, z, c, d \in Nat : x - y > c /\ y - z > d => x - z > c
        OBVIOUS
      <4>7. f.at - s[i].at > f.cooldown
        BY <1>2, <1>3, <3>1, <3>2, <4>4, <4>6
      <4>8. QED
        BY <4>5, <4>7
    <3>5. i = n \/ i < n
      <4> HIDE DEF n
      <4>1. \A x \in 1..n : x = n \/ x < n
        BY <1>1
      <4>2. QED
        BY <3>1, <4>1
    <3>6. QED
      BY <3>3, <3>4, <3>5
  <2>3. QED
    BY <1>1, <2>1, <2>2
<1>5. QED
  BY <1>4 DEF t

\* Any two firings claimed under cooldowns are further apart than the later
\* one's cooldown, however stale the processors that claimed them.
THEOREM FiringsAreSpaced == Spec => []SpacedFirings
<1>1. Init => SpacedFirings
  BY DEF Init, SpacedFirings
<1>2. TypeOK /\ RowMatchesHistory /\ SpacedFirings /\ [Next]_vars => SpacedFirings'
  <2> SUFFICES ASSUME TypeOK, RowMatchesHistory, SpacedFirings, [Next]_vars
               PROVE  SpacedFirings'
    OBVIOUS
  <2>1. ASSUME NEW p \in Processors, ClaimWon(p) PROVE SpacedFirings'
    <3> DEFINE a == cur[p]
               s == firings[a]
               f == NewFiring(p)
    <3>1. a \in Alerts /\ s \in Seq(Firing) /\ f \in Firing
      BY <2>1, ClaimWonEffect DEF TypeOK
    <3>2. f.at = now[p] /\ f.cooldown = read[p] /\ now[p] \in Nat /\ read[p] \in Nat
      BY DEF NewFiring, TypeOK
    <3>3. row[a].last = IF s = <<>> THEN Never ELSE s[Len(s)].at
      BY <3>1 DEF RowMatchesHistory, LastMatches
    <3>4. read[p] = 0 \/ row[a].last = Never \/ row[a].last < now[p] - read[p]
      BY <2>1 DEF ClaimWon, Claimable
    <3>5. s = <<>> \/ s[Len(s)].at \in Nat
      <4> HIDE DEF s
      <4>1. s # <<>> => Len(s) \in DOMAIN s
        BY <3>1
      <4>2. s # <<>> => s[Len(s)] \in Firing
        BY <3>1, <4>1
      <4>3. QED
        BY <4>2 DEF Firing
    <3>6. s = <<>> \/ f.cooldown = 0 \/ f.at - s[Len(s)].at > f.cooldown
      <4>1. CASE s # <<>> /\ read[p] # 0
        <5> HIDE DEF s, f
        <5>1. row[a].last = s[Len(s)].at /\ s[Len(s)].at \in Nat
          BY <3>3, <3>5, <4>1
        <5>2. row[a].last < now[p] - read[p]
          BY <3>4, <4>1, <5>1
        <5>3. QED
          BY <3>2, <5>1, <5>2
      <4>2. QED
        BY <3>2, <4>1
    <3>7. \A j \in DOMAIN s : \A i \in 1..(j - 1) :
            (\A k \in i..j : s[k].cooldown > 0) => s[j].at - s[i].at > s[j].cooldown
      BY <3>1 DEF SpacedFirings
    <3>8. firings'[a] = Append(s, f) /\ \A b \in Alerts \ {a} : firings'[b] = firings[b]
      BY <2>1, ClaimWonEffect
    <3> HIDE DEF s, f
    <3>9. \A j \in DOMAIN firings'[a] : \A i \in 1..(j - 1) :
            (\A k \in i..j : firings'[a][k].cooldown > 0)
              => firings'[a][j].at - firings'[a][i].at > firings'[a][j].cooldown
      BY <3>1, <3>6, <3>7, <3>8, AppendSpaced
    <3> HIDE DEF a
    <3>10. QED
      BY <3>8, <3>9 DEF SpacedFirings
  <2>2. CASE firings' = firings
    BY <2>2 DEF SpacedFirings
  <2>3. QED
    BY <2>1, <2>2
    DEF Next, vars, database, Handle, Begin, List, NextSignal, ClaimRead, ClaimLost, Dispatch,
        RecordDelivery, RecordFails, Publish, Abandon, Throw, Tick, Edit, Remove
<1>3. QED
  BY <1>1, <1>2, TypeCorrect, RowsTellTheHistory, PTL DEF Spec

(***************************************************************************)
(* Accounting.  A processor that works on a firing holds it in cur and     *)
(* mine until it is through or throws; what it has done by then is in      *)
(* attempts and deliveries, which only a deletion takes back.              *)
(***************************************************************************)
Working == {"dispatch", "record", "publish"}

HandsOK(p) ==
  /\ pc[p] \in Working => cur[p] \in Alerts /\ mine[p] \in DOMAIN firings[cur[p]]
  /\ pc[p] \notin Working => mine[p] = 0
  /\ pc[p] \in {"record", "publish"} => \A ch \in Channels : <<cur[p], mine[p], ch>> \in attempts
  /\ pc[p] = "publish" /\ row[cur[p]].exists =>
       \A ch \in Channels : <<cur[p], mine[p], ch>> \in deliveries
HandsInv == \A p \in Processors : HandsOK(p)

\* History, attempts and losses only grow; delivery rows go with their alert.
LEMMA Monotone ==
  ASSUME TypeOK, [Next]_vars
  PROVE  /\ attempts \subseteq attempts' /\ lost \subseteq lost'
         /\ \A a \in Alerts : /\ DOMAIN firings[a] \subseteq DOMAIN firings'[a]
                              /\ row'[a].exists => row[a].exists
         /\ \A a \in Alerts, n \in Nat, ch \in Channels :
              <<a, n, ch>> \in deliveries /\ row'[a].exists => <<a, n, ch>> \in deliveries'
<1>1. ASSUME NEW p \in Processors, ClaimWon(p)
      PROVE  /\ \A a \in Alerts : /\ DOMAIN firings[a] \subseteq DOMAIN firings'[a]
                                  /\ row'[a].exists => row[a].exists
             /\ UNCHANGED <<attempts, lost, deliveries>>
  <2>1. UNCHANGED <<attempts, lost, deliveries>>
    BY <1>1 DEF ClaimWon
  <2>2. ASSUME NEW a \in Alerts
        PROVE  /\ DOMAIN firings[a] \subseteq DOMAIN firings'[a]
               /\ row'[a].exists => row[a].exists
    <3>1. CASE a = cur[p]
      <4>1. firings'[a] = Append(firings[a], NewFiring(p)) /\ row'[a] = Claimed(row[a], now[p])
            /\ firings[a] \in Seq(Firing) /\ row[a] \in AlertRow /\ now[p] \in Nat
        BY <1>1, <3>1, ClaimWonEffect DEF TypeOK
      <4>2. DOMAIN firings[a] \subseteq DOMAIN firings'[a]
        BY <4>1
      <4>3. Claimed(row[a], now[p]).exists = row[a].exists
        BY <4>1, ClaimedRow
      <4>4. QED
        BY <4>1, <4>2, <4>3
    <3>2. CASE a # cur[p]
      BY <1>1, <3>2, ClaimWonEffect
    <3>3. QED
      BY <3>1, <3>2
  <2>3. QED
    BY <2>1, <2>2
<1>2. ASSUME NEW a \in Alerts, Edit(a)
      PROVE  /\ UNCHANGED <<attempts, lost, firings, deliveries>>
             /\ \A b \in Alerts : row'[b].exists => row[b].exists
  BY <1>2, EditTyped DEF Edit
<1>3. ASSUME NEW a \in Alerts, Remove(a)
      PROVE  /\ UNCHANGED <<attempts, lost, firings>>
             /\ \A b \in Alerts : row'[b].exists => row[b].exists
             /\ deliveries' = {d \in deliveries : d[1] # a}
             /\ ~row'[a].exists
  <2>1. ~row'[a].exists
    BY <1>3 DEF Remove, TypeOK, AlertRow
  <2>2. QED
    BY <1>3, <2>1, EditTyped DEF Remove
<1>4. ASSUME NEW p \in Processors, Throw(p)
      PROVE  lost \subseteq lost' /\ UNCHANGED <<attempts, row, deliveries, firings>>
  BY <1>4 DEF Throw
<1>5. ASSUME NEW p \in Processors, Dispatch(p)
      PROVE  attempts \subseteq attempts' /\ UNCHANGED <<lost, row, deliveries, firings>>
  BY <1>5 DEF Dispatch
<1>6. ASSUME NEW p \in Processors, RecordDelivery(p)
      PROVE  deliveries \subseteq deliveries' /\ UNCHANGED <<attempts, lost, row, firings>>
  BY <1>6 DEF RecordDelivery
<1>7. ASSUME UNCHANGED <<attempts, lost, row, deliveries, firings>>
      PROVE  /\ attempts \subseteq attempts' /\ lost \subseteq lost'
             /\ \A a \in Alerts : /\ DOMAIN firings[a] \subseteq DOMAIN firings'[a]
                                  /\ row'[a].exists => row[a].exists
             /\ deliveries' = deliveries
  BY <1>7
<1>8. QED
  BY <1>1, <1>2, <1>3, <1>4, <1>5, <1>6, <1>7
  DEF Next, vars, database, Handle, Begin, List, NextSignal, ClaimRead, ClaimLost,
      RecordFails, Publish, Abandon, Tick

LEMMA DeliveredStays ==
  ASSUME TypeOK, [Next]_vars, NEW a \in Alerts, NEW n \in Nat, Delivered(a, n)
  PROVE  Delivered(a, n)'
BY Monotone DEF Delivered

\* What a step does to the processor that takes it, and to the others.
LEMMA HandsSteps ==
  ASSUME TypeOK, HandsInv, [Next]_vars, NEW p \in Processors
  PROVE  \/ pc'[p] = pc[p] /\ cur'[p] = cur[p] /\ mine'[p] = mine[p]
         \/ pc'[p] \notin Working /\ mine'[p] = 0 /\ mine[p] = 0
         \/ ClaimWon(p)
         \/ Dispatch(p)
         \/ RecordDelivery(p)
         \/ /\ pc'[p] \notin Working /\ mine'[p] = 0
            /\ \/ pc[p] = "publish"
               \/ pc[p] \in {"dispatch", "record"} /\ <<cur[p], mine[p]>> \in lost'
<1> USE DEF Working
<1>1. ASSUME NEW q \in Processors, q # p,
             Begin(q) \/ Handle(q) \/ Abandon(q)
      PROVE  pc'[p] = pc[p] /\ cur'[p] = cur[p] /\ mine'[p] = mine[p]
  BY <1>1 DEF Begin, Handle, List, NextSignal, ClaimRead, ClaimWon, ClaimLost, OutcomeDone,
     Dispatch, RecordDelivery, RecordFails, Publish, Abandon, Throw, TypeOK
<1>2. pc[p] \notin Working => mine[p] = 0
  BY DEF HandsInv, HandsOK
<1>3. CASE Begin(p) \/ List(p) \/ NextSignal(p)
  BY <1>2, <1>3 DEF Begin, List, NextSignal, TypeOK
<1>4. CASE ClaimRead(p)
  BY <1>2, <1>4 DEF ClaimRead, OutcomeDone, TypeOK
<1>5. CASE ClaimLost(p)
  BY <1>2, <1>5 DEF ClaimLost, OutcomeDone, TypeOK
<1>6. CASE Publish(p)
  BY <1>6 DEF Publish, OutcomeDone, TypeOK
<1>7. CASE Throw(p)
  BY <1>2, <1>7 DEF Throw, TypeOK
<1>8. CASE UNCHANGED <<pc, cur, mine>>
  BY <1>8
<1>9. QED
  BY <1>1, <1>3, <1>4, <1>5, <1>6, <1>7, <1>8
  DEF Next, vars, Handle, Abandon, RecordFails, Edit, Remove, Tick

LEMMA HandsKept ==
  ASSUME TypeOK, HandsInv, [Next]_vars
  PROVE  HandsInv'
<1> SUFFICES ASSUME NEW p \in Processors PROVE HandsOK(p)'
  BY DEF HandsInv
<1> USE DEF Working
<1>1. HandsOK(p) /\ mine[p] \in Nat
  BY DEF HandsInv, TypeOK
<1>2. CASE pc'[p] = pc[p] /\ cur'[p] = cur[p] /\ mine'[p] = mine[p]
  BY <1>1, <1>2, Monotone DEF HandsOK
<1>3. CASE pc'[p] \notin Working /\ mine'[p] = 0
  BY <1>3 DEF HandsOK
<1>4. CASE ClaimWon(p)
  <2>1. /\ pc'[p] = "dispatch" /\ cur'[p] = cur[p] /\ cur[p] \in Alerts
        /\ mine'[p] = Len(firings[cur[p]]) + 1
    BY <1>4, ClaimWonEffect DEF ClaimWon, TypeOK
  <2>2. /\ firings[cur[p]] \in Seq(Firing)
        /\ firings'[cur[p]] = Append(firings[cur[p]], NewFiring(p))
    BY <1>4, <2>1, ClaimWonEffect DEF TypeOK
  <2>3. Len(firings[cur[p]]) + 1 \in DOMAIN firings'[cur[p]]
    BY <2>2
  <2>4. QED
    BY <2>1, <2>3 DEF HandsOK
<1>5. CASE Dispatch(p)
  <2>1. /\ cur' = cur /\ mine' = mine /\ pc[p] = "dispatch" /\ row' = row /\ firings' = firings
        /\ pc'[p] \in {"dispatch", "record"}
        /\ pc'[p] = "record" => Channels = ChannelsIn(attempts', p)
    BY <1>5 DEF Dispatch, TypeOK
  <2>2. QED
    BY <1>1, <2>1 DEF HandsOK, ChannelsIn
<1>6. CASE RecordDelivery(p)
  <2>1. /\ cur' = cur /\ mine' = mine /\ pc[p] = "record" /\ row' = row /\ firings' = firings
        /\ attempts' = attempts
        /\ pc'[p] \in {"record", "publish"}
        /\ pc'[p] = "publish" => Channels = ChannelsIn(deliveries', p)
    BY <1>6 DEF RecordDelivery, TypeOK
  <2>2. QED
    BY <1>1, <2>1 DEF HandsOK, ChannelsIn
<1>7. QED
  BY <1>2, <1>3, <1>4, <1>5, <1>6, HandsSteps

\* Nobody comes to hold a firing that already was.
LEMMA HoldersStay ==
  ASSUME TypeOK, HandsInv, [Next]_vars,
         NEW a \in Alerts, NEW n \in DOMAIN firings[a], NEW p \in Processors,
         cur'[p] = a, mine'[p] = n
  PROVE  cur[p] = a /\ mine[p] = n
<1>1. firings[a] \in Seq(Firing) /\ n \in 1..Len(firings[a]) /\ Len(firings[a]) \in Nat
  BY DEF TypeOK
<1>2. CASE ClaimWon(p)
  <2>1. cur' = cur /\ mine' = [mine EXCEPT ![p] = Len(firings[cur[p]]) + 1]
    BY <1>2 DEF ClaimWon
  <2>2. cur[p] = a /\ mine'[p] = Len(firings[a]) + 1
    BY <2>1 DEF TypeOK
  <2>3. \A l \in Nat : l + 1 \notin 1..l
    OBVIOUS
  <2>4. QED
    BY <1>1, <2>2, <2>3
<1>3. CASE Dispatch(p) \/ RecordDelivery(p)
  BY <1>3 DEF Dispatch, RecordDelivery
<1>4. mine'[p] # 0
  <2>1. \A l \in Nat : 0 \notin 1..l
    OBVIOUS
  <2>2. QED
    BY <1>1, <2>1
<1>5. CASE pc'[p] = pc[p] /\ cur'[p] = cur[p] /\ mine'[p] = mine[p]
  BY <1>5
<1>6. CASE mine'[p] = 0
  BY <1>4, <1>6
<1>7. QED
  BY <1>2, <1>3, <1>5, <1>6, HandsSteps

\* Whoever lets go of a firing has delivered it, or lost it.
LEMMA HoldersSettle ==
  ASSUME TypeOK, HandsInv, [Next]_vars,
         NEW a \in Alerts, NEW n \in DOMAIN firings[a], NEW p \in Processors,
         cur[p] = a, mine[p] = n
  PROVE  (cur'[p] = a /\ mine'[p] = n) \/ <<a, n>> \in lost' \/ Delivered(a, n)'
<1>1. n \in Nat /\ n # 0
  <2>1. firings[a] \in Seq(Firing)
    BY DEF TypeOK
  <2>2. QED
    BY <2>1
<1>2. HandsOK(p) /\ pc[p] \in Working
  BY <1>1 DEF HandsInv, HandsOK
<1>3. CASE ClaimWon(p)
  BY <1>2, <1>3 DEF ClaimWon, Working
<1>4. CASE Dispatch(p) \/ RecordDelivery(p)
  BY <1>4 DEF Dispatch, RecordDelivery
<1>5. CASE pc[p] = "publish"
  <2>1. Delivered(a, n)
    BY <1>2, <1>5 DEF HandsOK, Delivered
  <2>2. QED
    BY <1>1, <2>1, DeliveredStays
<1>6. QED
  BY <1>1, <1>3, <1>4, <1>5, HandsSteps

LEMMA AccountsKept ==
  ASSUME TypeOK, HandsInv, FiringsAccounted, [Next]_vars
  PROVE  FiringsAccounted'
<1> SUFFICES ASSUME NEW a \in Alerts, NEW n \in DOMAIN firings'[a]
             PROVE  /\ \A p, q \in Holders(a, n)' : p = q
                    /\ Holders(a, n)' # {} \/ <<a, n>> \in lost' \/ Delivered(a, n)'
  BY DEF FiringsAccounted
<1>1. CASE n \in DOMAIN firings[a]
  <2>1. n \in Nat
    BY <1>1 DEF TypeOK
  <2>2. Holders(a, n)' \subseteq Holders(a, n)
    BY <1>1, HoldersStay DEF Holders
  <2>3. \A p \in Holders(a, n) :
          p \in Holders(a, n)' \/ <<a, n>> \in lost' \/ Delivered(a, n)'
    BY <1>1, HoldersSettle DEF Holders
  <2>4. /\ \A p, q \in Holders(a, n) : p = q
        /\ Holders(a, n) # {} \/ <<a, n>> \in lost \/ Delivered(a, n)
    BY <1>1 DEF FiringsAccounted
  <2>5. QED
    BY <2>1, <2>2, <2>3, <2>4, Monotone, DeliveredStays
<1>2. CASE n \notin DOMAIN firings[a]
  <2>1. PICK p \in Processors : ClaimWon(p) /\ cur[p] = a
    <3>1. firings' # firings
      BY <1>2
    <3>2. PICK p \in Processors : ClaimWon(p)
      BY <3>1 DEF Next, vars, database, Handle, Begin, List, NextSignal, ClaimRead, ClaimLost,
         Dispatch, RecordDelivery, RecordFails, Publish, Abandon, Throw, Edit, Remove, Tick
    <3>3. QED
      BY <1>2, <3>2, ClaimWonEffect
  <2>2. firings[a] \in Seq(Firing) /\ firings'[a] = Append(firings[a], NewFiring(p))
    BY <2>1, ClaimWonEffect DEF TypeOK
  <2>3. n = Len(firings[a]) + 1 /\ Len(firings[a]) \in Nat
    BY <1>2, <2>2
  <2>4. cur' = cur /\ mine' = [mine EXCEPT ![p] = n]
    BY <2>1, <2>3 DEF ClaimWon
  <2>5. Holders(a, n) = {}
    <3> SUFFICES ASSUME NEW q \in Processors, cur[q] = a, mine[q] = n PROVE FALSE
      BY DEF Holders
    <3>1. HandsOK(q)
      BY DEF HandsInv
    <3>2. n # 0
      BY <2>3
    <3>3. QED
      BY <1>2, <3>1, <3>2 DEF HandsOK
  <2>6. Holders(a, n)' = {p}
    <3>1. \A q \in Processors \ {p} : mine'[q] = mine[q]
      BY <2>4 DEF TypeOK
    <3>2. mine'[p] = n /\ cur'[p] = a
      BY <2>1, <2>4 DEF TypeOK
    <3>3. QED
      BY <2>4, <2>5, <3>1, <3>2 DEF Holders
  <2>7. QED
    BY <2>6
<1>3. QED
  BY <1>1, <1>2

\* No firing falls through: it is held by one processor, was lost with the one
\* that held it, or went to every channel with every attempt on record.
THEOREM FiringsAreAccounted == Spec => []FiringsAccounted
<1>1. Init => HandsInv
  BY DEF Init, HandsInv, HandsOK, Working
<1>2. Init => FiringsAccounted
  BY DEF Init, FiringsAccounted
<1>3. QED
  BY <1>1, <1>2, HandsKept, AccountsKept, TypeCorrect, PTL DEF Spec

(***************************************************************************)
(* Refinement.  A claim won fires, each channel tried is a Send, each row  *)
(* written a Record, the last of which settles the firing as its processor *)
(* goes on to publish; a throw loses what was held, a deletion deletes,    *)
(* and every other step stutters.  The spacing guard of Fire follows from  *)
(* LastMatches; that a settled or lost firing leaves Owed, from the        *)
(* uniqueness of its holder.                                               *)
(***************************************************************************)

\* Times are those of the clock, cooldowns those a user may set.
InRange ==
  /\ clock \in 0..Horizon
  /\ \A p \in Processors : now[p] \in 0..Horizon
  /\ \A a \in Alerts : row[a].cooldown \in Cooldowns
  /\ \A p \in Processors : pc[p] = "commit" => read[p] \in Cooldowns

LEMMA InRangeInit == Init => InRange
<1> SUFFICES ASSUME Init PROVE InRange
  OBVIOUS
<1>1. clock \in 0..Horizon /\ \A p \in Processors : now[p] \in 0..Horizon /\ pc[p] = "idle"
  BY AlertAssumption DEF Init
<1>2. \A a \in Alerts : row[a].cooldown \in Cooldowns
  BY DEF Init
<1>3. QED
  BY <1>1, <1>2 DEF InRange

LEMMA InRangeKept ==
  ASSUME TypeOK, InRange, [Next]_vars
  PROVE  InRange'
<1>1. clock' \in 0..Horizon
  <2>1. CASE Tick
    BY <2>1, AlertAssumption DEF Tick, InRange
  <2>2. CASE clock' = clock
    BY <2>2 DEF InRange
  <2>3. QED
    BY <2>1, <2>2
    DEF Next, vars, Handle, Begin, List, NextSignal, ClaimRead, ClaimWon, ClaimLost, Dispatch,
        RecordDelivery, RecordFails, Publish, Abandon, Throw, Edit, Remove
<1>2. ASSUME NEW q \in Processors PROVE now'[q] \in 0..Horizon
  <2>1. now'[q] \in {now[q], clock, 0}
    BY DEF Next, vars, Handle, Begin, List, NextSignal, ClaimRead, ClaimWon, ClaimLost, Dispatch,
           RecordDelivery, RecordFails, Publish, Abandon, Throw, Edit, Remove, Tick, TypeOK
  <2>2. QED
    BY <2>1, AlertAssumption DEF InRange
<1>3. ASSUME NEW b \in Alerts PROVE row'[b].cooldown \in Cooldowns
  <2>0. row[b].cooldown \in Cooldowns /\ row[b] \in AlertRow
    BY DEF InRange, TypeOK
  <2>1. ASSUME NEW p \in Processors, ClaimWon(p) PROVE row'[b].cooldown = row[b].cooldown
    <3>1. row'[b] = row[b] \/ row'[b] = Claimed(row[b], now[p])
      BY <2>1, ClaimWonEffect
    <3>2. Claimed(row[b], now[p]).cooldown = row[b].cooldown
      BY <2>0 DEF Claimed, AlertRow
    <3>3. QED
      BY <3>1, <3>2
  <2>2. ASSUME NEW a \in Alerts, Edit(a) PROVE row'[b].cooldown \in Cooldowns
    <3>1. row \in [Alerts -> AlertRow] /\ row[a] \in AlertRow
      BY DEF TypeOK
    <3>2. ASSUME NEW c \in Cooldowns, row' = [row EXCEPT ![a].cooldown = c]
          PROVE  row'[b].cooldown \in Cooldowns
      BY <2>0, <3>1, <3>2 DEF AlertRow
    <3>3. ASSUME row' = [row EXCEPT ![a].enabled = ~@]
          PROVE  row'[b].cooldown \in Cooldowns
      BY <2>0, <3>1, <3>3 DEF AlertRow
    <3>4. QED
      BY <2>2, <3>2, <3>3 DEF Edit
  <2>3. ASSUME NEW a \in Alerts, Remove(a) PROVE row'[b].cooldown \in Cooldowns
    BY <2>0, <2>3 DEF Remove, TypeOK, AlertRow
  <2>4. CASE row' = row
    BY <2>0, <2>4
  <2>5. QED
    BY <2>0, <2>1, <2>2, <2>3, <2>4
    DEF Next, vars, database, Handle, Begin, List, NextSignal, ClaimRead, ClaimLost, Dispatch,
        RecordDelivery, RecordFails, Publish, Abandon, Throw, Tick
<1>4. ASSUME NEW q \in Processors, pc'[q] = "commit" PROVE read'[q] \in Cooldowns
  <2>1. CASE pc'[q] = pc[q] /\ read'[q] = read[q]
    BY <1>4, <2>1 DEF InRange
  <2>2. CASE ClaimRead(q)
    BY <1>4, <2>2 DEF ClaimRead, OutcomeDone, InRange, TypeOK
  <2>3. pc'[q] # "commit" \/ (pc'[q] = pc[q] /\ read'[q] = read[q]) \/ ClaimRead(q)
    <3>1. CASE UNCHANGED <<pc, read>>
      BY <3>1
    <3>2. ASSUME NEW p \in Processors, p # q, Begin(p) \/ Handle(p) \/ Abandon(p)
          PROVE  pc'[q] = pc[q] /\ read'[q] = read[q]
      BY <3>2 DEF Begin, Handle, List, NextSignal, ClaimRead, ClaimWon, ClaimLost, OutcomeDone,
         Dispatch, RecordDelivery, RecordFails, Publish, Abandon, Throw, TypeOK
    <3>3. CASE Begin(q) \/ (Handle(q) /\ ~ClaimRead(q)) \/ Abandon(q)
      BY <3>3 DEF Begin, Handle, List, NextSignal, ClaimWon, ClaimLost, OutcomeDone,
         Dispatch, RecordDelivery, RecordFails, Publish, Abandon, Throw, TypeOK
    <3>4. QED
      BY <3>1, <3>2, <3>3 DEF Next, vars, Edit, Remove, Tick
  <2>4. QED
    BY <1>4, <2>1, <2>2, <2>3
<1>5. QED
  BY <1>1, <1>2, <1>3, <1>4 DEF InRange

\* What a processor does to the firings owed: nothing, unless it takes one up
\* or lets its own go.
LEMMA OwedSame ==
  ASSUME \A q \in Processors : /\ q \in Owing' <=> q \in Owing
                               /\ q \in Owing => cur'[q] = cur[q] /\ mine'[q] = mine[q]
  PROVE  Owed' = Owed
BY DEF Owed, Owing

LEMMA OwedMore ==
  ASSUME NEW p \in Processors, p \notin Owing, p \in Owing',
         \A q \in Processors \ {p} : /\ q \in Owing' <=> q \in Owing
                                     /\ cur'[q] = cur[q] /\ mine'[q] = mine[q]
  PROVE  Owed' = Owed \cup {<<cur'[p], mine'[p]>>}
BY DEF Owed, Owing

LEMMA OwedLess ==
  ASSUME TypeOK, HandsInv, FiringsAccounted,
         NEW p \in Processors, p \in Owing, p \notin Owing',
         \A q \in Processors \ {p} : /\ q \in Owing' <=> q \in Owing
                                     /\ cur'[q] = cur[q] /\ mine'[q] = mine[q]
  PROVE  Owed' = Owed \ {<<cur[p], mine[p]>>}
<1>1. ASSUME NEW q \in Owing, cur[q] = cur[p], mine[q] = mine[p] PROVE q = p
  <2>1. cur[p] \in Alerts /\ mine[p] \in DOMAIN firings[cur[p]]
    BY DEF HandsInv, HandsOK, Working, Owing
  <2>2. q \in Holders(cur[p], mine[p]) /\ p \in Holders(cur[p], mine[p])
    BY <1>1 DEF Holders, Owing
  <2>3. QED
    BY <2>1, <2>2 DEF FiringsAccounted
<1>2. QED
  BY <1>1 DEF Owed, Owing

LEMMA ClaimWonImplements ==
  ASSUME TypeOK, InRange, RowMatchesHistory, NEW p \in Processors, ClaimWon(p)
  PROVE  Contract!Fire(cur[p])
<1> DEFINE a == cur[p]
<1>1. /\ a \in Alerts /\ firings[a] \in Seq(Firing) /\ row[a] \in AlertRow
      /\ now[p] \in 0..Horizon /\ now[p] \in Nat /\ read[p] \in Cooldowns /\ read[p] \in Nat
      /\ cur' = cur /\ UNCHANGED <<attempts, deliveries, lost>>
  BY DEF ClaimWon, InRange, TypeOK
<1>2. Claimable(a, now[p], read[p])
  BY DEF ClaimWon
<1>3. a \notin Gone
  BY <1>2 DEF Claimable, Gone
<1>4. Contract!OffCooldown(a, now[p], read[p])
  <2>1. row[a].last = IF firings[a] = <<>> THEN Never ELSE firings[a][Len(firings[a])].at
    BY <1>1 DEF RowMatchesHistory, LastMatches
  <2> HIDE DEF a
  <2>2. firings[a] # <<>> => firings[a][Len(firings[a])].at \in Nat
    <3>1. firings[a] # <<>> => firings[a][Len(firings[a])] \in Firing
      BY <1>1
    <3>2. QED
      BY <3>1 DEF Firing
  <2>3. read[p] = 0 \/ firings[a] = <<>> \/ now[p] - firings[a][Len(firings[a])].at > read[p]
    BY <1>1, <1>2, <2>1, <2>2 DEF Claimable
  <2>4. QED
    BY <2>3 DEF Contract!OffCooldown
<1>5. firings' = [firings EXCEPT ![a] = Append(@, [at |-> now[p], cooldown |-> read[p]])]
  BY DEF ClaimWon, NewFiring
<1>6. Owed' = Owed \cup {<<a, Len(firings[a]) + 1>>}
  <2>1. mine'[p] = Len(firings[a]) + 1 /\ cur'[p] = a
    BY <1>1 DEF ClaimWon, TypeOK
  <2>2. p \notin Owing /\ p \in Owing'
    BY DEF ClaimWon, Owing, TypeOK
  <2>3. \A q \in Processors \ {p} : /\ q \in Owing' <=> q \in Owing
                                    /\ cur'[q] = cur[q] /\ mine'[q] = mine[q]
    BY DEF ClaimWon, Owing, TypeOK
  <2> HIDE DEF a
  <2>4. QED
    BY <2>1, <2>2, <2>3, OwedMore
<1>7. Gone' = Gone
  <2>1. Claimed(row[a], now[p]).exists = row[a].exists
    <3> HIDE DEF a
    <3>1. QED
      BY <1>1, ClaimedRow
  <2>2. \A b \in Alerts : row'[b].exists = row[b].exists
    BY <2>1, ClaimWonEffect
  <2>3. QED
    BY <2>2 DEF Gone
<1> HIDE DEF a
<1>8. Contract!Fire(a)
  BY <1>1, <1>3, <1>4, <1>5, <1>6, <1>7 DEF Contract!Fire
<1>9. QED
  BY <1>8 DEF a

LEMMA DispatchImplements ==
  ASSUME TypeOK, HandsInv, NEW p \in Processors, Dispatch(p)
  PROVE  \E ch \in Channels : Contract!Send(cur[p], mine[p], ch)
<1>1. PICK ch \in Channels : attempts' = attempts \cup {<<cur[p], mine[p], ch>>}
  BY DEF Dispatch
<1>2. UNCHANGED <<row, deliveries, firings, lost, cur, mine>>
  BY DEF Dispatch
<1>3. p \in Owing /\ <<cur[p], mine[p]>> \in Owed
  BY DEF Dispatch, Owing, Owed
<1>4. \A q \in Processors : q \in Owing' <=> q \in Owing
  BY DEF Dispatch, Owing, TypeOK
<1>5. Owed' = Owed /\ Gone' = Gone
  BY <1>2, <1>4, OwedSame DEF Gone
<1>6. QED
  BY <1>1, <1>2, <1>3, <1>5 DEF Contract!Send

LEMMA RecordDeliveryImplements ==
  ASSUME TypeOK, HandsInv, FiringsAccounted, NEW p \in Processors, RecordDelivery(p)
  PROVE  \E ch \in Channels : Contract!Record(cur[p], mine[p], ch)
<1>1. PICK ch \in Channels :
        /\ <<cur[p], mine[p], ch>> \notin deliveries
        /\ deliveries' = deliveries \cup {<<cur[p], mine[p], ch>>}
        /\ pc' = [pc EXCEPT ![p] = IF Channels = ChannelsIn(deliveries', p)
                                   THEN "publish" ELSE "record"]
  BY DEF RecordDelivery, ChannelsIn
<1>2. UNCHANGED <<row, attempts, firings, lost, cur, mine>> /\ Gone' = Gone
  BY DEF RecordDelivery, Gone
<1>3. p \in Owing /\ <<cur[p], mine[p]>> \in Owed /\ cur[p] \in Alerts /\ cur[p] \notin Gone
  BY DEF RecordDelivery, Owing, Owed, Gone, TypeOK
<1>4. \A c \in Channels : <<cur[p], mine[p], c>> \in attempts
  BY DEF RecordDelivery, HandsInv, HandsOK
<1>5. \A q \in Processors \ {p} : /\ q \in Owing' <=> q \in Owing
                                  /\ cur'[q] = cur[q] /\ mine'[q] = mine[q]
  BY <1>1, <1>2 DEF Owing, TypeOK
<1>6. CASE \A c \in Channels : <<cur[p], mine[p], c>> \in deliveries'
  <2>1. Channels = ChannelsIn(deliveries', p)
    BY <1>6 DEF ChannelsIn
  <2>2. p \notin Owing'
    BY <1>1, <2>1 DEF Owing, TypeOK
  <2>3. Owed' = Owed \ {<<cur[p], mine[p]>>}
    BY <1>3, <1>5, <2>2, OwedLess
  <2>4. QED
    BY <1>1, <1>2, <1>3, <1>4, <1>6, <2>3 DEF Contract!Record
<1>7. CASE ~\A c \in Channels : <<cur[p], mine[p], c>> \in deliveries'
  <2>1. Channels # ChannelsIn(deliveries', p)
    BY <1>7 DEF ChannelsIn
  <2>2. p \in Owing'
    BY <1>1, <2>1 DEF Owing, TypeOK
  <2>3. Owed' = Owed
    BY <1>2, <1>3, <1>5, <2>2, OwedSame
  <2>4. QED
    BY <1>1, <1>2, <1>3, <1>4, <1>7, <2>3 DEF Contract!Record
<1>8. QED
  BY <1>6, <1>7

LEMMA ThrowImplements ==
  ASSUME TypeOK, HandsInv, FiringsAccounted, NEW p \in Processors, Throw(p)
  PROVE  (Contract!Lose(cur[p], mine[p]) /\ p \in Owing) \/ UNCHANGED Contract!vars
<1>1. UNCHANGED <<firings, attempts, deliveries>> /\ Gone' = Gone
  BY DEF Throw, Gone
<1>2. p \notin Owing'
  BY DEF Throw, Owing, TypeOK
<1>3. \A q \in Processors \ {p} : /\ q \in Owing' <=> q \in Owing
                                  /\ cur'[q] = cur[q] /\ mine'[q] = mine[q]
  BY DEF Throw, Owing, TypeOK
<1>4. CASE p \in Owing
  <2>1. <<cur[p], mine[p]>> \in Owed /\ lost' = lost \cup {<<cur[p], mine[p]>>}
    BY <1>4 DEF Throw, Owing, Owed
  <2>2. Owed' = Owed \ {<<cur[p], mine[p]>>}
    BY <1>2, <1>3, <1>4, OwedLess
  <2>3. QED
    BY <1>1, <1>4, <2>1, <2>2 DEF Contract!Lose
<1>5. CASE p \notin Owing
  <2>1. lost' = lost
    BY <1>5 DEF Throw, Owing
  <2>2. Owed' = Owed
    BY <1>2, <1>3, <1>5, OwedSame
  <2>3. QED
    BY <1>1, <2>1, <2>2 DEF Contract!vars
<1>6. QED
  BY <1>4, <1>5

LEMMA RemoveImplements ==
  ASSUME TypeOK, NEW a \in Alerts, Remove(a)
  PROVE  Contract!Delete(a)
<1>1. a \notin Gone
  BY DEF Remove, Gone
<1>2. Gone' = Gone \cup {a}
  <2>1. ~row'[a].exists /\ \A b \in Alerts \ {a} : row'[b] = row[b]
    BY DEF Remove, TypeOK, AlertRow
  <2>2. QED
    BY <2>1 DEF Gone
<1>3. Owed' = Owed
  BY DEF Remove, Owed, Owing
<1>4. QED
  BY <1>1, <1>2, <1>3 DEF Remove, Contract!Delete

\* The steps that neither claim, deliver, throw nor delete.
LEMMA OtherStepsStutter ==
  ASSUME TypeOK,
         \/ \E p \in Processors : \/ Begin(p) \/ List(p) \/ NextSignal(p) \/ ClaimRead(p)
                                  \/ ClaimLost(p) \/ Publish(p)
         \/ \E a \in Alerts : Edit(a)
         \/ Tick \/ UNCHANGED vars
  PROVE  UNCHANGED Contract!vars
<1>1. UNCHANGED <<firings, attempts, deliveries, lost>>
  BY DEF Begin, List, NextSignal, ClaimRead, ClaimLost, Publish, Edit, Tick, vars, database
<1>2. Gone' = Gone
  <2>1. ASSUME NEW a \in Alerts, Edit(a) PROVE Gone' = Gone
    <3>1. \A b \in Alerts : row'[b].exists = row[b].exists
      BY <2>1 DEF Edit, TypeOK, AlertRow
    <3>2. QED
      BY <3>1 DEF Gone
  <2>2. CASE row' = row
    BY <2>2 DEF Gone
  <2>3. QED
    BY <2>1, <2>2
    DEF Begin, List, NextSignal, ClaimRead, ClaimLost, Publish, Tick, vars, database
<1>3. Owed' = Owed
  <2>1. ASSUME NEW p \in Processors,
               \/ Begin(p) \/ List(p) \/ NextSignal(p) \/ ClaimRead(p) \/ ClaimLost(p)
               \/ Publish(p)
        PROVE  /\ p \notin Owing /\ p \notin Owing'
               /\ \A q \in Processors \ {p} : /\ q \in Owing' <=> q \in Owing
                                              /\ cur'[q] = cur[q] /\ mine'[q] = mine[q]
    BY <2>1 DEF Begin, List, NextSignal, ClaimRead, ClaimLost, Publish, OutcomeDone, Owing, TypeOK
  <2>2. ASSUME NEW p \in Processors,
               \/ Begin(p) \/ List(p) \/ NextSignal(p) \/ ClaimRead(p) \/ ClaimLost(p)
               \/ Publish(p)
        PROVE  Owed' = Owed
    BY <2>1, <2>2, OwedSame
  <2>3. CASE UNCHANGED <<pc, cur, mine>>
    BY <2>3 DEF Owed, Owing
  <2>4. QED
    BY <2>2, <2>3 DEF Edit, Tick, vars
<1>4. QED
  BY <1>1, <1>2, <1>3 DEF Contract!vars

LEMMA StepImplements ==
  ASSUME TypeOK, InRange, RowMatchesHistory, HandsInv, FiringsAccounted, [Next]_vars
  PROVE  [Contract!Next]_(Contract!vars)
<1>1. ASSUME NEW p \in Processors, p \in Owing
      PROVE  cur[p] \in Alerts /\ mine[p] \in DOMAIN firings[cur[p]]
  BY <1>1 DEF Owing, HandsInv, HandsOK, Working
<1>2. ASSUME NEW p \in Processors, ClaimWon(p) PROVE Contract!Next
  <2>1. cur[p] \in Alerts
    BY <1>2, ClaimWonEffect
  <2>2. QED
    BY <1>2, <2>1, ClaimWonImplements DEF Contract!Next
<1>3. ASSUME NEW p \in Processors, Dispatch(p) PROVE Contract!Next
  <2>1. p \in Owing
    BY <1>3 DEF Dispatch, Owing
  <2>2. QED
    BY <1>1, <1>3, <2>1, DispatchImplements DEF Contract!Next, Contract!See
<1>4. ASSUME NEW p \in Processors, RecordDelivery(p) PROVE Contract!Next
  <2>1. p \in Owing
    BY <1>4 DEF RecordDelivery, Owing
  <2>2. QED
    BY <1>1, <1>4, <2>1, RecordDeliveryImplements DEF Contract!Next, Contract!See
<1>5. ASSUME NEW p \in Processors, Throw(p) PROVE [Contract!Next]_(Contract!vars)
  BY <1>1, <1>5, ThrowImplements DEF Contract!Next, Contract!See
<1>6. ASSUME NEW a \in Alerts, Remove(a) PROVE Contract!Next
  BY <1>6, RemoveImplements DEF Contract!Next
<1>7. QED
  BY <1>2, <1>3, <1>4, <1>5, <1>6, OtherStepsStutter DEF Next, Handle, RecordFails, Abandon

\* The alert runtime implements the delivery contract, for any processors,
\* alerts, channels and cooldowns and any horizon.
THEOREM EngineImplementsDelivery == Spec => ImplementsDelivery
<1>1. Init => Contract!Init
  <2> SUFFICES ASSUME Init PROVE Contract!Init
    OBVIOUS
  <2>1. Owed = {} /\ Gone = {}
    BY DEF Init, Owed, Owing, Gone
  <2>2. QED
    BY <2>1 DEF Init, Contract!Init
<1>2. Init => HandsInv
  BY DEF Init, HandsInv, HandsOK, Working
<1>3. QED
  BY <1>1, <1>2, InRangeInit, InRangeKept, HandsKept, StepImplements, TypeCorrect,
     RowsTellTheHistory, FiringsAreAccounted, PTL
  DEF Spec, ImplementsDelivery, Contract!Spec
=============================================================================
