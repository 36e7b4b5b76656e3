-------------------------- MODULE CollectionProofs ---------------------------
(***************************************************************************)
(* Collecting, for any number of runners, targets and items; and the       *)
(* limiter that paces it, for any number of callers, any capacity and      *)
(* permit, and any error of the clocks that the expiry's margin covers.    *)
(***************************************************************************)
EXTENDS Collection, RateLimiter, FiniteSetTheorems, TLAPS

USE DEF Items, PCs, provider

LEMMA NextTargetTyped ==
  ASSUME pc \in [Runners -> PCs], NEW r \in Runners, NextTarget(r)
  PROVE  /\ pc' \in [Runners -> PCs]
         /\ pc'[r] \in {"fetch", "lookup", "mark"}
         /\ pc'[r] = "fetch" <=> left'[r] # {}
         /\ pc'[r] = "mark" => events'[r] = {}
         /\ \A q \in Runners \ {r} : pc'[q] = pc[q]
BY DEF NextTarget, Goto

\* A record is linked to an event of the same run.
LEMMA LinkRange ==
  ASSUME TypeOK, NEW r \in Runners, Link(r), NEW i \in Items
  PROVE  \/ link'[i] = link[i]
         \/ /\ i \in records[r] /\ link[i] = 0
            /\ link'[i] \in EventAt(i, events[r], records[r])
<1>1. link'[i] = IF i \in records[r] /\ link[i] = 0
                      /\ EventAt(i, events[r], records[r]) \ Used # {}
                  THEN CHOOSE e \in EventAt(i, events[r], records[r]) : TRUE
                  ELSE link[i]
  BY DEF Link
<1>2. EventAt(i, events[r], records[r]) # {} =>
        (CHOOSE e \in EventAt(i, events[r], records[r]) : TRUE)
          \in EventAt(i, events[r], records[r])
  OBVIOUS
<1>3. QED
  BY <1>1, <1>2

\* Every variable stays in its type, whatever fails and whoever else runs.
THEOREM TypeCorrect == Spec => []TypeOK
<1>1. Init => TypeOK
  BY CollectionAssumption DEF Init, TypeOK
<1>2. TypeOK /\ [Next]_vars => TypeOK'
  <2> SUFFICES ASSUME TypeOK, [Next]_vars PROVE TypeOK'
    OBVIOUS
  <2> USE DEF Posted
  <2>1. ASSUME NEW i \in Items, Post(i) PROVE TypeOK'
    <3>1. PICK d \in 1..LastDate : date' = [date EXCEPT ![i] = d]
      BY <2>1 DEF Post
    <3>2. d \in Nat /\ d > 0
      BY CollectionAssumption
    <3>3. late' \subseteq late \cup {i}
      BY <2>1 DEF Post
    <3>4. date' \in [Items -> Nat] /\ late' \subseteq Posted'
      BY <3>1, <3>2, <3>3 DEF TypeOK, Posted
    <3>5. QED
      BY <2>1, <3>4 DEF Post, TypeOK, tables, batch
  <2>2. ASSUME NEW r \in Runners, Begin(r) PROVE TypeOK'
    BY <2>2 DEF Begin, Goto, TypeOK, tables
  <2>3. ASSUME NEW r \in Runners, NEW t \in Targets, Fetch(r, t) PROVE TypeOK'
    <3>1. NewEvents(t, since[r]) \subseteq Items /\ NewRecords(t, since[r]) \subseteq Items
      BY DEF NewEvents, NewRecords, Shown, Posted
    <3>2. pc' \in [Runners -> PCs]
      BY <2>3, NextTargetTyped DEF Fetch, TypeOK
    <3>3. QED
      BY <2>3, <3>1, <3>2 DEF Fetch, TypeOK, tables
  <2>4. ASSUME NEW r \in Runners, NEW t \in Targets, SkipTarget(r, t) PROVE TypeOK'
    <3>1. pc' \in [Runners -> PCs]
      BY <2>4, NextTargetTyped DEF SkipTarget, TypeOK
    <3>2. QED
      BY <2>4, <3>1 DEF SkipTarget, TypeOK, tables
  <2>5. ASSUME NEW r \in Runners, Lookup(r) PROVE TypeOK'
    BY <2>5 DEF Lookup, Goto, TypeOK, tables
  <2>6. ASSUME NEW r \in Runners, Create(r) PROVE TypeOK'
    <3>1. created' \in [Items -> Nat]
      BY <2>6 DEF Create, TypeOK
    <3>2. QED
      BY <2>6, <3>1 DEF Create, Goto, TypeOK, batch
  <2>7. ASSUME NEW r \in Runners, Link(r) PROVE TypeOK'
    <3>1. \A i \in Items : link'[i] \in Items \cup {0}
      BY <2>7, LinkRange DEF TypeOK, EventAt
    <3>2. link' = [i \in Items |-> link'[i]]
      BY <2>7 DEF Link
    <3>3. link' \in [Items -> Items \cup {0}]
      BY <3>1, <3>2
    <3>4. QED
      BY <2>7, <3>3 DEF Link, Goto, TypeOK, batch
  <2>8. ASSUME NEW r \in Runners, Cluster(r) PROVE TypeOK'
    BY <2>8 DEF Cluster, Goto, TypeOK, batch
  <2>9. ASSUME NEW r \in Runners, Publish(r) PROVE TypeOK'
    BY <2>9 DEF Publish, Goto, TypeOK
  <2>10. ASSUME NEW r \in Runners, Mark(r) PROVE TypeOK'
    BY <2>10 DEF Mark, Goto, Newest, TypeOK, batch
  <2>11. ASSUME NEW r \in Runners, Fail(r) PROVE TypeOK'
    BY <2>11 DEF Fail, Goto, TypeOK, tables, batch
  <2>12. CASE UNCHANGED vars
    BY <2>12 DEF vars, TypeOK
  <2>13. QED
    BY <2>1, <2>2, <2>3, <2>4, <2>5, <2>6, <2>7, <2>8, <2>9, <2>10, <2>11, <2>12
    DEF Next, Work
<1>3. QED
  BY <1>1, <1>2, PTL DEF Spec

(***************************************************************************)
(* The mark is the date of a stored event.  Rows is inductive: a run's     *)
(* drafts have appeared, and from the moment createMany is over they all   *)
(* have rows, its own or another run's; setState comes after that.         *)
(***************************************************************************)
Written == {"link", "cluster", "publish", "mark"}

RunsRows ==
  \A r \in Runners :
    /\ events[r] \subseteq Posted /\ fresh[r] \subseteq events[r]
    /\ pc[r] = "create" => events[r] \subseteq stored \cup fresh[r]
    /\ pc[r] \in Written => events[r] \subseteq stored

Rows == stored \subseteq Posted /\ RunsRows /\ MarkIsStored

\* An item that has appeared keeps its date.
LEMMA DatesStay ==
  ASSUME TypeOK, [Next]_vars
  PROVE  /\ \A i \in Posted : date'[i] = date[i]
         /\ Posted \subseteq Posted'
<1>1. ASSUME NEW i \in Items, Post(i) PROVE \A j \in Posted : date'[j] = date[j]
  BY <1>1 DEF Post, Posted, TypeOK
<1>2. CASE UNCHANGED date
  BY <1>2 DEF Posted
<1>3. \A i \in Posted : date'[i] = date[i]
  BY <1>1, <1>2 DEF Next, Work, vars, Begin, Fetch, SkipTarget, Lookup, Create, Link,
    Cluster, Publish, Mark, Fail
<1>4. QED
  BY <1>3 DEF Posted

\* Event rows are never deleted.
LEMMA StoredGrows ==
  ASSUME TypeOK, [Next]_vars
  PROVE  stored \subseteq stored'
BY DEF Next, Work, vars, tables, Post, Begin, Fetch, SkipTarget, Lookup, Create, Link,
  Cluster, Publish, Mark, Fail

LEMMA RowsInductive == TypeOK /\ Rows /\ [Next]_vars => Rows'
<1> SUFFICES ASSUME TypeOK, Rows, [Next]_vars PROVE Rows'
  OBVIOUS
<1> USE DEF Rows, RunsRows, Written
<1>1. stored \subseteq stored' /\ Posted \subseteq Posted'
      /\ \A i \in Posted : date'[i] = date[i]
  BY StoredGrows, DatesStay
<1>2. ASSUME mark' = mark PROVE MarkIsStored'
  BY <1>1, <1>2 DEF MarkIsStored
<1>3. ASSUME NEW i \in Items, Post(i) PROVE Rows'
  BY <1>1, <1>2, <1>3 DEF Post, tables, batch
<1>4. ASSUME NEW r \in Runners, Begin(r) PROVE Rows'
  BY <1>1, <1>2, <1>4 DEF Begin, Goto, tables, TypeOK, Posted
<1>5. ASSUME NEW r \in Runners, NEW t \in Targets, Fetch(r, t) PROVE Rows'
  <2>1. NewEvents(t, since[r]) \subseteq Posted
    BY DEF NewEvents, Shown
  <2>2. events'[r] = events[r] \cup NewEvents(t, since[r])
        /\ \A q \in Runners \ {r} : events'[q] = events[q]
    BY <1>5 DEF Fetch, TypeOK
  <2>3. pc'[r] \in {"fetch", "lookup", "mark"} /\ (pc'[r] = "mark" => events'[r] = {})
        /\ \A q \in Runners \ {r} : pc'[q] = pc[q]
    BY <1>5, NextTargetTyped DEF Fetch, TypeOK
  <2>4. UNCHANGED <<stored, mark, fresh, date>>
    BY <1>5 DEF Fetch, tables
  <2>5. QED
    BY <1>1, <1>2, <2>1, <2>2, <2>3, <2>4 DEF Posted
<1>6. ASSUME NEW r \in Runners, NEW t \in Targets, SkipTarget(r, t) PROVE Rows'
  <2>1. pc'[r] \in {"fetch", "lookup", "mark"} /\ (pc'[r] = "mark" => events'[r] = {})
        /\ \A q \in Runners \ {r} : pc'[q] = pc[q]
    BY <1>6, NextTargetTyped DEF SkipTarget, TypeOK
  <2>2. UNCHANGED <<stored, mark, fresh, date, events>>
    BY <1>6 DEF SkipTarget, tables
  <2>3. QED
    BY <1>1, <1>2, <2>1, <2>2 DEF Posted
<1>7. ASSUME NEW r \in Runners, Lookup(r) PROVE Rows'
  BY <1>1, <1>2, <1>7 DEF Lookup, Goto, tables, TypeOK, Posted
<1>8. ASSUME NEW r \in Runners, Create(r) PROVE Rows'
  BY <1>1, <1>2, <1>8 DEF Create, Goto, batch, TypeOK, Posted
<1>9. ASSUME NEW r \in Runners, Link(r) \/ Cluster(r) PROVE Rows'
  BY <1>1, <1>2, <1>9 DEF Link, Cluster, Goto, batch, TypeOK, Posted
<1>10. ASSUME NEW r \in Runners, Publish(r) PROVE Rows'
  BY <1>1, <1>2, <1>10 DEF Publish, Goto, TypeOK, Posted
<1>11. ASSUME NEW r \in Runners, Mark(r) PROVE Rows'
  <2>1. MarkIsStored'
    BY <1>1, <1>2, <1>11 DEF Mark, MarkIsStored, Newest
  <2>2. QED
    BY <1>11, <2>1 DEF Mark, Goto, batch, TypeOK, Posted
<1>12. ASSUME NEW r \in Runners, Fail(r) PROVE Rows'
  BY <1>1, <1>2, <1>12 DEF Fail, Goto, tables, batch, TypeOK, Posted
<1>13. CASE UNCHANGED vars
  BY <1>2, <1>13 DEF vars, Posted
<1>14. QED
  BY <1>3, <1>4, <1>5, <1>6, <1>7, <1>8, <1>9, <1>10, <1>11, <1>12, <1>13 DEF Next, Work

\* lastItemAt is null or the date of a stored event: no connector, no failure
\* and no other replica makes the mark run ahead of the table.
THEOREM MarkNeverRunsAhead == Spec => []MarkIsStored
<1>1. Init => Rows
  BY DEF Init, Rows, RunsRows, Written, MarkIsStored
<1>2. Rows => MarkIsStored
  BY DEF Rows
<1>3. QED
  BY <1>1, <1>2, RowsInductive, TypeCorrect, PTL DEF Spec

(***************************************************************************)
(* The positional zip.  When a connector emits one record per event, the   *)
(* two lists are equal and equal places mean equal items.                  *)
(***************************************************************************)
LEMMA PlacesDiffer ==
  ASSUME LastItem \in Nat, NEW S \in SUBSET Items, NEW i \in S, NEW e \in S,
         Place(i, S) = Place(e, S)
  PROVE  i = e
<1>1. IsFiniteSet(S)
  <2>1. IsFiniteSet(1..LastItem)
    BY 1 \in Int, LastItem \in Int, FS_Interval
  <2>2. QED
    BY <2>1, FS_Subset
<1>2. \A T \in SUBSET S : IsFiniteSet(T)
  BY <1>1, FS_Subset
<1>3. ASSUME NEW T, IsFiniteSet(T), NEW U \in SUBSET T, U # T
      PROVE  Cardinality(U) # Cardinality(T)
  BY <1>3, FS_Subset
<1>4. \A j \in S : j \in Int
  OBVIOUS
<1>5. ASSUME NEW a \in S, NEW b \in S, a < b PROVE Place(a, S) # Place(b, S)
  <2> DEFINE A == {j \in S : j > a}
             B == {j \in S : j > b}
  <2>1. IsFiniteSet(A)
    BY <1>2
  <2>2. B \subseteq A /\ b \in A /\ b \notin B
    <3>1. a \in Int /\ b \in Int
      BY <1>4
    <3>2. b > a /\ ~(b > b)
      BY <1>5, <3>1
    <3>3. \A j \in S : j > b => j > a
      BY <1>4, <1>5, <3>1
    <3>4. QED
      BY <3>2, <3>3
  <2>3. B \in SUBSET A /\ B # A
    BY <2>2
  <2>4. Cardinality(B) # Cardinality(A)
    <3> HIDE DEF A, B
    <3>1. QED
      BY <1>3, <2>1, <2>3
  <2>5. QED
    BY <2>4 DEF Place
<1>6. QED
  BY <1>4, <1>5

Aligned ==
  /\ \A r \in Runners : records[r] = events[r]
  /\ RecordsMatchEvents

LEMMA LinkAligned ==
  ASSUME TypeOK, Aligned, NEW r \in Runners, Link(r)
  PROVE  \A i \in Items :
           /\ i \notin events[r] => link'[i] = link[i]
           /\ i \in events[r] => link'[i] = i
<1> SUFFICES ASSUME NEW i \in Items
             PROVE  /\ i \notin events[r] => link'[i] = link[i]
                    /\ i \in events[r] => link'[i] = i
  OBVIOUS
<1>1. records[r] = events[r] /\ events[r] \subseteq Items /\ \A j \in Items : link[j] \in {0, j}
  BY DEF Aligned, RecordsMatchEvents, TypeOK
<1>2. link'[i] = IF i \in records[r] /\ link[i] = 0
                      /\ EventAt(i, events[r], records[r]) \ Used # {}
                  THEN CHOOSE e \in EventAt(i, events[r], records[r]) : TRUE
                  ELSE link[i]
  BY DEF Link
<1>3. ASSUME i \in events[r] PROVE EventAt(i, events[r], records[r]) = {i}
  BY <1>1, <1>3, PlacesDiffer, CollectionAssumption DEF EventAt
<1>4. ASSUME link[i] = 0 PROVE i \notin Used
  BY <1>1, <1>4 DEF Used
<1>5. QED
  BY <1>1, <1>2, <1>3, <1>4

LEMMA AlignedInductive ==
  ASSUME ~RecordsAll
  PROVE  TypeOK /\ Aligned /\ [Next]_vars => Aligned'
<1> SUFFICES ASSUME TypeOK, Aligned, [Next]_vars PROVE Aligned'
  OBVIOUS
<1> USE DEF Aligned
<1>1. ASSUME NEW r \in Runners, Begin(r) PROVE Aligned'
  BY <1>1 DEF Begin, tables, TypeOK, RecordsMatchEvents
<1>2. ASSUME NEW r \in Runners, NEW t \in Targets, Fetch(r, t) PROVE Aligned'
  BY <1>2 DEF Fetch, NewRecords, tables, TypeOK, RecordsMatchEvents
<1>3. ASSUME NEW r \in Runners, Link(r) PROVE Aligned'
  <2>1. RecordsMatchEvents'
    BY <1>3, LinkAligned DEF RecordsMatchEvents
  <2>2. QED
    BY <1>3, <2>1 DEF Link, batch
<1>4. CASE UNCHANGED <<link, events, records>>
  BY <1>4 DEF RecordsMatchEvents
<1>5. QED
  BY <1>1, <1>2, <1>3, <1>4 DEF Next, Work, vars, tables, batch, Post, SkipTarget, Lookup,
    Create, Cluster, Publish, Mark, Fail

\* A connector that emits exactly one record per event never has one linked to
\* another's event: not after a failed run, nor with other replicas at work.
THEOREM RecordsNeverShift ==
  ASSUME ~RecordsAll
  PROVE  Spec => []RecordsMatchEvents
<1>1. Init => Aligned
  BY DEF Init, Aligned, RecordsMatchEvents
<1>2. Aligned => RecordsMatchEvents
  BY DEF Aligned
<1>3. QED
  BY <1>1, <1>2, AlignedInductive, TypeCorrect, PTL DEF Spec

(***************************************************************************)
(* No gaps.  Of the items that appeared in time, what is at or below the   *)
(* mark is Done, which it stays, and so is what is at or below the mark of *)
(* a run; a run that has fetched holds, up to its newest event, everything *)
(* that is not Done.                                                       *)
(***************************************************************************)
Done(i) == i \in stored /\ link[i] = i

InTime == Posted \ (Quiet \cup late)

\* What a run in progress knows and holds.
HoldsTheRest(r) ==
  pc[r] # "idle" =>
    /\ \A i \in InTime : date[i] <= since[r] => Done(i)
    /\ pc[r] = "fetch" => left[r] = Targets /\ events[r] = {}
    /\ pc[r] # "fetch" =>
         \A e \in events[r], i \in InTime : date[i] <= date[e] => i \in events[r] \/ Done(i)
    /\ pc[r] \in {"cluster", "publish", "mark"} => \A e \in events[r] : Done(e)

DoneBelowMark == \A i \in InTime : date[i] <= mark => Done(i)

NoGapsInv == (\A r \in Runners : HoldsTheRest(r)) /\ DoneBelowMark

LEMMA DoneStays ==
  ASSUME TypeOK, Aligned, [Next]_vars, NEW i \in Items, Done(i)
  PROVE  Done(i)'
<1>1. i \in stored'
  BY StoredGrows DEF Done
<1>2. link'[i] = i
  <2>1. ASSUME NEW r \in Runners, Link(r) PROVE link'[i] = i
    BY <2>1, LinkAligned DEF Done
  <2>2. CASE UNCHANGED link
    BY <2>2 DEF Done
  <2>3. QED
    BY <2>1, <2>2 DEF Next, Work, vars, tables, Post, Begin, Fetch, SkipTarget, Lookup,
      Create, Cluster, Publish, Mark, Fail
<1>3. QED
  BY <1>1, <1>2 DEF Done

\* An item that has just appeared in time is dated above all that runs know.
LEMMA PostNoGaps ==
  ASSUME TypeOK, Rows, NoGapsInv, NEW i \in Items, Post(i)
  PROVE  NoGapsInv'
<1>1. PICK d \in 1..LastDate :
        /\ date' = [date EXCEPT ![i] = d]
        /\ late' = IF TooLate(d) THEN late \cup {i} ELSE late
  BY DEF Post
<1>2. UNCHANGED <<tables, pc, batch>> /\ date[i] = 0
  BY DEF Post
<1>3. i \notin Posted /\ date'[i] = d /\ \A j \in Items \ {i} : date'[j] = date[j]
  BY <1>1, <1>2 DEF TypeOK, Posted
<1>4. \A j \in InTime' : j \in InTime \/ (j = i /\ ~TooLate(d))
  BY <1>1, <1>3 DEF InTime, Posted
<1>5. \A j \in Items : Done(j)' = Done(j)
  BY <1>2 DEF Done, tables
<1>6. \A j \in InTime : j \in Items /\ j # i
  BY <1>3 DEF InTime, Posted
<1>7. DoneBelowMark'
  <2>1. d <= mark => TooLate(d)
    BY DEF TooLate
  <2>2. QED
    BY <1>2, <1>3, <1>4, <1>5, <1>6, <2>1 DEF NoGapsInv, DoneBelowMark, tables
<1>8. ASSUME NEW r \in Runners PROVE HoldsTheRest(r)'
  <2>1. HoldsTheRest(r)
    BY DEF NoGapsInv
  <2>2. UNCHANGED <<pc, since, left, events>>
    BY <1>2 DEF batch
  <2>3. events[r] \subseteq Posted /\ \A e \in Posted : date'[e] = date[e] /\ e \in Items
    BY <1>3 DEF Rows, RunsRows, Posted
  <2>4. pc[r] # "idle" /\ ~TooLate(d) => ~(d <= since[r]) /\ \A e \in events[r] : ~(d <= date[e])
    BY DEF TooLate
  <2>5. ASSUME pc[r] # "idle", NEW j \in InTime', date'[j] <= since[r] PROVE Done(j)'
    BY <1>3, <1>4, <1>5, <1>6, <2>1, <2>4, <2>5 DEF HoldsTheRest
  <2>6. ASSUME pc[r] \notin {"idle", "fetch"}, NEW e \in events[r], NEW j \in InTime',
               date'[j] <= date'[e]
        PROVE  j \in events[r] \/ Done(j)'
    BY <1>3, <1>4, <1>5, <1>6, <2>1, <2>3, <2>4, <2>6 DEF HoldsTheRest
  <2>7. QED
    BY <1>5, <2>1, <2>2, <2>3, <2>5, <2>6 DEF HoldsTheRest
<1>9. QED
  BY <1>7, <1>8 DEF NoGapsInv

LEMMA NoGapsInductive ==
  ASSUME OneRequest
  PROVE  TypeOK /\ Rows /\ Aligned /\ NoGapsInv /\ [Next]_vars => NoGapsInv'
<1> SUFFICES ASSUME TypeOK, Rows, Aligned, NoGapsInv, [Next]_vars PROVE NoGapsInv'
  OBVIOUS
<1> USE DEF NoGapsInv
<1>1. \A i \in Items : Done(i) => Done(i)'
  BY DoneStays
<1>2. InTime \subseteq Items /\ \A r \in Runners : events[r] \subseteq Posted
  BY DEF InTime, Posted, Rows, RunsRows
<1>3. ASSUME UNCHANGED <<provider, mark>> PROVE DoneBelowMark'
  BY <1>1, <1>2, <1>3 DEF DoneBelowMark, InTime, Posted
<1>4. ASSUME UNCHANGED provider, NEW q \in Runners, pc'[q] = pc[q], since'[q] = since[q],
             left'[q] = left[q], events'[q] = events[q]
      PROVE  HoldsTheRest(q)'
  <2>1. InTime' = InTime /\ HoldsTheRest(q)
    BY <1>4 DEF InTime, Posted
  <2>2. QED
    BY <1>1, <1>2, <1>4, <2>1 DEF HoldsTheRest, Posted
<1>5. ASSUME NEW r \in Runners, Begin(r) PROVE NoGapsInv'
  <2>1. UNCHANGED <<tables, provider>> /\ InTime' = InTime
    BY <1>5 DEF Begin, InTime, Posted
  <2>2. pc'[r] = "fetch" /\ since'[r] = mark /\ left'[r] = Targets /\ events'[r] = {}
    BY <1>5 DEF Begin, Goto, TypeOK
  <2>3. \A q \in Runners \ {r} : /\ pc'[q] = pc[q] /\ since'[q] = since[q]
                                  /\ left'[q] = left[q] /\ events'[q] = events[q]
    BY <1>5 DEF Begin, Goto, TypeOK
  <2>4. HoldsTheRest(r)'
    BY <1>1, <1>2, <2>1, <2>2 DEF HoldsTheRest, DoneBelowMark
  <2>5. QED
    BY <1>3, <1>4, <2>1, <2>3, <2>4 DEF tables
<1>6. ASSUME NEW r \in Runners, NEW t \in Targets, Fetch(r, t) PROVE NoGapsInv'
  <2>1. Targets = {t}
    BY DEF OneRequest
  <2>2. HoldsTheRest(r) /\ pc[r] = "fetch" /\ left[r] = Targets /\ events[r] = {}
    BY <1>6 DEF Fetch, HoldsTheRest
  <2>3. UNCHANGED <<tables, provider, since>> /\ InTime' = InTime
    BY <1>6 DEF Fetch, InTime, Posted
  <2>4. left'[r] = {} /\ pc'[r] \in {"lookup", "mark"} /\ (pc'[r] = "mark" => events'[r] = {})
        /\ \A q \in Runners \ {r} : pc'[q] = pc[q] /\ left'[q] = left[q]
    BY <1>6, <2>1, <2>2, NextTargetTyped DEF Fetch, TypeOK
  <2>5. events'[r] = NewEvents(t, since[r]) /\ \A q \in Runners \ {r} : events'[q] = events[q]
    BY <1>6, <2>2 DEF Fetch, TypeOK
  <2>6. ASSUME NEW i \in InTime PROVE i \in NewEvents(t, since[r]) \/ date[i] <= since[r]
    <3>1. i \in Posted /\ i \in Items /\ i \notin Quiet /\ TargetOf[i] = t
      BY <2>1, CollectionAssumption DEF InTime, Posted
    <3>2. date[i] \in Nat /\ since[r] \in Nat
      BY <3>1 DEF TypeOK
    <3>3. QED
      BY <3>1, <3>2 DEF NewEvents, Shown
  <2>7. \A i \in InTime : i \in events'[r] \/ Done(i)'
    BY <1>1, <1>2, <2>2, <2>5, <2>6 DEF HoldsTheRest
  <2>8. \A i \in InTime' : date'[i] <= since'[r] => Done(i)'
    BY <1>1, <1>2, <2>2, <2>3 DEF HoldsTheRest
  <2>9. HoldsTheRest(r)'
    BY <2>3, <2>4, <2>7, <2>8 DEF HoldsTheRest
  <2>10. QED
    BY <1>3, <1>4, <2>3, <2>4, <2>5, <2>9 DEF tables
<1>7. ASSUME NEW r \in Runners, NEW t \in Targets, SkipTarget(r, t) PROVE NoGapsInv'
  <2>1. HoldsTheRest(r) /\ pc[r] = "fetch" /\ left[r] = {t} /\ events[r] = {}
    BY <1>7 DEF SkipTarget, HoldsTheRest, OneRequest
  <2>2. UNCHANGED <<tables, provider, since, events>> /\ InTime' = InTime
    BY <1>7 DEF SkipTarget, InTime, Posted
  <2>3. left'[r] = {} /\ pc'[r] = "mark"
        /\ \A q \in Runners \ {r} : pc'[q] = pc[q] /\ left'[q] = left[q]
    BY <1>7, <2>1 DEF SkipTarget, NextTarget, Goto, TypeOK
  <2>4. HoldsTheRest(r)'
    BY <1>1, <1>2, <2>1, <2>2, <2>3 DEF HoldsTheRest
  <2>5. QED
    BY <1>3, <1>4, <2>2, <2>3, <2>4 DEF tables
\* A run moves on inside its handling of what it fetched.
<1>8. ASSUME NEW r \in Runners, NEW where, Goto(r, where), UNCHANGED <<provider, since, left, events>>,
             pc[r] \notin {"idle", "fetch"} \/ where = "idle", where # "fetch",
             where \in {"cluster", "publish", "mark"} => \A e \in events[r] : Done(e)'
      PROVE  \A q \in Runners : HoldsTheRest(q)'
  <2>1. pc'[r] = where /\ \A q \in Runners \ {r} : pc'[q] = pc[q]
    BY <1>8 DEF Goto, TypeOK
  <2>2. InTime' = InTime /\ HoldsTheRest(r)
    BY <1>8 DEF InTime, Posted
  <2>3. HoldsTheRest(r)'
    BY <1>1, <1>2, <1>8, <2>1, <2>2 DEF HoldsTheRest, Posted
  <2>4. QED
    BY <1>4, <1>8, <2>1, <2>3
<1>9. ASSUME NEW r \in Runners, Lookup(r) PROVE NoGapsInv'
  <2>1. \A q \in Runners : HoldsTheRest(q)'
    BY <1>8, <1>9 DEF Lookup
  <2>2. QED
    BY <1>3, <1>9, <2>1 DEF Lookup, tables
<1>10. ASSUME NEW r \in Runners, Create(r) PROVE NoGapsInv'
  BY <1>3, <1>8, <1>10 DEF Create, batch
<1>11. ASSUME NEW r \in Runners, Link(r) PROVE NoGapsInv'
  <2>1. \A e \in events[r] : Done(e)'
    BY <1>11, LinkAligned DEF Link, Done, Rows, RunsRows, Written, TypeOK
  <2>2. QED
    BY <1>3, <1>8, <1>11, <2>1 DEF Link, batch
<1>12. ASSUME NEW r \in Runners, Cluster(r) \/ Publish(r) PROVE NoGapsInv'
  <2>1. \A e \in events[r] : Done(e)'
    BY <1>1, <1>2, <1>12 DEF Cluster, Publish, HoldsTheRest, Posted
  <2>2. CASE Cluster(r)
    BY <1>3, <1>8, <2>1, <2>2 DEF Cluster, batch
  <2>3. CASE Publish(r)
    BY <1>3, <1>8, <2>1, <2>3 DEF Publish
  <2>4. QED
    BY <1>12, <2>2, <2>3
<1>13. ASSUME NEW r \in Runners, Mark(r) PROVE NoGapsInv'
  <2>1. \A q \in Runners : HoldsTheRest(q)'
    BY <1>8, <1>13 DEF Mark, batch
  <2>2. UNCHANGED <<provider, stored, link>> /\ InTime' = InTime /\ HoldsTheRest(r)
    BY <1>13 DEF Mark, InTime, Posted
  <2>3. ASSUME NEW e \in events[r], mark' = date[e] PROVE DoneBelowMark'
    <3>1. \A i \in InTime : date[i] <= date[e] => i \in events[r] \/ Done(i)
      BY <1>13, <2>2 DEF Mark, HoldsTheRest
    <3>2. \A i \in events[r] : Done(i)
      BY <1>13, <2>2 DEF Mark, HoldsTheRest
    <3>3. QED
      BY <2>2, <2>3, <3>1, <3>2 DEF DoneBelowMark, Done
  <2>4. QED
    BY <1>3, <1>13, <2>1, <2>2, <2>3 DEF Mark, Newest
<1>14. ASSUME NEW r \in Runners, Fail(r) PROVE NoGapsInv'
  BY <1>3, <1>8, <1>14 DEF Fail, tables, batch
<1>15. CASE UNCHANGED vars
  BY <1>3, <1>4, <1>15 DEF vars
<1>16. QED
  BY PostNoGaps, <1>5, <1>6, <1>7, <1>9, <1>10, <1>11, <1>12, <1>13, <1>14, <1>15
  DEF Next, Work

\* What DEPLOYMENT.md promises of a restarted worker, as far as it is true:
\* with one request per poll nothing at or below the high-water mark is
\* missing but what appeared too late for it, whatever dates the items have.
THEOREM OneRequestLeavesNoGaps ==
  ASSUME OneRequest
  PROVE  Spec => []NoGaps
<1>1. ~RecordsAll
  BY DEF OneRequest
<1>2. Init => Rows /\ Aligned
  BY DEF Init, Rows, RunsRows, Written, MarkIsStored, Aligned, RecordsMatchEvents
<1>3. Init => NoGapsInv
  BY DEF Init, NoGapsInv, HoldsTheRest, DoneBelowMark, InTime, Posted
<1>4. TypeOK /\ Rows /\ Aligned /\ [Next]_vars => Aligned'
  BY <1>1, AlignedInductive
<1>5. TypeOK /\ Rows /\ Aligned /\ NoGapsInv /\ [Next]_vars => NoGapsInv'
  BY NoGapsInductive
<1>6. NoGapsInv => NoGaps
  BY DEF NoGapsInv, NoGaps, DoneBelowMark, Done, InTime, Posted
<1>7. QED
  BY <1>2, <1>3, <1>4, <1>5, <1>6, RowsInductive, TypeCorrect, PTL DEF Spec

(***************************************************************************)
(* Created events are handled: what a run was told it created stays in its *)
(* hands until it has been clustered and pushed, or is dropped with it.    *)
(***************************************************************************)
LEMMA HeldGrows ==
  ASSUME NEW phases, NEW r \in Runners,
         \A q \in Runners \ {r} : pc'[q] = pc[q] /\ fresh'[q] = fresh[q],
         NEW S, pc[r] \in phases => fresh[r] \subseteq S \cup Held(phases)'
  PROVE  Held(phases) \subseteq S \cup Held(phases)'
<1> SUFFICES ASSUME NEW i \in Held(phases) PROVE i \in S \cup Held(phases)'
  OBVIOUS
<1>1. PICK q \in Runners : pc[q] \in phases /\ i \in fresh[q]
  BY DEF Held
<1>2. CASE q = r
  BY <1>1, <1>2
<1>3. CASE q # r
  BY <1>1, <1>3 DEF Held
<1>4. QED
  BY <1>2, <1>3

LEMMA InHeld ==
  ASSUME NEW phases, NEW r \in Runners, pc'[r] \in phases
  PROVE  fresh'[r] \subseteq Held(phases)'
BY DEF Held

LEMMA HandledKept ==
  ASSUME TypeOK, CreatedAreHandled, [Next]_vars
  PROVE  CreatedAreHandled'
<1> DEFINE C == {"link", "cluster"}
           P == {"link", "cluster", "publish"}
<1>1. CASE UNCHANGED <<stored, clustered, published, dropped, pc, fresh>>
  BY <1>1 DEF CreatedAreHandled, Held
<1>2. SUFFICES ASSUME NEW r \in Runners,
                      Begin(r) \/ Work(r) \/ Fail(r) \/ \E t \in Targets : SkipTarget(r, t)
               PROVE  CreatedAreHandled'
  BY <1>1 DEF Next, Post, vars, tables, batch
<1>3. \A q \in Runners \ {r} : pc'[q] = pc[q] /\ fresh'[q] = fresh[q]
  BY <1>2 DEF Begin, Work, Fail, SkipTarget, Fetch, Lookup, Create, Link, Cluster, Publish,
              Mark, NextTarget, Goto, batch, TypeOK
<1>4. ASSUME stored' = stored, clustered' = clustered, published' = published,
             pc[r] \in P => fresh[r] \subseteq dropped',
             dropped \subseteq dropped'
      PROVE  CreatedAreHandled'
  <2>1. Held(C) \subseteq dropped' \cup Held(C)' /\ Held(P) \subseteq dropped' \cup Held(P)'
    BY <1>3, <1>4, HeldGrows
  <2>2. QED
    BY <1>4, <2>1 DEF CreatedAreHandled
<1>5. CASE Begin(r) \/ Lookup(r) \/ Mark(r) \/ \E t \in Targets : Fetch(r, t) \/ SkipTarget(r, t)
  <2>1. /\ pc[r] \notin P
        /\ UNCHANGED <<stored, clustered, published, dropped>>
    BY <1>5 DEF Begin, Lookup, Mark, Fetch, SkipTarget, tables
  <2>2. QED
    BY <1>4, <2>1
<1>6. CASE Fail(r)
  BY <1>4, <1>6 DEF Fail
<1>7. CASE Create(r)
  <2>1. /\ stored' = stored \cup fresh[r] /\ fresh' = fresh /\ pc'[r] = "link" /\ pc[r] = "create"
        /\ UNCHANGED <<clustered, published, dropped>>
    BY <1>7 DEF Create, Goto, batch, TypeOK
  <2>2. Held(C) \subseteq dropped \cup Held(C)' /\ Held(P) \subseteq dropped \cup Held(P)'
    BY <1>3, <2>1, HeldGrows
  <2>3. fresh[r] \subseteq Held(C)' /\ fresh[r] \subseteq Held(P)'
    BY <2>1, InHeld
  <2>4. QED
    BY <2>1, <2>2, <2>3 DEF CreatedAreHandled
<1>8. CASE Link(r)
  <2>1. /\ fresh' = fresh /\ pc[r] = "link"
        /\ fresh[r] = {} \/ pc'[r] = "cluster"
        /\ UNCHANGED <<stored, clustered, published, dropped>>
    BY <1>8 DEF Link, Goto, batch, TypeOK
  <2>2. fresh[r] \subseteq Held(C)' /\ fresh[r] \subseteq Held(P)'
    BY <2>1, InHeld
  <2>3. Held(C) \subseteq dropped \cup Held(C)' /\ Held(P) \subseteq dropped \cup Held(P)'
    BY <1>3, <2>2, HeldGrows
  <2>4. QED
    BY <2>1, <2>3 DEF CreatedAreHandled
<1>9. CASE Cluster(r)
  <2>1. /\ fresh' = fresh /\ pc[r] = "cluster" /\ pc'[r] = "publish"
        /\ clustered' = clustered \cup fresh[r]
        /\ UNCHANGED <<stored, published, dropped>>
    BY <1>9 DEF Cluster, Goto, batch, TypeOK
  <2>2. fresh[r] \subseteq Held(P)'
    BY <2>1, InHeld
  <2>3. Held(C) \subseteq fresh[r] \cup Held(C)' /\ Held(P) \subseteq dropped \cup Held(P)'
    BY <1>3, <2>2, HeldGrows
  <2>4. QED
    BY <2>1, <2>3 DEF CreatedAreHandled
<1>10. CASE Publish(r)
  <2>1. /\ pc[r] = "publish"
        /\ \E i \in fresh[r] : /\ published' = published \cup {i}
                               /\ fresh'[r] = fresh[r] \ {i}
                               /\ fresh[r] = {i} \/ pc'[r] = "publish"
        /\ UNCHANGED <<stored, clustered, dropped>>
    BY <1>10 DEF Publish, Goto, TypeOK
  <2>2. fresh[r] \subseteq published' \cup Held(P)'
    BY <2>1, InHeld
  <2>3. Held(C) \subseteq dropped \cup Held(C)' /\ Held(P) \subseteq published' \cup Held(P)'
    BY <1>3, <2>1, <2>2, HeldGrows
  <2>4. published \subseteq published'
    BY <2>1
  <2>5. QED
    BY <2>1, <2>3, <2>4 DEF CreatedAreHandled
<1>11. QED
  BY <1>2, <1>5, <1>6, <1>7, <1>8, <1>9, <1>10 DEF Work

\* Whatever is stored has been clustered and pushed, or a run holds it that
\* will see to it, or the run that was told it created it failed.
THEOREM CreatedAlwaysHandled == Spec => []CreatedAreHandled
<1>1. Init => CreatedAreHandled
  BY DEF Init, CreatedAreHandled
<1>2. QED
  BY <1>1, TypeCorrect, HandledKept, PTL DEF Spec

------------------------------------------------------------------------------
\* The limiter (RateLimiter).

(***************************************************************************)
(* What makes the bound inductive: the books balance at the bucket's own   *)
(* clock, which a reading set at most Slack away from the time, and which  *)
(* in Redis lies at most Slack after the moment the entry was touched.     *)
(***************************************************************************)
ClockInv ==
  /\ touched <= time
  /\ ts <= time + Slack
  /\ shared /\ exists => ts <= touched + Slack

Books == spent + tokens <= Capacity + given + (ts - opened) + rewound

\* A new entry starts full, which the books must have room for.
Room ==
  ~exists => spent + Capacity <= Capacity + given + (ts - opened) + rewound

LimiterInv == LimiterTypeOK /\ ClockInv /\ Books /\ Room
-----------------------------------------------------------------------------
LEMMA Arithmetic ==
  ASSUME NEW a \in Int, NEW b \in Int
  PROVE  /\ Larger(a, b) \in Int /\ Larger(a, b) >= a /\ Larger(a, b) >= b
         /\ Larger(a, b) = a \/ Larger(a, b) = b
         /\ Lesser(a, b) \in Int /\ Lesser(a, b) <= a /\ Lesser(a, b) <= b
         /\ Lesser(a, b) = a \/ Lesser(a, b) = b
BY DEF Larger, Lesser

LEMMA LimiterInitHolds == LimiterInit => LimiterInv
<1> SUFFICES ASSUME LimiterInit PROVE LimiterInv
  OBVIOUS
<1>1. at \in [Callers -> Places] /\ want \in [Callers -> Methods]
  BY DEF LimiterInit, Places, Methods
<1>2. /\ 0 \in Nat /\ 0 \in Int /\ 0 <= 0 /\ 0 <= 0 + Slack /\ Capacity \in 0..Capacity
      /\ 0 + Capacity <= Capacity + 0 + (0 - 0) + 0
  BY LimiterAssumption
<1>3. exists \in BOOLEAN /\ ~exists
  BY DEF LimiterInit
<1>4. LimiterTypeOK
  BY <1>1, <1>2, <1>3 DEF LimiterInit, LimiterTypeOK
<1>5. ClockInv
  BY <1>2, <1>3 DEF LimiterInit, ClockInv
<1>6. Books /\ Room
  BY <1>2 DEF LimiterInit, Books, Room
<1>7. QED
  BY <1>4, <1>5, <1>6 DEF LimiterInv

\* What a reading makes of the bucket, before anything is taken from it.
LEMMA Refill ==
  ASSUME LimiterInv, NEW now \in Readings
  PROVE  /\ now \in Int /\ ClockAt(now) \in Int
         /\ TokensAt(now) \in 0..Capacity
         /\ ClockAt(now) <= time + Slack
         /\ shared => ClockAt(now) = now
         /\ spent + TokensAt(now) <=
              Capacity + given + (ClockAt(now) - opened) + rewound + Larger(0, ts - ClockAt(now))
<1>1. now \in Int /\ now >= time - Slack /\ now <= time + Slack
  BY LimiterAssumption DEF Readings, LimiterInv, LimiterTypeOK
<1> USE DEF LimiterInv, LimiterTypeOK, ClockInv, Books, Room
<1>2. CASE ~exists
  BY <1>1, <1>2, LimiterAssumption DEF Absent, TokensAt, ClockAt, Larger, Lesser
<1>3. CASE exists /\ Absent
  BY <1>1, <1>3, LimiterAssumption DEF Absent, TimeToLive, TokensAt, ClockAt, Larger, Lesser
<1>4. CASE ~Absent
  BY <1>1, <1>4, LimiterAssumption DEF TokensAt, ClockAt, Larger, Lesser
<1>5. QED
  BY <1>2, <1>3, <1>4

\* A call that takes cost and pays for no more keeps the invariant.
LEMMA CallKeeps ==
  ASSUME LimiterInv, NEW now \in Readings, NEW cost \in Nat, NEW paid \in Nat,
         paid <= cost, cost <= TokensAt(now),
         Store(now, cost), Account(now, paid),
         at' \in [Callers -> Places], UNCHANGED <<shared, time, want>>
  PROVE  LimiterInv'
<1>1. /\ tokens' = TokensAt(now) - cost /\ ts' = ClockAt(now) /\ exists' = TRUE
      /\ touched' = time /\ shared' = shared /\ time' = time /\ want' = want
  BY DEF Store
<1>2. /\ time \in Nat /\ Slack \in Nat /\ Capacity \in Nat
      /\ spent \in Nat /\ given \in Nat /\ rewound \in Nat /\ opened \in Int /\ ts \in Int
  BY LimiterAssumption DEF LimiterInv, LimiterTypeOK
<1> DEFINE back == Larger(0, ts - ClockAt(now))
<1>3. back \in Nat
  BY <1>2, Refill DEF Larger
<1>4. \/ spent' = spent + paid /\ rewound' = rewound + back /\ given' = given /\ opened' = opened
      \/ spent' = paid /\ given' = 0 /\ rewound' = 0 /\ opened' = ClockAt(now)
  BY DEF Account
<1>5. /\ now \in Int /\ now <= time + Slack
      /\ TokensAt(now) \in 0..Capacity /\ ClockAt(now) \in Int
      /\ ClockAt(now) <= time + Slack /\ (shared => ClockAt(now) = now)
      /\ spent + TokensAt(now) <= Capacity + given + (ClockAt(now) - opened) + rewound + back
  BY <1>2, Refill DEF Readings
<1> HIDE DEF back
<1>6. LimiterTypeOK'
  <2>1. /\ spent' \in Nat /\ given' \in Nat /\ rewound' \in Nat /\ opened' \in Int
        /\ tokens' \in 0..Capacity
    BY <1>1, <1>2, <1>3, <1>4, <1>5
  <2>2. QED
    BY <1>1, <1>5, <2>1 DEF LimiterInv, LimiterTypeOK
<1>7. ClockInv'
  BY <1>1, <1>2, <1>5 DEF ClockInv
<1>8. Books' /\ Room'
  <2>1. spent' + tokens' <= Capacity + given' + (ts' - opened') + rewound'
    BY <1>1, <1>2, <1>3, <1>4, <1>5
  <2>2. QED
    BY <1>1, <2>1 DEF Books, Room
<1>9. QED
  BY <1>6, <1>7, <1>8 DEF LimiterInv

LEMMA LimiterStepHolds == LimiterInv /\ [LimiterNext]_limiterVars => LimiterInv'
<1> SUFFICES ASSUME LimiterInv, [LimiterNext]_limiterVars PROVE LimiterInv'
  OBVIOUS
<1> USE DEF Places, Methods
<1>1. ASSUME NEW c \in Callers, Granted(c) \/ Refused(c) \/ AnswerLost(c) PROVE LimiterInv'
  <2>1. at' \in [Callers -> Places] /\ UNCHANGED <<shared, time, want>>
    BY <1>1 DEF Granted, Refused, AnswerLost, AfterRefusal, LimiterInv, LimiterTypeOK
  <2>2. Cost(c) \in Nat /\ 0 \in Nat
    BY LimiterAssumption DEF Cost
  <2>3. PICK now \in Readings, cost \in {0, Cost(c)}, paid \in {0, Cost(c)} :
          paid <= cost /\ cost <= TokensAt(now) /\ Store(now, cost) /\ Account(now, paid)
    <3>1. \A now \in Readings : TokensAt(now) \in Int /\ TokensAt(now) >= 0
      BY Refill, LimiterAssumption
    <3>2. CASE Granted(c)
      <4>1. PICK now \in Readings :
              TokensAt(now) >= Cost(c) /\ Store(now, Cost(c)) /\ Account(now, Cost(c))
        BY <3>2 DEF Granted
      <4>2. Cost(c) <= Cost(c) /\ Cost(c) <= TokensAt(now)
        BY <2>2, <3>1, <4>1
      <4>3. QED
        BY <4>1, <4>2
    <3>3. CASE Refused(c)
      <4>1. PICK now \in Readings : Store(now, 0) /\ Account(now, 0)
        BY <3>3 DEF Refused
      <4>2. 0 <= 0 /\ 0 <= TokensAt(now)
        BY <3>1
      <4>3. QED
        BY <4>1, <4>2
    <3>4. CASE AnswerLost(c)
      <4>1. PICK now \in Readings :
              TokensAt(now) >= Cost(c) /\ Store(now, Cost(c)) /\ Account(now, 0)
        BY <3>4 DEF AnswerLost
      <4>2. 0 <= Cost(c) /\ Cost(c) <= TokensAt(now)
        BY <2>2, <3>1, <4>1
      <4>3. QED
        BY <4>1, <4>2
    <3>5. QED
      BY <1>1, <3>2, <3>3, <3>4
  <2>4. QED
    BY <2>1, <2>2, <2>3, CallKeeps
<1>2. ASSUME NEW c \in Callers, Call(c) \/ CallLost(c) \/ Wake(c) \/ Abort(c)
      PROVE  LimiterInv'
  <2>1. UNCHANGED <<shared, time, tokens, ts, exists, touched, spent, given, rewound, opened>>
    BY <1>2 DEF Call, CallLost, Wake, Abort, bucket, ghosts
  <2>2. at' \in [Callers -> Places] /\ want' \in [Callers -> Methods]
    BY <1>2 DEF Call, CallLost, Wake, Abort, LimiterInv, LimiterTypeOK
  <2>3. QED
    BY <2>1, <2>2 DEF LimiterInv, LimiterTypeOK, ClockInv, Books, Room
<1>3. CASE Configure
  <2>1. /\ exists' = FALSE /\ given' = given + Capacity
        /\ UNCHANGED <<shared, time, tokens, ts, touched, at, want, spent, rewound, opened>>
    BY <1>3 DEF Configure
  <2>2. /\ given + Capacity \in Nat
        /\ spent + tokens <= Capacity + (given + Capacity) + (ts - opened) + rewound
        /\ spent + Capacity <= Capacity + (given + Capacity) + (ts - opened) + rewound
    BY LimiterAssumption DEF LimiterInv, LimiterTypeOK, Books
  <2>3. LimiterTypeOK'
    BY <2>1, <2>2 DEF LimiterInv, LimiterTypeOK
  <2>4. ClockInv'
    BY <2>1 DEF LimiterInv, ClockInv
  <2>5. Books' /\ Room'
    BY <2>1, <2>2 DEF Books, Room
  <2>6. QED
    BY <2>3, <2>4, <2>5 DEF LimiterInv
<1>4. CASE Tick
  BY <1>4, LimiterAssumption DEF Tick, bucket, ghosts, LimiterInv, LimiterTypeOK, ClockInv, Books, Room
<1>5. CASE UNCHANGED limiterVars
  BY <1>5 DEF limiterVars, LimiterInv, LimiterTypeOK, ClockInv, Books, Room
<1>6. QED
  BY <1>1, <1>2, <1>3, <1>4, <1>5 DEF LimiterNext, Answer

LEMMA LimiterInvHolds == LimiterSpec => []LimiterInv
BY LimiterInitHolds, LimiterStepHolds, PTL DEF LimiterSpec

(***************************************************************************)
(* The bucket never holds more than its capacity and never owes a token,   *)
(* whatever readings its callers bring (rate-limiter.ts:109-138).          *)
(***************************************************************************)
THEOREM LimiterTypeCorrect == LimiterSpec => []LimiterTypeOK
<1>1. LimiterInv => LimiterTypeOK
  BY DEF LimiterInv
<1>2. QED
  BY <1>1, LimiterInvHolds, PTL

(***************************************************************************)
(* No window grants more than a full bucket, what refills in it, what      *)
(* configure gives and what readings that fall behind credit again, for    *)
(* any number of callers and in either limiter.                            *)
(***************************************************************************)
THEOREM GrantsStayBounded == LimiterSpec => []GrantsBounded
<1>1. LimiterInv => GrantsBounded
  BY LimiterAssumption DEF LimiterInv, LimiterTypeOK, ClockInv, Books, GrantsBounded
<1>2. QED
  BY <1>1, LimiterInvHolds, PTL
==============================================================================
