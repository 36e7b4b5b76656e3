--------------------------- MODULE DashboardProofs ---------------------------
(***************************************************************************)
(* What the browser shows, for any events, filters, page size, cap and     *)
(* number of requests: the list has no row twice and no holes while it is  *)
(* known to be whole, the palette's results never go back, and the console *)
(* shows what was said, whatever a model may say.                          *)
(***************************************************************************)
EXTENDS Dashboard, Palette, AskConsole, FiniteSetTheorems, FunctionTheorems, SequenceTheorems,
        TLAPS

\* The order of the timeline and its pages.

\* Rows are totally ordered by what the query orders them by.
LEMMA NewerOrders ==
  ASSUME NEW a \in Event, NEW b \in Event, NEW c \in Event
  PROVE  /\ ~Newer(a, a)
         /\ Newer(a, b) => ~Newer(b, a)
         /\ Newer(a, b) /\ Newer(b, c) => Newer(a, c)
         /\ a = b \/ Newer(a, b) \/ Newer(b, a)
<1>1. /\ a \in Nat /\ b \in Nat /\ c \in Nat
      /\ OccurredAt[a] \in Nat /\ OccurredAt[b] \in Nat /\ OccurredAt[c] \in Nat
  BY EventAssumption DEF EventAssumption
<1>2. QED
  BY <1>1 DEF Newer

\* The rows that r is not ahead of.
Until(r, rows) == {s \in rows : ~Newer(r, s)}

LEMMA PlaceProperties ==
  ASSUME NEW rows \in SUBSET Event, IsFiniteSet(rows), NEW r \in rows
  PROVE  /\ Place(r, rows) \in 1..Cardinality(rows)
         /\ \A s \in rows : Newer(r, s) <=> Place(r, rows) < Place(s, rows)
<1>1. \A s \in rows : /\ Until(s, rows) \subseteq rows /\ s \in Until(s, rows) /\ IsFiniteSet(Until(s, rows))
                      /\ Place(s, rows) = Cardinality(Until(s, rows)) /\ Place(s, rows) \in Nat
  BY NewerOrders, FS_Subset, FS_CardinalityType DEF Until, Place
<1>2. Cardinality(rows) \in Nat /\ Cardinality(Until(r, rows)) <= Cardinality(rows)
  BY <1>1, FS_Subset, FS_CardinalityType
<1>3. Cardinality(Until(r, rows)) # 0
  BY <1>1, FS_EmptySet
<1>4. ASSUME NEW s \in rows, NEW t \in rows, Newer(s, t)
      PROVE  Place(s, rows) < Place(t, rows)
  <2>1. Until(s, rows) \subseteq Until(t, rows)
    <3> SUFFICES ASSUME NEW q \in rows, ~Newer(s, q), Newer(t, q) PROVE FALSE
      BY DEF Until
    <3>1. Newer(s, q)
      BY <1>4, NewerOrders
    <3>2. QED
      BY <3>1
  <2>2. t \notin Until(s, rows) /\ t \in Until(t, rows)
    BY <1>1, <1>4 DEF Until
  <2>3. /\ Cardinality(Until(s, rows)) <= Cardinality(Until(t, rows))
        /\ Cardinality(Until(s, rows)) # Cardinality(Until(t, rows))
    BY <1>1, <2>1, <2>2, FS_Subset
  <2>4. QED
    BY <1>1, <2>3
<1>5. ASSUME NEW s \in rows, Place(r, rows) < Place(s, rows) PROVE Newer(r, s)
  <2>1. r # s /\ ~Newer(s, r)
    BY <1>1, <1>4, <1>5
  <2>2. QED
    BY <2>1, NewerOrders
<1>6. QED
  BY <1>1, <1>2, <1>3, <1>4, <1>5

\* Every place is taken, by one row.
LEMMA PlacesTaken ==
  ASSUME NEW rows \in SUBSET Event, IsFiniteSet(rows)
  PROVE  /\ \A r, s \in rows : Place(r, rows) = Place(s, rows) => r = s
         /\ \A i \in 1..Cardinality(rows) : \E r \in rows : Place(r, rows) = i
<1> DEFINE n == Cardinality(rows)
           f == [r \in rows |-> Place(r, rows)]
<1>1. n \in Nat
  BY FS_CardinalityType
<1>2. ASSUME NEW r \in rows, NEW s \in rows, Place(r, rows) = Place(s, rows) PROVE r = s
  <2>1. Place(r, rows) \in Int /\ ~Newer(r, s) /\ ~Newer(s, r)
    BY <1>2, PlaceProperties
  <2>2. QED
    BY <2>1, NewerOrders
<1>3. f \in Injection(rows, 1..n)
  <2>1. f \in [rows -> 1..n]
    BY PlaceProperties
  <2>2. \A r, s \in rows : f[r] = f[s] => r = s
    BY <1>2
  <2> HIDE DEF f, n
  <2>3. QED
    BY <2>1, <2>2, Fun_IsInj
<1>4. IsFiniteSet(1..n) /\ Cardinality(1..n) = n
  <2> HIDE DEF n
  <2>1. QED
    BY <1>1, FS_Interval
<1>5. f \in Surjection(rows, 1..n)
  <2> HIDE DEF f
  <2>1. QED
    BY <1>3, <1>4, FS_Injection
<1>6. \A i \in 1..n : \E r \in rows : f[r] = i
  BY <1>5 DEF Surjection
<1>7. QED
  BY <1>2, <1>6

\* The list of a set of rows has each of them once.
LEMMA InOrderLists ==
  ASSUME NEW rows \in SUBSET Event, IsFiniteSet(rows)
  PROVE  /\ InOrder(rows) \in Seq(Event) /\ Len(InOrder(rows)) = Cardinality(rows)
         /\ \A i \in 1..Cardinality(rows) : InOrder(rows)[i] \in rows
         /\ \A i, j \in 1..Cardinality(rows) : InOrder(rows)[i] = InOrder(rows)[j] => i = j
         /\ \A r \in rows : \E i \in 1..Cardinality(rows) : InOrder(rows)[i] = r
<1> DEFINE n == Cardinality(rows)
           row(i) == CHOOSE r \in rows : Place(r, rows) = i
<1>1. n \in Nat
  BY FS_CardinalityType
<1>2. \A i \in 1..n : row(i) \in rows /\ Place(row(i), rows) = i
  BY PlacesTaken
<1>3. InOrder(rows) = [i \in 1..n |-> row(i)]
  BY DEF InOrder
<1>4. \A r \in rows : Place(r, rows) \in 1..n /\ row(Place(r, rows)) = r
  <2> SUFFICES ASSUME NEW r \in rows PROVE Place(r, rows) \in 1..n /\ row(Place(r, rows)) = r
    OBVIOUS
  <2>1. Place(r, rows) \in 1..n
    BY PlaceProperties
  <2>2. row(Place(r, rows)) \in rows /\ Place(row(Place(r, rows)), rows) = Place(r, rows)
    BY <1>2, <2>1
  <2> HIDE DEF row, n
  <2>3. QED
    BY <2>1, <2>2, PlacesTaken
<1> HIDE DEF n, row
<1>5. InOrder(rows) \in [1..n -> Event]
  BY <1>2, <1>3
<1>6. InOrder(rows) \in Seq(Event) /\ Len(InOrder(rows)) = n
  BY <1>1, <1>5, SeqDef, LenProperties
<1>7. \A i \in 1..n : InOrder(rows)[i] = row(i)
  BY <1>3
<1>8. /\ \A i \in 1..n : InOrder(rows)[i] \in rows
      /\ \A i, j \in 1..n : InOrder(rows)[i] = InOrder(rows)[j] => i = j
      /\ \A r \in rows : \E i \in 1..n : InOrder(rows)[i] = r
  <2>1. \A i, j \in 1..n : row(i) = row(j) => i = j
    BY <1>2
  <2>2. QED
    BY <1>2, <1>4, <1>7, <2>1
<1>9. QED
  BY <1>6, <1>8 DEF n

\* The newest n are n, or all of them.
LEMMA TakeTakes ==
  ASSUME NEW rows \in SUBSET Event, IsFiniteSet(rows), NEW n \in Nat \ {0}
  PROVE  /\ Take(rows, n) \subseteq rows /\ IsFiniteSet(Take(rows, n))
         /\ n <= Cardinality(rows) => Cardinality(Take(rows, n)) = n
         /\ Cardinality(rows) <= n => Take(rows, n) = rows
<1>1. Take(rows, n) \subseteq rows /\ IsFiniteSet(Take(rows, n)) /\ Cardinality(rows) \in Nat
  BY FS_Subset, FS_CardinalityType DEF Take
<1>2. ASSUME Cardinality(rows) <= n PROVE Take(rows, n) = rows
  <2>1. \A r \in rows : Place(r, rows) <= n
    BY <1>1, <1>2, PlaceProperties
  <2>2. QED
    BY <2>1 DEF Take
<1>3. ASSUME n <= Cardinality(rows) PROVE Cardinality(Take(rows, n)) = n
  <2>1. PICK r \in rows : Place(r, rows) = n
    BY <1>1, <1>3, PlacesTaken
  <2>2. \A s \in rows : ~Newer(r, s) <=> Place(s, rows) <= n
    <3> SUFFICES ASSUME NEW s \in rows PROVE ~Newer(r, s) <=> Place(s, rows) <= n
      OBVIOUS
    <3>1. Place(s, rows) \in Int /\ (Newer(r, s) <=> n < Place(s, rows))
      BY <2>1, PlaceProperties
    <3>2. QED
      BY <3>1
  <2>3. Until(r, rows) = Take(rows, n)
    BY <2>2 DEF Until, Take
  <2>4. QED
    BY <2>1, <2>3 DEF Place, Until
<1>4. QED
  BY <1>1, <1>2, <1>3

\* e stands for r: it is r, or r is collapsed into its cluster.
Represents(e, r, grouped) == e = r \/ (r \in grouped /\ ClusterOf[e] = ClusterOf[r])

\* Collapsing keeps a row for every row.
LEMMA CollapseRepresents ==
  ASSUME NEW page \in SUBSET Event, IsFiniteSet(page), NEW grouped, NEW r \in page
  PROVE  \E e \in Collapse(page, grouped) : Represents(e, r, grouped)
<1>1. CASE r \in Collapse(page, grouped)
  BY <1>1 DEF Represents
<1>2. CASE r \notin Collapse(page, grouped)
  <2> DEFINE same == {q \in page \intersect grouped : ClusterOf[q] = ClusterOf[r]}
  <2>1. r \in same
    BY <1>2 DEF Collapse
  <2>2. same \in SUBSET Event /\ IsFiniteSet(same)
    BY FS_Subset
  <2>3. Cardinality(same) \in Nat /\ Cardinality(same) # 0
    <3> HIDE DEF same
    <3>1. QED
      BY <2>1, <2>2, FS_CardinalityType, FS_EmptySet
  <2>4. PICK e \in same : Place(e, same) = 1
    <3> HIDE DEF same
    <3>1. 1 \in 1..Cardinality(same)
      BY <2>3
    <3>2. QED
      BY <2>2, <3>1, PlacesTaken
  <2>5. \A q \in same : ~Newer(q, e)
    <3> HIDE DEF same
    <3> SUFFICES ASSUME NEW q \in same PROVE ~Newer(q, e)
      OBVIOUS
    <3>1. Place(q, same) \in Int /\ Place(q, same) >= 1 /\ (Newer(q, e) <=> Place(q, same) < Place(e, same))
      BY <2>2, PlaceProperties
    <3>2. QED
      BY <2>4, <3>1
  <2>6. e \in Collapse(page, grouped)
    BY <2>5 DEF Collapse
  <2>7. QED
    BY <1>2, <2>1, <2>6 DEF Represents
<1>3. QED
  BY <1>1, <1>2

\* A page represents every row of the query down to where the next one starts.
LEMMA PageCovers ==
  ASSUME NEW rows \in SUBSET Event, IsFiniteSet(rows), NEW grouped, NEW filter, NEW from, NEW limit \in Nat \ {0}
  PROVE  LET page == Page(rows, grouped, filter, from, limit)
         IN  /\ page.items \subseteq rows /\ IsFiniteSet(page.items) /\ page.next \in Event \union {None}
             /\ \A r \in Where(rows, filter, from) :
                  (page.next = None \/ ~Newer(page.next, r)) => \E e \in page.items : Represents(e, r, grouped)
<1> DEFINE all == Where(rows, filter, from)
           fetched == Take(all, limit + 1)
           hasMore == Cardinality(fetched) > limit
           raw == IF hasMore THEN Take(fetched, limit) ELSE fetched
           next == IF hasMore THEN CHOOSE r \in fetched : Place(r, fetched) = limit ELSE None
           page == Page(rows, grouped, filter, from, limit)
<1>1. page.items = Collapse(raw, grouped) /\ page.next = next
  BY DEF Page
<1>2. all \subseteq rows /\ all \in SUBSET Event /\ IsFiniteSet(all) /\ Cardinality(all) \in Nat
  BY FS_Subset, FS_CardinalityType DEF Where
<1> HIDE DEF all
<1>3. /\ fetched \subseteq all /\ fetched \in SUBSET Event /\ IsFiniteSet(fetched) /\ Cardinality(fetched) \in Nat
      /\ limit + 1 <= Cardinality(all) => Cardinality(fetched) = limit + 1
      /\ Cardinality(all) <= limit + 1 => fetched = all
  <2>1. limit + 1 \in Nat \ {0}
    OBVIOUS
  <2>2. QED
    BY <1>2, <2>1, TakeTakes, FS_CardinalityType
<1>4. raw \subseteq fetched /\ IsFiniteSet(raw)
  <2> HIDE DEF fetched
  <2>1. QED
    BY <1>3, TakeTakes
<1>5. ASSUME hasMore PROVE next \in fetched /\ Place(next, fetched) = limit
  <2> HIDE DEF fetched
  <2>1. limit \in 1..Cardinality(fetched)
    BY <1>3, <1>5
  <2>2. \E r \in fetched : Place(r, fetched) = limit
    BY <1>3, <2>1, PlacesTaken
  <2>3. QED
    BY <1>5, <2>2
<1>6. ASSUME NEW r \in all, next = None \/ ~Newer(next, r)
      PROVE  r \in raw
  <2>1. CASE ~hasMore
    <3>1. ~(limit + 1 <= Cardinality(all))
      <4> HIDE DEF fetched
      <4>1. QED
        BY <1>2, <1>3, <2>1
    <3>2. fetched = all
      BY <1>2, <1>3, <3>1
    <3>3. QED
      BY <2>1, <3>2
  <2>2. CASE hasMore
    <3> HIDE DEF next
    <3>1. next \in fetched /\ next \in all /\ next \in Event /\ next # None
      BY <1>2, <1>3, <1>5, <2>2, EventAssumption DEF EventAssumption
    <3>2. ~Newer(next, r)
      BY <1>6, <3>1
    <3>3. r \in fetched
      <4>1. Place(next, all) <= limit + 1
        BY <3>1 DEF Take
      <4>2. /\ Place(next, all) \in Int /\ Place(r, all) \in Int
            /\ Newer(next, r) <=> Place(next, all) < Place(r, all)
        BY <1>2, <3>1, PlaceProperties
      <4>3. Place(r, all) <= limit + 1
        BY <3>2, <4>1, <4>2
      <4>4. QED
        BY <4>3 DEF Take
    <3> HIDE DEF fetched
    <3>4. /\ Place(next, fetched) \in Int /\ Place(r, fetched) \in Int
          /\ Newer(next, r) <=> Place(next, fetched) < Place(r, fetched)
      BY <1>3, <3>1, <3>3, PlaceProperties
    <3>5. Place(r, fetched) <= limit
      BY <1>5, <2>2, <3>2, <3>4
    <3>6. QED
      BY <2>2, <3>3, <3>5 DEF Take
  <2>3. QED
    BY <2>1, <2>2
<1>7. next \in Event \union {None}
  BY <1>3, <1>5
<1> HIDE DEF raw, next, page
<1>8. page.items \subseteq raw
  BY <1>1 DEF Collapse
<1>9. IsFiniteSet(page.items) /\ page.items \subseteq rows
  BY <1>2, <1>3, <1>4, <1>8, FS_Subset
<1>10. \A r \in all : (page.next = None \/ ~Newer(page.next, r)) => \E e \in page.items : Represents(e, r, grouped)
  <2> SUFFICES ASSUME NEW r \in all, page.next = None \/ ~Newer(page.next, r)
               PROVE  \E e \in page.items : Represents(e, r, grouped)
    OBVIOUS
  <2>1. r \in raw
    BY <1>1, <1>6
  <2>2. raw \in SUBSET Event
    BY <1>3, <1>4
  <2>3. QED
    BY <1>1, <1>4, <2>1, <2>2, CollapseRepresents
<1>11. QED
  BY <1>1, <1>7, <1>9, <1>10 DEF page, all

------------------------------------------------------------------------------
\* The list (Dashboard).

Answers == [items : SUBSET Event, next : Event \union {None}, rows : SUBSET Event, known : BOOLEAN]
Requests == [first : BOOLEAN, filters : Filters, from : Event \union {None}, answer : Answers]
Bases == [filters : Filters, rows : SUBSET Event, whole : BOOLEAN]

DashTypeOK ==
  /\ stored \subseteq Event /\ IsFiniteSet(stored) /\ clustered \subseteq stored /\ published \subseteq stored
  /\ filters \in Filters /\ events \in Seq(Event) /\ cursor \in Event \union {None}
  /\ loadingMore \in BOOLEAN /\ requests \subseteq Requests /\ base \in Bases /\ base.rows \subseteq stored

\* The answer of a query, once it is known, represents what was stored then.
AnswerSound(q) ==
  /\ IsFiniteSet(q.answer.items)
  /\ q.answer.known =>
       /\ q.answer.rows \subseteq stored
       /\ \A r \in Where(q.answer.rows, q.filters, q.from) :
            (q.answer.next = None \/ ~Newer(q.answer.next, r)) =>
              \E e \in q.answer.items : Represents(e, r, clustered)

\* A next page in flight goes on where the list ends, unless the list was replaced.
QuerySound(q) ==
  /\ q.first => q.from = None
  /\ ~q.first => /\ loadingMore /\ q.from # None
                 /\ base.whole => /\ q.from = cursor
                                  /\ q.answer.known => base.rows \subseteq q.answer.rows

OneNextPage == \A p, q \in requests : ~p.first /\ ~q.first => p = q

RequestsSound == OneNextPage /\ \A q \in requests : AnswerSound(q) /\ QuerySound(q)

DashInv == DashTypeOK /\ RequestsSound /\ NoDuplicateRows /\ NoHoles

Distinct(list) == \A i, j \in 1..Len(list) : list[i] = list[j] => i = j
-----------------------------------------------------------------------------
LEMMA ListSet ==
  ASSUME NEW list \in Seq(Event)
  PROVE  /\ Len(list) \in Nat /\ DOMAIN list = 1..Len(list)
         /\ \A i \in 1..Len(list) : list[i] \in Event
         /\ ToSet(list) = {list[i] : i \in 1..Len(list)} /\ ToSet(list) \subseteq Event
BY LenProperties, ElementOfSeq DEF ToSet

\* Two lists without duplicates and without a common row make one.
LEMMA ConcatDistinct ==
  ASSUME NEW s \in Seq(Event), NEW t \in Seq(Event), Distinct(s), Distinct(t),
         \A i \in 1..Len(t) : t[i] \notin ToSet(s)
  PROVE  s \o t \in Seq(Event) /\ Distinct(s \o t) /\ ToSet(s \o t) = ToSet(s) \union ToSet(t)
<1> DEFINE u == s \o t
<1>1. /\ Len(s) \in Nat /\ Len(t) \in Nat
      /\ \A i \in 1..Len(s) : s[i] \in ToSet(s)
  BY ListSet
<1>2. /\ u \in Seq(Event) /\ Len(u) = Len(s) + Len(t)
      /\ \A i \in 1..(Len(s) + Len(t)) : u[i] = IF i <= Len(s) THEN s[i] ELSE t[i - Len(s)]
  BY ConcatProperties
<1> HIDE DEF u
<1>3. ASSUME NEW i \in 1..(Len(s) + Len(t)), NEW j \in 1..(Len(s) + Len(t)), u[i] = u[j] PROVE i = j
  <2>1. CASE i <= Len(s) /\ j <= Len(s)
    <3>1. i \in 1..Len(s) /\ j \in 1..Len(s) /\ s[i] = s[j]
      BY <1>1, <1>2, <1>3, <2>1
    <3>2. QED
      BY <3>1 DEF Distinct
  <2>2. CASE i > Len(s) /\ j > Len(s)
    <3>1. i - Len(s) \in 1..Len(t) /\ j - Len(s) \in 1..Len(t)
      BY <1>1, <2>2
    <3>2. t[i - Len(s)] = t[j - Len(s)]
      BY <1>1, <1>2, <1>3, <2>2
    <3>3. i - Len(s) = j - Len(s)
      BY <3>1, <3>2 DEF Distinct
    <3>4. QED
      BY <1>1, <3>3
  <2>3. CASE i <= Len(s) /\ j > Len(s)
    <3>1. i \in 1..Len(s) /\ j - Len(s) \in 1..Len(t)
      BY <1>1, <2>3
    <3>2. s[i] = t[j - Len(s)]
      BY <1>1, <1>2, <1>3, <2>3
    <3>3. QED
      BY <1>1, <3>1, <3>2
  <2>4. CASE i > Len(s) /\ j <= Len(s)
    <3>1. j \in 1..Len(s) /\ i - Len(s) \in 1..Len(t)
      BY <1>1, <2>4
    <3>2. s[j] = t[i - Len(s)]
      BY <1>1, <1>2, <1>3, <2>4
    <3>3. QED
      BY <1>1, <3>1, <3>2
  <2>5. QED
    BY <1>1, <2>1, <2>2, <2>3, <2>4
<1>4. Distinct(u)
  BY <1>2, <1>3 DEF Distinct
<1>5. ToSet(u) = ToSet(s) \union ToSet(t)
  <2>1. \A x : x \in ToSet(u) <=> \E i \in 1..(Len(s) + Len(t)) : u[i] = x
    BY <1>2, ListSet
  <2>2. \A x : x \in ToSet(s) <=> \E i \in 1..Len(s) : s[i] = x
    BY ListSet
  <2>3. \A x : x \in ToSet(t) <=> \E i \in 1..Len(t) : t[i] = x
    BY ListSet
  <2>4. ASSUME NEW x \in ToSet(u) PROVE x \in ToSet(s) \union ToSet(t)
    <3>1. PICK i \in 1..(Len(s) + Len(t)) : u[i] = x
      BY <2>1, <2>4
    <3>2. CASE i <= Len(s)
      BY <1>1, <1>2, <2>2, <3>1, <3>2
    <3>3. CASE i > Len(s)
      <4>1. i - Len(s) \in 1..Len(t) /\ t[i - Len(s)] = x
        BY <1>1, <1>2, <3>1, <3>3
      <4>2. QED
        BY <2>3, <4>1
    <3>4. QED
      BY <1>1, <3>2, <3>3
  <2>5. ASSUME NEW x \in ToSet(s) PROVE x \in ToSet(u)
    <3>1. PICK i \in 1..Len(s) : s[i] = x
      BY <2>2, <2>5
    <3>2. i \in 1..(Len(s) + Len(t)) /\ u[i] = x
      BY <1>1, <1>2, <3>1
    <3>3. QED
      BY <2>1, <3>2
  <2>6. ASSUME NEW x \in ToSet(t) PROVE x \in ToSet(u)
    <3>1. PICK i \in 1..Len(t) : t[i] = x
      BY <2>3, <2>6
    <3>2. i + Len(s) \in 1..(Len(s) + Len(t)) /\ ~(i + Len(s) <= Len(s)) /\ i + Len(s) - Len(s) = i
      BY <1>1, <3>1
    <3>3. u[i + Len(s)] = x
      BY <1>2, <3>1, <3>2
    <3>4. QED
      BY <2>1, <3>2, <3>3
  <2>7. QED
    BY <2>4, <2>5, <2>6
<1>6. QED
  BY <1>2, <1>4, <1>5 DEF u

LEMMA CutDistinct ==
  ASSUME NEW s \in Seq(Event), Distinct(s), NEW n \in 0..Len(s)
  PROVE  /\ SubSeq(s, 1, n) \in Seq(Event) /\ Distinct(SubSeq(s, 1, n))
         /\ n = Len(s) => SubSeq(s, 1, n) = s
<1>1. Len(s) \in Nat /\ \A i \in 1..n : s[i] \in Event
  BY ListSet
<1>2. /\ SubSeq(s, 1, n) \in Seq(Event) /\ Len(SubSeq(s, 1, n)) = (IF 1 <= n THEN n - 1 + 1 ELSE 0)
      /\ \A i \in 1..(n - 1 + 1) : SubSeq(s, 1, n)[i] = s[1 + i - 1]
  BY <1>1, SubSeqProperties
<1>3. Len(SubSeq(s, 1, n)) = n /\ \A i \in 1..n : SubSeq(s, 1, n)[i] = s[i]
  BY <1>1, <1>2
<1>4. Distinct(SubSeq(s, 1, n))
  BY <1>1, <1>3 DEF Distinct
<1>5. n = Len(s) => SubSeq(s, 1, n) = s
  BY SubSeqFull
<1>6. QED
  BY <1>2, <1>4, <1>5

LEMMA InOrderDistinct ==
  ASSUME NEW rows \in SUBSET Event, IsFiniteSet(rows)
  PROVE  InOrder(rows) \in Seq(Event) /\ Distinct(InOrder(rows)) /\ ToSet(InOrder(rows)) = rows
<1> DEFINE list == InOrder(rows)
           n == Cardinality(rows)
<1>1. /\ list \in Seq(Event) /\ Len(list) = n
      /\ \A i \in 1..n : list[i] \in rows
      /\ \A i, j \in 1..n : list[i] = list[j] => i = j
      /\ \A r \in rows : \E i \in 1..n : list[i] = r
  BY InOrderLists
<1> HIDE DEF list, n
<1>2. ToSet(list) = {list[i] : i \in 1..n}
  BY <1>1, ListSet
<1>3. ToSet(list) = rows /\ Distinct(list)
  BY <1>1, <1>2 DEF Distinct
<1>4. QED
  BY <1>1, <1>3 DEF list
-----------------------------------------------------------------------------
\* What adds no query and moves neither the list's end nor its base.
LEMMA RequestsKept ==
  ASSUME DashInv, requests' \subseteq requests, stored \subseteq stored', clustered \subseteq clustered',
         cursor' = cursor, loadingMore' = loadingMore, base'.rows = base.rows, base'.whole => base.whole
  PROVE  RequestsSound'
<1>1. OneNextPage'
  BY DEF DashInv, RequestsSound, OneNextPage
<1>2. ASSUME NEW q \in requests' PROVE AnswerSound(q)' /\ QuerySound(q)'
  <2>1. AnswerSound(q) /\ QuerySound(q)
    BY <1>2 DEF DashInv, RequestsSound
  <2>2. AnswerSound(q)'
    BY <2>1 DEF AnswerSound, Represents
  <2>3. QuerySound(q)'
    BY <2>1 DEF QuerySound
  <2>4. QED
    BY <2>2, <2>3
<1>3. QED
  BY <1>1, <1>2 DEF RequestsSound

LEMMA HolesKept ==
  ASSUME DashInv, clustered \subseteq clustered', cursor' = cursor, base'.rows = base.rows,
         base'.filters = base.filters, base'.whole => base.whole /\ ToSet(events) \subseteq ToSet(events')
  PROVE  NoHoles'
<1>1. ASSUME base'.whole, NEW r \in Where(base.rows, base.filters, None), cursor = None \/ ~Newer(cursor, r)
      PROVE  Represented(r)'
  <2>1. Represented(r)
    BY <1>1 DEF DashInv, NoHoles
  <2>2. QED
    BY <1>1, <2>1 DEF Represented
<1>2. Where(base.rows, base.filters, None)' = Where(base.rows, base.filters, None)
  BY DEF Where, Newer
<1>3. \A r : Newer(cursor, r)' <=> Newer(cursor, r)
  BY DEF Newer
<1>4. QED
  BY <1>1, <1>2, <1>3 DEF NoHoles

LEMMA ServerKeeps ==
  ASSUME DashInv, NEW e \in Event, Store(e) \/ SetCluster(e)
  PROVE  DashInv'
<1>1. /\ stored' = stored \/ stored' = stored \union {e}
      /\ clustered \subseteq clustered' /\ clustered' \subseteq stored' /\ published' = published
      /\ UNCHANGED <<filters, loadingMore, requests, events, cursor, base>>
  BY DEF Store, SetCluster, listVars, DashInv, DashTypeOK
<1>2. IsFiniteSet(stored') /\ stored \subseteq stored' /\ stored' \subseteq Event
  BY <1>1, FS_AddElement DEF DashInv, DashTypeOK
<1>3. DashTypeOK'
  BY <1>1, <1>2 DEF DashInv, DashTypeOK
<1>4. RequestsSound'
  BY <1>1, <1>2, RequestsKept
<1>5. NoHoles'
  BY <1>1, HolesKept
<1>6. NoDuplicateRows'
  BY <1>1 DEF DashInv, NoDuplicateRows
<1>7. QED
  BY <1>3, <1>4, <1>5, <1>6 DEF DashInv

LEMMA PublishKeeps ==
  ASSUME DashInv, DashboardAssumption, NEW e \in Event, Publish(e)
  PROVE  DashInv'
<1>1. /\ e \in stored /\ published' = published \union {e}
      /\ UNCHANGED <<stored, clustered, filters, loadingMore, requests>>
      /\ OnEvent(e) \/ UNCHANGED listVars
  BY DEF Publish
<1>2. CASE UNCHANGED listVars
  <2>1. UNCHANGED <<events, cursor, base>>
    BY <1>2 DEF listVars
  <2>2. DashTypeOK' /\ NoDuplicateRows'
    BY <1>1, <2>1 DEF DashInv, DashTypeOK, NoDuplicateRows
  <2>3. RequestsSound'
    BY <1>1, <2>1, RequestsKept
  <2>4. NoHoles'
    BY <1>1, <2>1, HolesKept
  <2>5. QED
    BY <2>2, <2>3, <2>4 DEF DashInv
<1>3. CASE e \notin ToSet(events) /\ OnEvent(e)
  <2> DEFINE longer == <<e>> \o events
             n == IF Cap < Len(longer) THEN Cap ELSE Len(longer)
  <2>1. events' = SubSeq(longer, 1, n) /\ base' = [base EXCEPT !.whole = @ /\ Len(longer) <= Cap] /\ cursor' = cursor
    BY <1>3 DEF OnEvent
  <2>2. events \in Seq(Event) /\ Distinct(events)
    BY DEF DashInv, DashTypeOK, NoDuplicateRows, Distinct
  <2>3. <<e>> \in Seq(Event) /\ Len(<<e>>) = 1 /\ <<e>>[1] = e
    OBVIOUS
  <2>4. Distinct(<<e>>)
    BY <2>3 DEF Distinct
  <2>5. ToSet(<<e>>) = {e}
    <3> DEFINE one == <<e>>
    <3>1. one \in Seq(Event) /\ Len(one) = 1 /\ one[1] = e
      BY <2>3
    <3> HIDE DEF one
    <3>2. ToSet(one) = {one[i] : i \in 1..1}
      BY <3>1, ListSet
    <3>3. QED
      BY <3>1, <3>2 DEF one
  <2>6. \A i \in 1..Len(events) : events[i] \notin ToSet(<<e>>)
    BY <1>3, <2>2, <2>5, ListSet
  <2>7. longer \in Seq(Event) /\ Distinct(longer) /\ ToSet(longer) = {e} \union ToSet(events)
    BY <2>2, <2>3, <2>4, <2>5, <2>6, ConcatDistinct
  <2> HIDE DEF longer
  <2>8. n \in 0..Len(longer) /\ (Len(longer) <= Cap => n = Len(longer)) /\ Len(longer) \in Nat /\ Cap \in Nat
    BY <2>7, ListSet DEF DashboardAssumption
  <2> HIDE DEF n
  <2>9. events' \in Seq(Event) /\ Distinct(events') /\ (Len(longer) <= Cap => events' = longer)
    BY <2>1, <2>7, <2>8, CutDistinct
  <2>10. base \in Bases /\ base.rows \subseteq stored
    BY DEF DashInv, DashTypeOK
  <2>11. /\ base' \in Bases /\ base'.rows = base.rows /\ base'.filters = base.filters
         /\ base'.whole => base.whole /\ Len(longer) <= Cap
    <3>1. (base.whole /\ Len(longer) <= Cap) \in BOOLEAN
      BY <2>10 DEF Bases
    <3>2. QED
      BY <2>1, <2>10, <3>1 DEF Bases
  <2>12. DashTypeOK'
    BY <1>1, <2>1, <2>9, <2>10, <2>11 DEF DashInv, DashTypeOK
  <2>13. NoDuplicateRows'
    BY <2>9 DEF NoDuplicateRows, Distinct
  <2>14. RequestsSound'
    BY <1>1, <2>1, <2>11, RequestsKept
  <2>15. NoHoles'
    BY <1>1, <2>1, <2>7, <2>9, <2>11, HolesKept
  <2>16. QED
    BY <2>12, <2>13, <2>14, <2>15 DEF DashInv
<1>4. QED
  BY <1>1, <1>2, <1>3 DEF OnEvent
-----------------------------------------------------------------------------
\* A query that nobody has answered yet.
LEMMA AskKeeps ==
  ASSUME DashInv, NEW first \in BOOLEAN, NEW filter \in Filters, NEW from \in Event \union {None},
         requests' = requests \union {Ask(first, filter, from)},
         UNCHANGED <<stored, clustered, published, events, cursor, base>>, filters' \in Filters,
         first => from = None /\ loadingMore' = loadingMore,
         ~first => ~loadingMore /\ loadingMore' = TRUE /\ from = cursor /\ cursor # None
  PROVE  DashInv'
<1> DEFINE q == Ask(first, filter, from)
<1>1. /\ q \in Requests /\ q.first = first /\ q.from = from /\ q.answer = Unanswered
      /\ Unanswered.known = FALSE /\ Unanswered.items = {}
  BY DEF Ask, Unanswered, Requests, Answers
<1> HIDE DEF q
<1>2. DashTypeOK'
  <2>1. loadingMore' \in BOOLEAN
    BY DEF DashInv, DashTypeOK
  <2>2. requests' \subseteq Requests
    BY <1>1 DEF DashInv, DashTypeOK, q
  <2>3. QED
    BY <2>1, <2>2 DEF DashInv, DashTypeOK
<1>3. AnswerSound(q)'
  BY <1>1, FS_EmptySet DEF AnswerSound
<1>4. QuerySound(q)'
  BY <1>1 DEF QuerySound
<1>5. ASSUME NEW p \in requests PROVE AnswerSound(p)' /\ QuerySound(p)' /\ (p.first \/ first)
  <2>1. AnswerSound(p) /\ QuerySound(p)
    BY DEF DashInv, RequestsSound
  <2>2. AnswerSound(p)'
    BY <2>1 DEF AnswerSound, Represents
  <2>3. QuerySound(p)'
    BY <2>1 DEF QuerySound
  <2>4. p.first \/ first
    BY <2>1 DEF QuerySound
  <2>5. QED
    BY <2>2, <2>3, <2>4
<1>6. OneNextPage'
  <2> SUFFICES ASSUME NEW p \in requests', NEW r \in requests', ~p.first, ~r.first PROVE p = r
    BY DEF OneNextPage
  <2>1. CASE p \in requests /\ r \in requests
    BY <2>1 DEF DashInv, RequestsSound, OneNextPage
  <2>2. CASE p = q \/ r = q
    BY <1>1, <1>5, <2>2 DEF q
  <2>3. QED
    BY <2>1, <2>2 DEF q
<1>7. RequestsSound'
  BY <1>3, <1>4, <1>5, <1>6 DEF RequestsSound, q
<1>8. NoDuplicateRows'
  BY DEF DashInv, NoDuplicateRows
<1>9. NoHoles'
  BY HolesKept
<1>10. QED
  BY <1>2, <1>7, <1>8, <1>9 DEF DashInv

LEMMA UserKeeps ==
  ASSUME DashInv, DashboardAssumption, (\E filter \in Filters : ChangeFilters(filter)) \/ PressR \/ LoadMore
  PROVE  DashInv'
<1> USE DEF listVars, serverVars
<1>1. ASSUME NEW filter \in Filters, ChangeFilters(filter) PROVE DashInv'
  <2>1. /\ requests' = requests \union {Ask(TRUE, filter, None)} /\ filters' = filter
        /\ UNCHANGED <<stored, clustered, published, events, cursor, base, loadingMore>>
    BY <1>1 DEF ChangeFilters, Refresh
  <2>2. QED
    BY <2>1, AskKeeps
<1>2. CASE PressR
  <2>1. /\ requests' = requests \union {Ask(TRUE, NoFilter, None)} /\ filters' = filters
        /\ UNCHANGED <<stored, clustered, published, events, cursor, base, loadingMore>>
    BY <1>2 DEF PressR, Refresh
  <2>2. NoFilter \in Filters /\ filters \in Filters
    BY DEF DashboardAssumption, DashInv, DashTypeOK
  <2>3. QED
    BY <2>1, <2>2, AskKeeps
<1>3. CASE LoadMore
  <2>1. /\ requests' = requests \union {Ask(FALSE, filters, cursor)} /\ filters' = filters
        /\ cursor # None /\ ~loadingMore /\ loadingMore' = TRUE
        /\ UNCHANGED <<stored, clustered, published, events, cursor, base>>
    BY <1>3 DEF LoadMore
  <2>2. filters \in Filters /\ cursor \in Event \union {None}
    BY DEF DashInv, DashTypeOK
  <2>3. QED
    BY <2>1, <2>2, AskKeeps
<1>4. QED
  BY <1>1, <1>2, <1>3

LEMMA AnsweredOnce ==
  ASSUME NEW request \in Requests, NEW answer \in Answers
  PROVE  LET q == [request EXCEPT !.answer = answer]
         IN  q \in Requests /\ q.answer = answer /\ q.first = request.first /\ q.from = request.from
             /\ q.filters = request.filters
BY DEF Requests

LEMMA BaseKept ==
  ASSUME NEW b \in Bases, NEW also \in BOOLEAN
  PROVE  LET c == [b EXCEPT !.whole = @ /\ also]
         IN  c \in Bases /\ c.rows = b.rows /\ c.filters = b.filters /\ c.whole = (b.whole /\ also)
<1> DEFINE w == b.whole /\ also
<1>1. w \in BOOLEAN
  OBVIOUS
<1> HIDE DEF w
<1>2. /\ [b EXCEPT !.whole = w] \in Bases /\ [b EXCEPT !.whole = w].rows = b.rows
      /\ [b EXCEPT !.whole = w].filters = b.filters /\ [b EXCEPT !.whole = w].whole = w
  BY <1>1 DEF Bases
<1>3. QED
  BY <1>2 DEF w

LEMMA AnswerKeeps ==
  ASSUME DashInv, DashboardAssumption, NEW request \in requests, Answer(request)
  PROVE  DashInv'
<1> DEFINE page == Page(stored, clustered, request.filters, request.from, PageSize)
           answer == [items |-> page.items, next |-> page.next, rows |-> stored, known |-> TRUE]
           answered == [request EXCEPT !.answer = answer]
<1>1. /\ ~request.answer.known /\ requests' = (requests \ {request}) \union {answered}
      /\ UNCHANGED <<stored, clustered, published, filters, loadingMore, events, cursor, base>>
  BY DEF Answer, serverVars, listVars
<1>2. stored \in SUBSET Event /\ IsFiniteSet(stored) /\ request \in Requests /\ PageSize \in Nat \ {0}
  BY DEF DashInv, DashTypeOK, DashboardAssumption
<1>3. /\ page.items \subseteq stored /\ IsFiniteSet(page.items) /\ page.next \in Event \union {None}
      /\ \A r \in Where(stored, request.filters, request.from) :
           (page.next = None \/ ~Newer(page.next, r)) => \E e \in page.items : Represents(e, r, clustered)
  BY <1>2, PageCovers
<1> HIDE DEF page
<1>4. answer \in Answers
  BY <1>2, <1>3 DEF Answers
<1>5. /\ answer.items = page.items /\ answer.next = page.next /\ answer.rows = stored /\ answer.known
  OBVIOUS
<1> HIDE DEF answer
<1>6. PICK q \in Requests : /\ requests' = (requests \ {request}) \union {q}
                            /\ q.answer = answer /\ q.first = request.first /\ q.from = request.from
                            /\ q.filters = request.filters
  BY <1>1, <1>2, <1>4, AnsweredOnce
<1>7. DashTypeOK'
  BY <1>1, <1>6 DEF DashInv, DashTypeOK
<1>8. AnswerSound(q)'
  <2>1. IsFiniteSet(q.answer.items) /\ q.answer.rows = stored
    BY <1>3, <1>5, <1>6
  <2>2. ASSUME NEW r \in Where(q.answer.rows, q.filters, q.from),
               q.answer.next = None \/ ~Newer(q.answer.next, r)
        PROVE  \E e \in q.answer.items : Represents(e, r, clustered)
    BY <1>3, <1>5, <1>6, <2>2
  <2>3. AnswerSound(q)
    BY <2>1, <2>2 DEF AnswerSound
  <2>4. QED
    BY <1>1, <2>3 DEF AnswerSound
<1>9. QuerySound(q)'
  <2>1. QuerySound(request) /\ base.rows \subseteq stored
    BY DEF DashInv, RequestsSound, DashTypeOK
  <2>2. QED
    BY <1>1, <1>5, <1>6, <2>1 DEF QuerySound
<1>10. ASSUME NEW p \in requests PROVE AnswerSound(p)' /\ QuerySound(p)'
  BY <1>1 DEF DashInv, RequestsSound, AnswerSound, QuerySound
<1>11. OneNextPage'
  <2> SUFFICES ASSUME NEW p \in requests', NEW r \in requests', ~p.first, ~r.first PROVE p = r
    BY DEF OneNextPage
  <2>1. \A s \in requests \ {request} : ~s.first => request.first
    BY DEF DashInv, RequestsSound, OneNextPage
  <2>2. CASE p \in requests /\ r \in requests
    BY <2>2 DEF DashInv, RequestsSound, OneNextPage
  <2>3. QED
    BY <1>1, <1>6, <2>1, <2>2
<1>12. RequestsSound'
  <2>1. \A p \in requests' : AnswerSound(p)' /\ QuerySound(p)'
    BY <1>6, <1>8, <1>9, <1>10
  <2>2. QED
    BY <1>11, <2>1 DEF RequestsSound
<1>13. NoDuplicateRows'
  BY <1>1 DEF DashInv, NoDuplicateRows
<1>14. NoHoles'
  BY <1>1, HolesKept
<1>15. QED
  BY <1>7, <1>12, <1>13, <1>14 DEF DashInv

LEMMA FailKeeps ==
  ASSUME DashInv, NEW request \in requests, Fail(request)
  PROVE  DashInv'
<1>1. /\ requests' = requests \ {request} /\ loadingMore' = (loadingMore /\ request.first)
      /\ UNCHANGED <<stored, clustered, published, filters, events, cursor, base>>
  BY DEF Fail, serverVars, listVars
<1>2. DashTypeOK'
  <2>1. loadingMore' \in BOOLEAN
    BY <1>1
  <2>2. QED
    BY <1>1, <2>1 DEF DashInv, DashTypeOK
<1>3. RequestsSound'
  <2>1. OneNextPage'
    BY <1>1 DEF DashInv, RequestsSound, OneNextPage
  <2>2. ASSUME NEW q \in requests' PROVE AnswerSound(q)' /\ QuerySound(q)'
    <3>1. AnswerSound(q) /\ QuerySound(q) /\ q # request
      BY <1>1, <2>2 DEF DashInv, RequestsSound
    <3>2. AnswerSound(q)'
      BY <1>1, <3>1 DEF AnswerSound
    <3>3. ~q.first => request.first
      BY <1>1, <2>2, <3>1 DEF DashInv, RequestsSound, OneNextPage
    <3>4. QuerySound(q)'
      BY <1>1, <3>1, <3>3 DEF QuerySound
    <3>5. QED
      BY <3>2, <3>4
  <2>3. QED
    BY <2>1, <2>2 DEF RequestsSound
<1>4. NoDuplicateRows'
  BY <1>1 DEF DashInv, NoDuplicateRows
<1>5. NoHoles'
  BY <1>1, HolesKept
<1>6. QED
  BY <1>2, <1>3, <1>4, <1>5 DEF DashInv

LEMMA ReplacedKeeps ==
  ASSUME DashInv, NEW request \in requests, Arrive(request), request.first
  PROVE  DashInv'
<1> DEFINE answer == request.answer
<1>1. /\ answer.known /\ requests' = requests \ {request}
      /\ events' = InOrder(answer.items) /\ cursor' = answer.next
      /\ base' = [filters |-> request.filters, rows |-> answer.rows, whole |-> ~loadingMore]
      /\ UNCHANGED <<stored, clustered, published, filters, loadingMore>>
  BY DEF Arrive, Replaced, serverVars
<1>2. request \in Requests /\ answer \in Answers /\ AnswerSound(request) /\ request.from = None
  BY DEF DashInv, DashTypeOK, Requests, RequestsSound, QuerySound
<1>3. /\ answer.items \in SUBSET Event /\ IsFiniteSet(answer.items) /\ answer.next \in Event \union {None}
      /\ answer.rows \subseteq stored /\ answer.rows \in SUBSET Event /\ request.filters \in Filters
  BY <1>1, <1>2 DEF Answers, Requests, AnswerSound
<1>4. events' \in Seq(Event) /\ Distinct(events') /\ ToSet(events') = answer.items
  BY <1>1, <1>3, InOrderDistinct
<1>5. /\ base' \in Bases /\ base'.rows = answer.rows /\ base'.filters = request.filters
      /\ base'.whole = ~loadingMore
  BY <1>1, <1>3 DEF Bases
<1> HIDE DEF answer
<1>6. DashTypeOK'
  BY <1>1, <1>3, <1>4, <1>5 DEF DashInv, DashTypeOK
<1>7. NoDuplicateRows'
  BY <1>4 DEF NoDuplicateRows, Distinct
<1>8. RequestsSound'
  <2>1. OneNextPage'
    BY <1>1 DEF DashInv, RequestsSound, OneNextPage
  <2>2. ASSUME NEW q \in requests' PROVE AnswerSound(q)' /\ QuerySound(q)'
    <3>1. AnswerSound(q) /\ QuerySound(q)
      BY <1>1, <2>2 DEF DashInv, RequestsSound
    <3>2. AnswerSound(q)'
      BY <1>1, <3>1 DEF AnswerSound
    <3>3. QuerySound(q)'
      BY <1>1, <1>5, <3>1 DEF QuerySound
    <3>4. QED
      BY <3>2, <3>3
  <2>3. QED
    BY <2>1, <2>2 DEF RequestsSound
<1>9. NoHoles'
  <2> SUFFICES ASSUME NEW r \in Where(answer.rows, request.filters, None), cursor' = None \/ ~Newer(cursor', r)
               PROVE  \E e \in ToSet(events') : Represents(e, r, clustered)
    BY <1>1, <1>5 DEF NoHoles, Represented, Represents
  <2>1. \E e \in answer.items : Represents(e, r, clustered)
    BY <1>1, <1>2 DEF AnswerSound, answer
  <2>2. QED
    BY <1>4, <2>1
<1>10. QED
  BY <1>6, <1>7, <1>8, <1>9 DEF DashInv

LEMMA AppendedKeeps ==
  ASSUME DashInv, NEW request \in requests, Arrive(request), ~request.first
  PROVE  DashInv'
<1> DEFINE answer == request.answer
           new == answer.items \ ToSet(events)
           whole == base.whole /\ request.filters = base.filters
<1>1. /\ answer.known /\ requests' = requests \ {request}
      /\ events' = events \o InOrder(new) /\ cursor' = answer.next
      /\ base' = [base EXCEPT !.whole = @ /\ request.filters = base.filters]
      /\ loadingMore' = FALSE
      /\ UNCHANGED <<stored, clustered, published, filters>>
  BY DEF Arrive, Appended, serverVars
<1>2. /\ request \in Requests /\ answer \in Answers /\ AnswerSound(request) /\ QuerySound(request)
      /\ base \in Bases /\ base.rows \subseteq stored /\ events \in Seq(Event) /\ Distinct(events)
  BY DEF DashInv, DashTypeOK, Requests, RequestsSound, NoDuplicateRows, Distinct
<1>3. /\ answer.items \in SUBSET Event /\ IsFiniteSet(answer.items) /\ answer.next \in Event \union {None}
  BY <1>2 DEF Answers, AnswerSound
<1>4. new \in SUBSET Event /\ IsFiniteSet(new)
  BY <1>3, FS_Subset
<1>5. InOrder(new) \in Seq(Event) /\ Distinct(InOrder(new)) /\ ToSet(InOrder(new)) = new
  <2> HIDE DEF new
  <2>1. QED
    BY <1>4, InOrderDistinct
<1>6. \A i \in 1..Len(InOrder(new)) : InOrder(new)[i] \notin ToSet(events)
  BY <1>5, ListSet
<1>7. events' \in Seq(Event) /\ Distinct(events') /\ ToSet(events') = ToSet(events) \union answer.items
  <2> HIDE DEF new
  <2>1. /\ events \o InOrder(new) \in Seq(Event) /\ Distinct(events \o InOrder(new))
        /\ ToSet(events \o InOrder(new)) = ToSet(events) \union ToSet(InOrder(new))
    BY <1>2, <1>5, <1>6, ConcatDistinct
  <2>2. ToSet(events) \union new = ToSet(events) \union answer.items
    BY DEF new
  <2>3. QED
    BY <1>1, <1>5, <2>1, <2>2
<1>8. base' \in Bases /\ base'.rows = base.rows /\ base'.filters = base.filters /\ base'.whole = whole
  <2>1. whole \in BOOLEAN
    BY <1>2 DEF Bases
  <2>2. QED
    BY <1>1, <1>2, <2>1 DEF Bases
<1> HIDE DEF answer, new
<1>9. DashTypeOK'
  BY <1>1, <1>2, <1>3, <1>7, <1>8 DEF DashInv, DashTypeOK
<1>10. NoDuplicateRows'
  BY <1>7 DEF NoDuplicateRows, Distinct
<1>11. RequestsSound'
  <2>1. OneNextPage'
    BY <1>1 DEF DashInv, RequestsSound, OneNextPage
  <2>2. ASSUME NEW q \in requests' PROVE AnswerSound(q)' /\ QuerySound(q)'
    <3>1. AnswerSound(q) /\ QuerySound(q)
      BY <1>1, <2>2 DEF DashInv, RequestsSound
    <3>2. AnswerSound(q)'
      BY <1>1, <3>1 DEF AnswerSound
    <3>3. q.first
      BY <1>1, <2>2 DEF DashInv, RequestsSound, OneNextPage
    <3>4. QuerySound(q)'
      BY <3>1, <3>3 DEF QuerySound
    <3>5. QED
      BY <3>2, <3>4
  <2>3. QED
    BY <2>1, <2>2 DEF RequestsSound
\* Down to the old cursor the list had no holes; below it is the new page.
<1>12. NoHoles'
  <2> SUFFICES ASSUME whole, NEW r \in Where(base.rows, base.filters, None), cursor' = None \/ ~Newer(cursor', r)
               PROVE  \E e \in ToSet(events') : Represents(e, r, clustered)
    BY <1>1, <1>8 DEF NoHoles, Represented, Represents
  <2>1. request.from = cursor /\ request.from # None /\ base.rows \subseteq answer.rows /\ request.filters = base.filters
    BY <1>1, <1>2 DEF QuerySound, answer
  <2>2. CASE ~Newer(cursor, r)
    <3>1. Represented(r)
      BY <2>2 DEF DashInv, NoHoles
    <3>2. QED
      BY <1>7, <3>1 DEF Represented, Represents
  <2>3. CASE Newer(cursor, r)
    <3>1. r \in Where(answer.rows, request.filters, request.from)
      BY <2>1, <2>3 DEF Where
    <3>2. \E e \in answer.items : Represents(e, r, clustered)
      BY <1>1, <1>2, <3>1 DEF AnswerSound, answer
    <3>3. QED
      BY <1>7, <3>2
  <2>4. QED
    BY <2>2, <2>3
<1>13. QED
  BY <1>9, <1>10, <1>11, <1>12 DEF DashInv
-----------------------------------------------------------------------------
LEMMA DashStarts == Init => DashInv
<1> SUFFICES ASSUME Init PROVE DashInv
  OBVIOUS
<1> DEFINE page == Page(stored, clustered, NoFilter, None, PageSize)
<1>1. /\ stored \in Backlogs /\ clustered \in {{}, stored} /\ published = stored
      /\ filters = NoFilter /\ loadingMore = FALSE /\ requests = {}
      /\ events = InOrder(page.items) /\ cursor = page.next
      /\ base = [filters |-> NoFilter, rows |-> stored, whole |-> TRUE]
  BY DEF Init
<1>2. stored \in SUBSET Event /\ IsFiniteSet(stored) /\ NoFilter \in Filters /\ PageSize \in Nat \ {0}
  BY <1>1, DashboardAssumption DEF DashboardAssumption
<1>3. /\ page.items \subseteq stored /\ IsFiniteSet(page.items) /\ page.next \in Event \union {None}
      /\ \A r \in Where(stored, NoFilter, None) :
           (page.next = None \/ ~Newer(page.next, r)) => \E e \in page.items : Represents(e, r, clustered)
  BY <1>2, PageCovers
<1> HIDE DEF page
<1>4. events \in Seq(Event) /\ Distinct(events) /\ ToSet(events) = page.items
  BY <1>1, <1>2, <1>3, InOrderDistinct
<1>5. base \in Bases /\ base.rows = stored /\ base.filters = NoFilter
  BY <1>1, <1>2 DEF Bases
<1>6. DashTypeOK
  BY <1>1, <1>2, <1>3, <1>4, <1>5 DEF DashTypeOK
<1>7. RequestsSound
  BY <1>1 DEF RequestsSound, OneNextPage
<1>8. NoDuplicateRows
  BY <1>4 DEF NoDuplicateRows, Distinct
<1>9. NoHoles
  BY <1>1, <1>3, <1>4, <1>5 DEF NoHoles, Represented, Represents
<1>10. QED
  BY <1>6, <1>7, <1>8, <1>9 DEF DashInv

LEMMA DashKeeps == DashInv /\ [Next]_vars => DashInv'
<1> SUFFICES ASSUME DashInv, [Next]_vars PROVE DashInv'
  OBVIOUS
<1> USE DashboardAssumption
<1>1. ASSUME NEW e \in Event, Store(e) \/ SetCluster(e) \/ Publish(e) PROVE DashInv'
  BY <1>1, ServerKeeps, PublishKeeps
<1>2. CASE (\E filter \in Filters : ChangeFilters(filter)) \/ PressR \/ LoadMore
  BY <1>2, UserKeeps
<1>3. ASSUME NEW request \in requests, Answer(request) \/ Arrive(request) \/ Fail(request) PROVE DashInv'
  BY <1>3, AnswerKeeps, ReplacedKeeps, AppendedKeeps, FailKeeps
<1>4. CASE UNCHANGED vars
  <2>1. UNCHANGED <<stored, clustered, published, filters, events, cursor, loadingMore, requests, base>>
    BY <1>4 DEF vars
  <2>2. DashTypeOK' /\ NoDuplicateRows'
    BY <2>1 DEF DashInv, DashTypeOK, NoDuplicateRows
  <2>3. RequestsSound' /\ NoHoles'
    BY <2>1, RequestsKept, HolesKept
  <2>4. QED
    BY <2>2, <2>3 DEF DashInv
<1>5. QED
  BY <1>1, <1>2, <1>3, <1>4 DEF Next

LEMMA DashHolds == Spec => []DashInv
BY DashStarts, DashKeeps, PTL DEF Spec

\* No event is listed twice, whatever the order in which pages, refreshes and
\* live frames come.
THEOREM RowsStayDistinct == Spec => []NoDuplicateRows
<1>1. DashInv => NoDuplicateRows
  BY DEF DashInv
<1>2. QED
  BY <1>1, DashHolds, PTL

\* The list has no holes while it is known to be whole.
THEOREM ListStaysWhole == Spec => []NoHoles
<1>1. DashInv => NoHoles
  BY DEF DashInv
<1>2. QED
  BY <1>1, DashHolds, PTL

------------------------------------------------------------------------------
\* The palette (Palette).

Live == {s \in searches : ~s.cancelled}

(***************************************************************************)
(* ResultsMoveForward is not inductive: it needs that the search which may *)
(* still answer is the one for the text on screen, that none outlives the  *)
(* palette's closing, and that no number is older than its change.         *)
(***************************************************************************)
PaletteTypeOK ==
  /\ keys \in Nat /\ text \in 0..keys /\ results \in 0..keys
  /\ open \in BOOLEAN
  /\ searches \subseteq [text : 1..keys, sent : BOOLEAN, cancelled : BOOLEAN]

LiveIsCurrent == \A s \in Live : open /\ s.text = text /\ text # 0

PaletteInv == PaletteTypeOK /\ LiveIsCurrent /\ ResultsMoveForward

LEMMA CancelAllCancels ==
  ASSUME PaletteInv
  PROVE  /\ CancelAll \subseteq [text : 1..keys, sent : BOOLEAN, cancelled : BOOLEAN]
         /\ \A s \in CancelAll : s.cancelled
BY DEF CancelAll, PaletteInv, PaletteTypeOK

\* Whatever shuts the palette or empties it leaves no search that may answer.
LEMMA Shut ==
  ASSUME PaletteInv, searches' = CancelAll, keys' = keys, text' \in 0..keys, open' \in BOOLEAN,
         results' \in 0..keys, open' => text' = 0 /\ results' = 0
  PROVE  PaletteInv'
<1>1. \A s \in searches' : s.cancelled
  BY CancelAllCancels
<1>2. PaletteTypeOK'
  BY CancelAllCancels DEF PaletteInv, PaletteTypeOK
<1>3. LiveIsCurrent'
  BY <1>1 DEF LiveIsCurrent, Live
<1>4. ResultsMoveForward'
  BY <1>1, <1>2 DEF ResultsMoveForward, PaletteTypeOK
<1>5. QED
  BY <1>2, <1>3, <1>4 DEF PaletteInv

LEMMA TypeKeeps == PaletteInv /\ Type => PaletteInv'
<1> SUFFICES ASSUME PaletteInv, Type PROVE PaletteInv'
  OBVIOUS
<1> DEFINE s == [text |-> keys + 1, sent |-> FALSE, cancelled |-> FALSE]
<1>1. /\ searches' = CancelAll \union {s} /\ keys' = keys + 1 /\ text' = keys + 1
      /\ open' = open /\ open /\ results' = results
  BY DEF Type
<1>2. /\ keys \in Nat /\ results \in 0..keys /\ open \in BOOLEAN
  BY DEF PaletteInv, PaletteTypeOK
<1>3. s \in [text : 1..keys', sent : BOOLEAN, cancelled : BOOLEAN]
  BY <1>1, <1>2
<1>4. PaletteTypeOK'
  <2>1. 1..keys \subseteq 1..keys'
    BY <1>1, <1>2
  <2>2. CancelAll \subseteq [text : 1..keys', sent : BOOLEAN, cancelled : BOOLEAN]
    BY <2>1, CancelAllCancels
  <2>3. searches' \subseteq [text : 1..keys', sent : BOOLEAN, cancelled : BOOLEAN]
    BY <1>1, <1>3, <2>2
  <2>4. keys' \in Nat /\ text' \in 0..keys' /\ results' \in 0..keys' /\ open' \in BOOLEAN
    BY <1>1, <1>2
  <2>5. QED
    BY <2>3, <2>4 DEF PaletteTypeOK
<1>5. \A r \in searches' : ~r.cancelled => r = s
  BY <1>1, CancelAllCancels
<1>6. LiveIsCurrent'
  BY <1>1, <1>2, <1>5 DEF LiveIsCurrent, Live
<1>7. ResultsMoveForward'
  <2>1. s \in searches' /\ s.text = text' /\ ~s.cancelled
    BY <1>1
  <2>2. text' # 0 /\ results' <= text'
    BY <1>1, <1>2
  <2>3. \A q, r \in searches' : ~q.cancelled /\ ~r.cancelled => q = r
    BY <1>5
  <2>4. QED
    BY <2>1, <2>2, <2>3 DEF ResultsMoveForward
<1>8. QED
  BY <1>4, <1>6, <1>7 DEF PaletteInv

LEMMA SendKeeps == ASSUME PaletteInv, NEW s \in searches, Send(s) PROVE PaletteInv'
<1> DEFINE t == [s EXCEPT !.sent = TRUE]
<1>1. searches' = (searches \ {s}) \union {t} /\ UNCHANGED <<open, text, keys, results>>
  BY DEF Send
<1>2. s \in [text : 1..keys, sent : BOOLEAN, cancelled : BOOLEAN]
  BY DEF PaletteInv, PaletteTypeOK
<1>3. t \in [text : 1..keys, sent : BOOLEAN, cancelled : BOOLEAN] /\ t.text = s.text /\ t.cancelled = s.cancelled
  BY <1>2
<1>4. PaletteTypeOK'
  BY <1>1, <1>3 DEF PaletteInv, PaletteTypeOK
<1>5. LiveIsCurrent'
  BY <1>1, <1>3 DEF PaletteInv, LiveIsCurrent, Live
<1>6. ResultsMoveForward'
  <2>1. ASSUME NEW q \in searches', NEW r \in searches', ~q.cancelled, ~r.cancelled PROVE q = r
    BY <1>1, <1>3, <2>1 DEF PaletteInv, ResultsMoveForward
  <2>2. ASSUME open', results' \notin {0, text'} PROVE \E r \in searches' : r.text = text' /\ ~r.cancelled
    <3>1. PICK q \in searches : q.text = text /\ ~q.cancelled
      BY <1>1, <2>2 DEF PaletteInv, ResultsMoveForward
    <3>2. CASE q = s
      BY <1>1, <1>3, <3>1, <3>2
    <3>3. CASE q # s
      BY <1>1, <3>1, <3>3
    <3>4. QED
      BY <3>2, <3>3
  <2>3. QED
    BY <1>1, <2>1, <2>2 DEF PaletteInv, ResultsMoveForward
<1>7. QED
  BY <1>4, <1>5, <1>6 DEF PaletteInv

LEMMA AnsweredKeeps ==
  ASSUME PaletteInv, NEW s \in searches, NEW found \in BOOLEAN, Answered(s, found)
  PROVE  PaletteInv'
<1>1. searches' = searches \ {s} /\ UNCHANGED <<open, text, keys>>
  BY DEF Answered
<1>2. s \in [text : 1..keys, sent : BOOLEAN, cancelled : BOOLEAN]
  BY DEF PaletteInv, PaletteTypeOK
<1>3. results' = IF s.cancelled THEN results ELSE IF found THEN s.text ELSE 0
  BY DEF Answered
<1>4. PaletteTypeOK'
  BY <1>1, <1>2, <1>3 DEF PaletteInv, PaletteTypeOK
<1>5. LiveIsCurrent'
  BY <1>1 DEF PaletteInv, LiveIsCurrent, Live
<1>6. CASE s.cancelled
  <2>1. ResultsMoveForward'
    BY <1>1, <1>3, <1>6 DEF PaletteInv, ResultsMoveForward
  <2>2. QED
    BY <1>4, <1>5, <2>1 DEF PaletteInv
<1>7. CASE ~s.cancelled
  <2>1. s.text = text /\ text # 0 /\ results' \in {0, text}
    BY <1>3, <1>7 DEF PaletteInv, LiveIsCurrent, Live
  <2>2. ResultsMoveForward'
    BY <1>1, <2>1, <1>4 DEF PaletteInv, ResultsMoveForward, PaletteTypeOK
  <2>3. QED
    BY <1>4, <1>5, <2>2 DEF PaletteInv
<1>8. QED
  BY <1>6, <1>7

\* The palette shows what was found for the text on screen or an earlier one,
\* whatever the order in which answers come.
THEOREM ResultsAlwaysMoveForward == PaletteSpec => []ResultsMoveForward
<1>1. PaletteInit => PaletteInv
  <2> SUFFICES ASSUME PaletteInit PROVE PaletteInv
    OBVIOUS
  <2>1. PaletteTypeOK
    <3>1. keys = 0 /\ text = 0 /\ results = 0 /\ open = FALSE /\ searches = {}
      BY DEF PaletteInit
    <3>2. 0 \in Nat /\ 0 \in 0..0
      OBVIOUS
    <3>3. keys \in Nat /\ text \in 0..keys /\ results \in 0..keys
      BY <3>1, <3>2
    <3>4. QED
      BY <3>1, <3>3 DEF PaletteTypeOK
  <2>2. LiveIsCurrent /\ ResultsMoveForward
    BY DEF PaletteInit, LiveIsCurrent, Live, ResultsMoveForward
  <2>3. QED
    BY <2>1, <2>2 DEF PaletteInv
<1>2. PaletteInv /\ [PaletteNext]_paletteVars => PaletteInv'
  <2> SUFFICES ASSUME PaletteInv, [PaletteNext]_paletteVars PROVE PaletteInv'
    OBVIOUS
  <2>1. CASE Open \/ Close \/ Clear \/ ChooseTracked
    <3>1. /\ searches' = CancelAll /\ keys' = keys /\ text' \in 0..keys
          /\ open' \in BOOLEAN /\ results' \in 0..keys /\ (open' => text' = 0 /\ results' = 0)
      <4>1. keys \in Nat /\ text \in 0..keys /\ results \in 0..keys /\ 0 \in 0..keys /\ open \in BOOLEAN
        BY DEF PaletteInv, PaletteTypeOK
      <4>2. CASE Open
        BY <4>1, <4>2 DEF Open
      <4>3. CASE Close
        BY <4>1, <4>3 DEF Close
      <4>4. CASE Clear
        BY <4>1, <4>4 DEF Clear
      <4>5. CASE ChooseTracked
        BY <4>1, <4>5 DEF ChooseTracked
      <4>6. QED
        BY <2>1, <4>2, <4>3, <4>4, <4>5
    <3>2. QED
      BY <3>1, Shut
  <2>2. CASE Type
    BY <2>2, TypeKeeps
  <2>3. CASE ChooseUntracked \/ UNCHANGED paletteVars
    BY <2>3 DEF ChooseUntracked, paletteVars, PaletteInv, PaletteTypeOK, LiveIsCurrent, Live, ResultsMoveForward
  <2>4. ASSUME NEW s \in searches, Send(s) PROVE PaletteInv'
    BY <2>4, SendKeeps
  <2>5. ASSUME NEW s \in searches, NEW found \in BOOLEAN, Answered(s, found) PROVE PaletteInv'
    BY <2>5, AnsweredKeeps
  <2>6. ASSUME NEW done \in BOOLEAN, Imported(done) PROVE PaletteInv'
    <3>1. CASE done
      <4>1. /\ searches' = CancelAll /\ keys' = keys /\ text' \in 0..keys
            /\ open' = FALSE /\ results' \in 0..keys
        BY <2>6, <3>1 DEF Imported, PaletteInv, PaletteTypeOK
      <4>2. QED
        BY <4>1, Shut
    <3>2. CASE ~done
      BY <2>6, <3>2 DEF Imported, PaletteInv, PaletteTypeOK, LiveIsCurrent, Live, ResultsMoveForward
    <3>3. QED
      BY <3>1, <3>2
  <2>7. QED
    BY <2>1, <2>2, <2>3, <2>4, <2>5, <2>6 DEF PaletteNext
<1>3. PaletteInv => ResultsMoveForward
  BY DEF PaletteInv
<1>4. QED
  BY <1>1, <1>2, <1>3, PTL DEF PaletteSpec

\* The console (AskConsole).

UpToPlace(k, places) == {j \in places : j <= k}
Nth(k, places) == Cardinality(UpToPlace(k, places))

\* The n-th of some places is taken by one of them.
LEMMA NthTaken ==
  ASSUME NEW most \in Nat, NEW places \in SUBSET (1..most)
  PROVE  /\ IsFiniteSet(places) /\ Cardinality(places) \in Nat
         /\ \A k \in places : Nth(k, places) \in 1..Cardinality(places)
         /\ \A j, k \in places : Nth(j, places) = Nth(k, places) => j = k
         /\ \A n \in 1..Cardinality(places) : \E k \in places : Nth(k, places) = n
<1> DEFINE c == Cardinality(places)
           f == [k \in places |-> Nth(k, places)]
<1>1. IsFiniteSet(places) /\ c \in Nat /\ places \subseteq Nat
  <2>1. IsFiniteSet(1..most)
    BY FS_Interval
  <2>2. IsFiniteSet(places)
    BY <2>1, FS_Subset
  <2>3. QED
    BY <2>2, FS_CardinalityType
<1>2. \A k \in places : /\ UpToPlace(k, places) \subseteq places /\ k \in UpToPlace(k, places)
                        /\ IsFiniteSet(UpToPlace(k, places)) /\ Nth(k, places) \in Nat
  BY <1>1, FS_Subset, FS_CardinalityType DEF UpToPlace, Nth
<1>3. \A k \in places : Nth(k, places) \in 1..c
  <2> SUFFICES ASSUME NEW k \in places PROVE Nth(k, places) \in 1..c
    OBVIOUS
  <2>1. Nth(k, places) <= c /\ Nth(k, places) # 0
    BY <1>1, <1>2, FS_Subset, FS_EmptySet DEF Nth
  <2>2. QED
    BY <1>1, <1>2, <2>1
<1>4. ASSUME NEW j \in places, NEW k \in places, j < k PROVE Nth(j, places) < Nth(k, places)
  <2>1. UpToPlace(j, places) \subseteq UpToPlace(k, places) /\ k \notin UpToPlace(j, places)
    <3>1. j \in Nat /\ k \in Nat /\ j < k /\ \A i \in places : i \in Nat
      BY <1>1, <1>4
    <3>2. \A i \in places : i <= j => i <= k
      BY <3>1
    <3>3. ~(k <= j)
      BY <3>1
    <3>4. QED
      BY <3>2, <3>3 DEF UpToPlace
  <2>2. Nth(j, places) <= Nth(k, places) /\ Nth(j, places) # Nth(k, places)
    BY <1>2, <2>1, FS_Subset DEF Nth
  <2>3. QED
    BY <1>2, <2>2
<1>5. \A j, k \in places : Nth(j, places) = Nth(k, places) => j = k
  BY <1>1, <1>2, <1>4
<1>6. f \in Injection(places, 1..c)
  <2>1. f \in [places -> 1..c] /\ \A j, k \in places : f[j] = f[k] => j = k
    BY <1>3, <1>5
  <2> HIDE DEF f, c
  <2>2. QED
    BY <2>1, Fun_IsInj
<1>7. IsFiniteSet(1..c) /\ Cardinality(1..c) = c
  <2> HIDE DEF c
  <2>1. QED
    BY <1>1, FS_Interval
<1>8. f \in Surjection(places, 1..c)
  <2> HIDE DEF f
  <2>1. QED
    BY <1>1, <1>6, <1>7, FS_Injection
<1>9. \A n \in 1..c : \E k \in places : f[k] = n
  BY <1>8 DEF Surjection
<1>10. QED
  BY <1>1, <1>3, <1>5, <1>9

\* The picked lines are those of the places, in their order.
LEMMA PickedAt ==
  ASSUME NEW lines, NEW most \in Nat, NEW places \in SUBSET (1..most)
  PROVE  /\ DOMAIN Picked(lines, places) = 1..Cardinality(places)
         /\ \A k \in places : Picked(lines, places)[Nth(k, places)] = lines[k]
         /\ \A n \in 1..Cardinality(places) :
              \E k \in places : Nth(k, places) = n /\ Picked(lines, places)[n] = lines[k]
         /\ \A S : (\A k \in places : lines[k] \in S) => Picked(lines, places) \in Seq(S)
         /\ Len(Picked(lines, places)) = Cardinality(places)
<1> DEFINE c == Cardinality(places)
           at(n) == CHOOSE k \in places : Nth(k, places) = n
<1>1. c \in Nat /\ \A n \in 1..c : at(n) \in places /\ Nth(at(n), places) = n
  BY NthTaken
<1>2. Picked(lines, places) = [n \in 1..c |-> lines[at(n)]]
  BY DEF Picked, Nth, UpToPlace
<1>3. \A k \in places : Nth(k, places) \in 1..c /\ at(Nth(k, places)) = k
  BY <1>1, NthTaken
<1> HIDE DEF c, at
<1>4. \A S : (\A k \in places : lines[k] \in S) => Picked(lines, places) \in Seq(S)
  <2> SUFFICES ASSUME NEW S, \A k \in places : lines[k] \in S PROVE Picked(lines, places) \in Seq(S)
    OBVIOUS
  <2>1. Picked(lines, places) \in [1..c -> S]
    BY <1>1, <1>2
  <2>2. QED
    BY <1>1, <2>1, SeqDef
<1>5. Len(Picked(lines, places)) = c
  BY <1>1, <1>2, <1>4, LenProperties
<1>6. QED
  BY <1>1, <1>2, <1>3, <1>4, <1>5 DEF c

\* What was picked is the same of lines that agree at the places.
LEMMA PickedSame ==
  ASSUME NEW lines, NEW more, NEW most \in Nat, NEW places \in SUBSET (1..most),
         \A k \in places : lines[k] = more[k]
  PROVE  Picked(lines, places) = Picked(more, places)
<1>1. \A n \in 1..Cardinality(places) :
        (CHOOSE k \in places : Nth(k, places) = n) \in places
  BY NthTaken
<1> DEFINE at(n) == CHOOSE k \in places : Nth(k, places) = n
<1>2. /\ Picked(lines, places) = [n \in 1..Cardinality(places) |-> lines[at(n)]]
      /\ Picked(more, places) = [n \in 1..Cardinality(places) |-> more[at(n)]]
  BY DEF Picked, Nth, UpToPlace
<1>3. \A n \in 1..Cardinality(places) : lines[at(n)] = more[at(n)]
  BY <1>1
<1> HIDE DEF at
<1>4. QED
  BY <1>2, <1>3

\* Places behind the others are picked behind them.
LEMMA PickedAppends ==
  ASSUME NEW S, NEW lines, NEW most \in Nat, NEW first \in SUBSET (1..most), NEW later \in SUBSET (1..most),
         \A j \in first, k \in later : j < k, \A k \in first \union later : lines[k] \in S
  PROVE  /\ Picked(lines, first \union later) = Picked(lines, first) \o Picked(lines, later)
         /\ Picked(lines, first) \in Seq(S) /\ Picked(lines, later) \in Seq(S)
<1> DEFINE all == first \union later
           a == Picked(lines, first)
           b == Picked(lines, later)
           c == Picked(lines, all)
<1>1. /\ all \in SUBSET (1..most) /\ first \intersect later = {} /\ all \subseteq Nat
      /\ IsFiniteSet(first) /\ IsFiniteSet(later)
      /\ Cardinality(first) \in Nat /\ Cardinality(later) \in Nat
  <2>1. all \in SUBSET (1..most) /\ \A k \in all : k \in Nat
    OBVIOUS
  <2>2. first \intersect later = {}
    <3>1. \A k \in Nat : ~(k < k)
      OBVIOUS
    <3>2. QED
      BY <2>1, <3>1
  <2>3. IsFiniteSet(first) /\ Cardinality(first) \in Nat
    BY NthTaken
  <2>4. IsFiniteSet(later) /\ Cardinality(later) \in Nat
    BY NthTaken
  <2>5. QED
    BY <2>1, <2>2, <2>3, <2>4
<1>2. a \in Seq(S) /\ b \in Seq(S) /\ c \in Seq(S)
  BY <1>1, PickedAt
<1>3. Cardinality(all) = Cardinality(first) + Cardinality(later)
  <2>1. /\ Cardinality(all) = Cardinality(first) + Cardinality(later) - Cardinality(first \intersect later)
        /\ Cardinality({}) = 0
    BY <1>1, FS_Union, FS_EmptySet
  <2>2. Cardinality(first \intersect later) = 0
    BY <1>1, <2>1
  <2> HIDE DEF all
  <2>3. QED
    BY <1>1, <2>1, <2>2
<1>4. /\ Len(a) = Cardinality(first) /\ Len(b) = Cardinality(later) /\ Len(c) = Cardinality(all)
      /\ Len(a) \in Nat /\ Len(b) \in Nat /\ Len(c) \in Nat
  BY <1>1, <1>2, PickedAt, LenProperties
<1>5. \A k \in first : Nth(k, all) = Nth(k, first)
  <2>1. ASSUME NEW k \in first PROVE UpToPlace(k, all) = UpToPlace(k, first)
    <3>1. \A j \in later : ~(j <= k)
      BY <1>1
    <3>2. QED
      BY <3>1 DEF UpToPlace
  <2>2. QED
    BY <2>1 DEF Nth
<1>6. \A k \in later : Nth(k, all) = Cardinality(first) + Nth(k, later)
  <2> SUFFICES ASSUME NEW k \in later PROVE Nth(k, all) = Cardinality(first) + Nth(k, later)
    OBVIOUS
  <2>1. UpToPlace(k, all) = first \union UpToPlace(k, later) /\ first \intersect UpToPlace(k, later) = {}
    <3>1. \A j \in first : j <= k /\ j \in 1..most
      BY <1>1
    <3>2. QED
      BY <1>1, <3>1 DEF UpToPlace
  <2>2. IsFiniteSet(UpToPlace(k, later)) /\ Cardinality(UpToPlace(k, later)) \in Nat
    BY <1>1, FS_Subset, FS_CardinalityType DEF UpToPlace
  <2>3. QED
    <3> DEFINE upTo == UpToPlace(k, later)
    <3>1. Cardinality(first \union upTo) = Cardinality(first) + Cardinality(upTo) - Cardinality(first \intersect upTo)
      BY <1>1, <2>2, FS_Union
    <3>2. Cardinality(first \intersect upTo) = 0
      BY <2>1, FS_EmptySet
    <3>3. Nth(k, all) = Cardinality(first \union upTo) /\ Nth(k, later) = Cardinality(upTo)
      BY <2>1 DEF Nth
    <3> HIDE DEF upTo
    <3>4. QED
      BY <1>1, <2>2, <3>1, <3>2, <3>3 DEF upTo
<1>7. \A n \in 1..Len(a) : c[n] = a[n]
  <2> SUFFICES ASSUME NEW n \in 1..Len(a) PROVE c[n] = a[n]
    OBVIOUS
  <2>1. PICK k \in first : Nth(k, first) = n /\ a[n] = lines[k]
    <3>1. n \in 1..Cardinality(first)
      BY <1>4
    <3>2. QED
      BY <3>1, PickedAt
  <2>2. c[Nth(k, all)] = lines[k]
    <3>1. k \in all /\ all \in SUBSET (1..most)
      BY <1>1
    <3> HIDE DEF all
    <3>2. QED
      BY <3>1, PickedAt
  <2>3. QED
    BY <1>5, <2>1, <2>2
<1>8. \A n \in 1..Len(b) : c[Len(a) + n] = b[n]
  <2> SUFFICES ASSUME NEW n \in 1..Len(b) PROVE c[Len(a) + n] = b[n]
    OBVIOUS
  <2>1. PICK k \in later : Nth(k, later) = n /\ b[n] = lines[k]
    <3>1. n \in 1..Cardinality(later)
      BY <1>4
    <3>2. QED
      BY <3>1, PickedAt
  <2>2. c[Nth(k, all)] = lines[k]
    <3>1. k \in all /\ all \in SUBSET (1..most)
      BY <1>1
    <3> HIDE DEF all
    <3>2. QED
      BY <3>1, PickedAt
  <2>3. QED
    BY <1>4, <1>6, <2>1, <2>2
<1> HIDE DEF a, b, c
<1>9. c = a \o b
  <2>1. /\ a \o b \in Seq(S) /\ Len(a \o b) = Len(a) + Len(b)
        /\ \A n \in 1..Len(a) : (a \o b)[n] = a[n]
        /\ \A n \in 1..Len(b) : (a \o b)[Len(a) + n] = b[n]
    BY <1>2, ConcatProperties
  <2>2. Len(c) = Len(a \o b)
    BY <1>3, <1>4, <2>1
  <2>3. \A n \in 1..Len(c) : c[n] = (a \o b)[n]
    <3> SUFFICES ASSUME NEW n \in 1..Len(c) PROVE c[n] = (a \o b)[n]
      OBVIOUS
    <3>1. CASE n <= Len(a)
      <4>1. n \in 1..Len(a)
        BY <1>4, <3>1
      <4>2. QED
        BY <1>7, <2>1, <4>1
    <3>2. CASE ~(n <= Len(a))
      <4>1. n - Len(a) \in 1..Len(b) /\ n = Len(a) + (n - Len(a))
        BY <1>3, <1>4, <3>2
      <4>2. QED
        BY <1>8, <2>1, <4>1
    <3>3. QED
      BY <3>1, <3>2
  <2>4. QED
    BY <1>2, <2>1, <2>2, <2>3, SeqEqual
<1>10. QED
  BY <1>2, <1>9 DEF a, b, c

\* A reader that stands between lines, or keeps what it has of one, gets every line whole.
LEMMA ReadsWhole ==
  ASSUME NEW at, NEW read \in Nat, at = [read |-> read, kept |-> read % 2], NEW n \in Nat \ {0}
  PROVE  Completed(at, n) = (read \div 2 + 1)..((read + n) \div 2)
<1>1. at.read = read /\ at.kept = read % 2
  OBVIOUS
<1>2. read \div 2 \in Nat /\ read - (read % 2) = 2 * (read \div 2)
  OBVIOUS
<1>3. \A k \in (read \div 2 + 1)..((read + n) \div 2) : read - (read % 2) < 2 * k - 1
  BY <1>2
<1>4. QED
  BY <1>1, <1>3 DEF Completed

\* A run of places is picked as it stands.
LEMMA PickedRun ==
  ASSUME NEW S, NEW run \in Seq(S), NEW lines, NEW most \in Nat,
         NEW places, places = (most + 1)..(most + Len(run)),
         \A n \in 1..Len(run) : lines[most + n] = run[n]
  PROVE  Picked(lines, places) = run
<1> DEFINE count == Len(run)
           end == most + count
<1>1. count \in Nat /\ places = (most + 1)..(most + count)
  BY LenProperties
<1>2. \A n \in 1..count : lines[most + n] = run[n] /\ run[n] \in S
  BY ElementOfSeq
<1> HIDE DEF count
<1>3. places \in SUBSET (1..end) /\ end \in Nat /\ Cardinality(places) = count
  <2>1. places \in SUBSET (1..end) /\ end \in Nat
    BY <1>1
  <2>2. Cardinality((most + 1)..(most + count)) = count
    BY <1>1, FS_Interval
  <2>3. QED
    BY <1>1, <2>1, <2>2
<1>4. \A k \in places : Nth(k, places) = k - most
  <2> SUFFICES ASSUME NEW k \in places PROVE Nth(k, places) = k - most
    OBVIOUS
  <2>1. UpToPlace(k, places) = (most + 1)..k
    BY <1>1 DEF UpToPlace
  <2>2. Cardinality((most + 1)..k) = k - most
    BY <1>1, FS_Interval
  <2>3. QED
    BY <2>1, <2>2 DEF Nth
<1>5. \A k \in places : k - most \in 1..count /\ most + (k - most) = k
  BY <1>1
<1>6. \A k \in places : lines[k] \in S
  BY <1>2, <1>5
<1>7. \A n \in 1..count : most + n \in places /\ (most + n) - most = n
  BY <1>1
<1> HIDE DEF end
<1>8. /\ Picked(lines, places) \in Seq(S) /\ Len(Picked(lines, places)) = count
      /\ \A k \in places : Picked(lines, places)[Nth(k, places)] = lines[k]
  BY <1>3, <1>6, PickedAt
<1>9. \A n \in 1..count : Picked(lines, places)[n] = run[n]
  <2> SUFFICES ASSUME NEW n \in 1..count PROVE Picked(lines, places)[n] = run[n]
    OBVIOUS
  <2>1. most + n \in places /\ Nth(most + n, places) = n
    BY <1>4, <1>7
  <2>2. QED
    BY <1>2, <1>8, <2>1
<1>10. QED
  BY <1>8, <1>9, SeqEqual DEF count

\* What precedes in a sequence is a beginning of it.
LEMMA BeginningIsPrefix ==
  ASSUME NEW S, NEW s \in Seq(S), NEW t \in Seq(S)
  PROVE  IsPrefix(s, s \o t)
<1>1. /\ s \o t \in Seq(S) /\ Len(s \o t) = Len(s) + Len(t) /\ Len(s) \in Nat /\ Len(t) \in Nat
      /\ \A n \in 1..Len(s) : (s \o t)[n] = s[n] /\ s[n] \in S
  BY ConcatProperties, LenProperties, ElementOfSeq
<1> DEFINE a == SubSeq(s, 1, Len(s))
           b == SubSeq(s \o t, 1, Len(s))
<1>2. /\ a \in Seq(S) /\ Len(a) = Len(s) /\ \A n \in 1..Len(s) : a[n] = s[n]
  BY <1>1, SubSeqFull
<1>3. /\ b \in Seq(S) /\ Len(b) = Len(s) /\ \A n \in 1..Len(s) : b[n] = s[n]
  <2>1. \A n \in 1..Len(s) : (s \o t)[n] \in S
    BY <1>1
  <2> DEFINE all == s \o t
  <2>2. all = s \o t
    OBVIOUS
  <2> HIDE DEF all
  <2>3. /\ SubSeq(all, 1, Len(s)) \in Seq(S)
        /\ Len(SubSeq(all, 1, Len(s))) = IF 1 <= Len(s) THEN Len(s) - 1 + 1 ELSE 0
        /\ \A n \in 1..(Len(s) - 1 + 1) : SubSeq(all, 1, Len(s))[n] = all[1 + n - 1]
    BY <1>1, <2>1, <2>2, SubSeqProperties
  <2>4. \A n \in 1..Len(s) : n \in 1..(Len(s) - 1 + 1) /\ 1 + n - 1 = n
    BY <1>1
  <2>5. QED
    BY <1>1, <2>2, <2>3, <2>4
<1> HIDE DEF a, b
<1>4. a = b
  BY <1>2, <1>3, SeqEqual
<1>5. QED
  BY <1>1, <1>4 DEF IsPrefix, a, b

\* What a wire carries, and how far its reader has come.
Word == Token \union {Notice}
WireEvent == Controls \union Word
WireLine == Token \union {Junk, Done, Notice}
LinesRead(at) == at.read \div 2
Stands(at, lines) ==
  /\ at.read \in 0..(2 * Len(lines))
  /\ at = [read |-> at.read, kept |-> at.read % 2]

\* The words among the first events.
Spoken(told, most) == {k \in 1..most : told[k] \notin Controls}
Heard(told, most) == Picked(told, Spoken(told, most))

ConsoleTypeOK ==
  /\ panel \in [streaming : BOOLEAN, cited : BOOLEAN, answer : Seq(Word), failed : BOOLEAN]
  /\ server \in {"off", "retrieving", "fetching", "reading", "closed", "broken"}
  /\ response \in Seq(WireLine) /\ Stands(modelAt, response)
  /\ sent \in Seq(WireEvent) /\ Stands(panelAt, sent)

\* What the route sent is what the model said in the lines that were read.
ServerSound ==
  /\ Heard(sent, Len(sent)) = Picked(response, Words(response, LinesRead(modelAt)))
  /\ \A k \in Spoken(sent, Len(sent)) : sent[1] = "citations"
  /\ server \in {"off", "retrieving"} => sent = <<>>
  /\ server \in {"off", "retrieving", "fetching"} => modelAt = Start
  /\ server \in {"fetching", "reading"} => sent # <<>> /\ sent[1] = "citations"
  /\ server = "reading" => \A k \in 1..LinesRead(modelAt) : response[k] # Done
  /\ server = "broken" => ~panel.streaming \/ \E k \in 1..Len(sent) : sent[k] = "error"

\* What the panel shows is what the events say that were read, and it finished
\* without an error only where the route closed its stream and all was read.
PanelSound ==
  panel # Blank =>
    /\ panel.answer = Heard(sent, LinesRead(panelAt))
    /\ \A k \in 1..LinesRead(panelAt) :
         (sent[k] = "citations" => panel.cited) /\ (sent[k] = "error" => panel.failed)
    /\ ~panel.streaming /\ ~panel.failed => server = "closed" /\ LinesRead(panelAt) = Len(sent)

ConsoleInv == ConsoleTypeOK /\ ServerSound /\ PanelSound

LEMMA WordsAreNoControls == \A e \in WireEvent : e \notin Controls => e \in Word
  BY DEF WireEvent

LEMMA ControlsAreNoWords == Word \intersect Controls = {}
  BY ConsoleAssumption DEF Word

\* What is heard of more events begins with what was heard of fewer.
LEMMA HeardMore ==
  ASSUME NEW told \in Seq(WireEvent), NEW p \in Nat, NEW q \in Nat, p <= q, q <= Len(told)
  PROVE  /\ Heard(told, p) \in Seq(Word)
         /\ Picked(told, Spoken(told, q) \ (1..p)) \in Seq(Word)
         /\ Heard(told, q) = Heard(told, p) \o Picked(told, Spoken(told, q) \ (1..p))
<1> DEFINE early == Spoken(told, p)
           late == Spoken(told, q) \ (1..p)
<1>1. /\ early \in SUBSET (1..q) /\ late \in SUBSET (1..q) /\ Spoken(told, q) = early \union late
  BY DEF Spoken
<1>2. \A j \in early, k \in late : j < k
  BY DEF Spoken
<1>3. \A k \in early \union late : told[k] \in Word
  <2> SUFFICES ASSUME NEW k \in early \union late PROVE told[k] \in Word
    OBVIOUS
  <2>1. k \in 1..Len(told) /\ told[k] \notin Controls
    <3>1. Len(told) \in Nat
      BY LenProperties
    <3>2. QED
      BY <3>1 DEF Spoken
  <2>2. told[k] \in WireEvent
    BY <2>1, ElementOfSeq
  <2>3. QED
    BY <2>1, <2>2, WordsAreNoControls
<1> HIDE DEF early, late
<1>4. /\ Picked(told, early \union late) = Picked(told, early) \o Picked(told, late)
      /\ Picked(told, early) \in Seq(Word) /\ Picked(told, late) \in Seq(Word)
  BY <1>1, <1>2, <1>3, PickedAppends
<1>5. QED
  BY <1>1, <1>4 DEF Heard, early, late

\* What was heard stays what it was when more is told.
LEMMA HeardKept ==
  ASSUME NEW told \in Seq(WireEvent), NEW more \in Seq(WireEvent), NEW p \in Nat, p <= Len(told)
  PROVE  /\ Spoken(told \o more, p) = Spoken(told, p)
         /\ Heard(told \o more, p) = Heard(told, p)
<1> DEFINE all == told \o more
<1>1. \A k \in 1..p : all[k] = told[k]
  BY ConcatProperties, LenProperties
<1> HIDE DEF all
<1>2. Spoken(all, p) = Spoken(told, p)
  BY <1>1 DEF Spoken
<1>3. Spoken(told, p) \in SUBSET (1..p) /\ \A k \in Spoken(told, p) : all[k] = told[k]
  BY <1>1 DEF Spoken
<1>4. Picked(all, Spoken(told, p)) = Picked(told, Spoken(told, p))
  BY <1>3, PickedSame
<1>5. QED
  BY <1>2, <1>4 DEF Heard, all

\* Words that are told are heard.
LEMMA HeardWords ==
  ASSUME NEW told \in Seq(WireEvent), NEW words \in Seq(Word)
  PROVE  Heard(told \o words, Len(told \o words)) = Heard(told, Len(told)) \o words
<1> DEFINE all == told \o words
           p == Len(told)
           n == Len(words)
           late == Picked(all, Spoken(all, Len(all)) \ (1..p))
<1>1. words \in Seq(WireEvent) /\ \A k \in 1..n : words[k] \in Word
  <2>1. Word \subseteq WireEvent
    BY DEF WireEvent
  <2>2. QED
    BY <2>1, ElementOfSeq
<1>2. /\ all \in Seq(WireEvent) /\ Len(all) = p + n /\ p \in Nat /\ n \in Nat
      /\ \A k \in 1..n : all[p + k] = words[k]
  BY <1>1, ConcatProperties, LenProperties
<1> HIDE DEF all, p, n
<1>3. \A k \in (p + 1)..(p + n) : all[k] \in Word
  <2> SUFFICES ASSUME NEW k \in (p + 1)..(p + n) PROVE all[k] \in Word
    OBVIOUS
  <2>1. k - p \in 1..n /\ k = p + (k - p)
    BY <1>2
  <2>2. QED
    BY <1>1, <1>2, <2>1
<1>4. Spoken(all, Len(all)) \ (1..p) = (p + 1)..(p + n)
  <2>1. \A k \in (p + 1)..(p + n) : all[k] \notin Controls
    BY <1>3, ControlsAreNoWords
  <2>2. \A k : k \in 1..(p + n) /\ k \notin 1..p <=> k \in (p + 1)..(p + n)
    BY <1>2
  <2>3. QED
    BY <1>2, <2>1, <2>2 DEF Spoken
<1>5. late = words
  <2> DEFINE places == Spoken(all, Len(all)) \ (1..p)
  <2>1. places = (p + 1)..(p + Len(words)) /\ \A k \in 1..Len(words) : all[p + k] = words[k]
    BY <1>2, <1>4 DEF n
  <2> HIDE DEF places
  <2>2. Picked(all, places) = words
    BY <1>2, <2>1, PickedRun
  <2>3. QED
    BY <2>2 DEF places
<1> HIDE DEF late
<1>6. Heard(all, Len(all)) = Heard(all, p) \o late
  <2>1. p <= Len(all) /\ Len(all) <= Len(all) /\ Len(all) \in Nat
    BY <1>2
  <2>2. QED
    BY <1>2, <2>1, HeardMore DEF late
<1>7. Heard(all, p) = Heard(told, p)
  BY <1>1, <1>2, HeardKept DEF all, p
<1>8. QED
  BY <1>5, <1>6, <1>7 DEF all, p

\* A control is not.
LEMMA HeardControl ==
  ASSUME NEW told \in Seq(WireEvent), NEW c \in Controls
  PROVE  /\ Heard(told \o <<c>>, Len(told \o <<c>>)) = Heard(told, Len(told))
         /\ Spoken(told \o <<c>>, Len(told \o <<c>>)) = Spoken(told, Len(told))
<1> DEFINE all == told \o <<c>>
           p == Len(told)
<1>1. <<c>> \in Seq(WireEvent) /\ Len(<<c>>) = 1 /\ <<c>>[1] = c
  BY DEF WireEvent
<1>2. all \in Seq(WireEvent) /\ Len(all) = p + 1 /\ p \in Nat /\ all[p + 1] = c
  BY <1>1, ConcatProperties, LenProperties
<1> HIDE DEF all, p
<1>3. Spoken(all, Len(all)) = Spoken(all, p)
  <2>1. \A k : k \in 1..(p + 1) <=> k \in 1..p \/ k = p + 1
    BY <1>2
  <2>2. QED
    BY <1>2, <2>1 DEF Spoken
<1>4. Heard(all, p) = Heard(told, p) /\ Spoken(all, p) = Spoken(told, p)
  <2>1. p <= Len(told)
    BY <1>2 DEF p
  <2>2. QED
    BY <1>1, <1>2, <2>1, HeardKept DEF all
<1>5. QED
  BY <1>3, <1>4 DEF Heard, all, p

\* The model's words in more lines begin with those in fewer.
LEMMA WordsMore ==
  ASSUME NEW lines \in Seq(WireLine), NEW p \in Nat, NEW q \in Nat, p <= q, q <= Len(lines)
  PROVE  /\ Picked(lines, Words(lines, p)) \in Seq(Word)
         /\ Picked(lines, Words(lines, q) \ (1..p)) \in Seq(Word)
         /\ Picked(lines, Words(lines, q))
              = Picked(lines, Words(lines, p)) \o Picked(lines, Words(lines, q) \ (1..p))
<1> DEFINE early == Words(lines, p)
           late == Words(lines, q) \ (1..p)
<1>1. /\ early \in SUBSET (1..q) /\ late \in SUBSET (1..q) /\ Words(lines, q) = early \union late
  BY DEF Words
<1>2. \A j \in early, k \in late : j < k
  BY DEF Words
<1>3. \A k \in early \union late : lines[k] \in Word
  <2> SUFFICES ASSUME NEW k \in early \union late PROVE lines[k] \in Word
    OBVIOUS
  <2>1. k \in 1..Len(lines) /\ k \in 1..k /\ lines[k] # Junk /\ lines[k] # Done
    <3>1. Len(lines) \in Nat
      BY LenProperties
    <3>2. k \in 1..Len(lines) /\ k \in 1..k
      BY <3>1 DEF Words
    <3>3. QED
      BY <3>2 DEF Words
  <2>2. lines[k] \in WireLine
    BY <2>1, ElementOfSeq
  <2>3. QED
    BY <2>1, <2>2 DEF WireLine, Word
<1> HIDE DEF early, late
<1>4. /\ Picked(lines, early \union late) = Picked(lines, early) \o Picked(lines, late)
      /\ Picked(lines, early) \in Seq(Word) /\ Picked(lines, late) \in Seq(Word)
  BY <1>1, <1>2, <1>3, PickedAppends
<1>5. QED
  BY <1>1, <1>4 DEF early, late

\* Where a reader stands, so many lines are read.
LEMMA StandsInLines ==
  ASSUME NEW S, NEW lines \in Seq(S), NEW at, Stands(at, lines)
  PROVE  /\ LinesRead(at) \in Nat /\ LinesRead(at) <= Len(lines) /\ Len(lines) \in Nat
         /\ at.read = 2 * Len(lines) => LinesRead(at) = Len(lines)
         /\ at.read >= 2 * Len(lines) => LinesRead(at) = Len(lines)
<1>1. Len(lines) \in Nat /\ at.read \in 0..(2 * Len(lines))
  BY LenProperties DEF Stands
<1> DEFINE read == at.read
           count == Len(lines)
<1>2. read \in Nat /\ count \in Nat /\ read <= 2 * count
  BY <1>1
<1> HIDE DEF read, count
<1>3. /\ read \div 2 \in Nat /\ read \div 2 <= count
      /\ read >= 2 * count => read \div 2 = count
  BY <1>2
<1>4. QED
  BY <1>2, <1>3 DEF LinesRead, read, count

\* Reading on completes the lines that follow.
LEMMA ReadsOn ==
  ASSUME NEW S, NEW lines \in Seq(S), NEW at, Stands(at, lines),
         NEW n \in 1..(2 * Len(lines) - at.read)
  PROVE  /\ Stands(After(at, n), lines)
         /\ LinesRead(at) <= LinesRead(After(at, n))
         /\ Completed(at, n) = (LinesRead(at) + 1)..LinesRead(After(at, n))
<1>1. Len(lines) \in Nat /\ at.read \in 0..(2 * Len(lines))
  BY LenProperties DEF Stands
<1>2. at.read \in Nat /\ n \in Nat \ {0} /\ at.read + n \in 0..(2 * Len(lines))
  BY <1>1
<1>3. /\ After(at, n).read = at.read + n
      /\ After(at, n) = [read |-> at.read + n, kept |-> (at.read + n) % 2]
  BY DEF After, Kept
<1>4. at.read \div 2 <= (at.read + n) \div 2
  BY <1>2
<1>5. Completed(at, n) = (at.read \div 2 + 1)..((at.read + n) \div 2)
  <2>1. at = [read |-> at.read, kept |-> at.read % 2]
    BY DEF Stands
  <2>2. QED
    BY <1>2, <2>1, ReadsWhole
<1>6. QED
  BY <1>2, <1>3, <1>4, <1>5 DEF Stands, LinesRead

\* Where nothing was read, nothing was heard.
LEMMA NothingRead ==
  ASSUME NEW lines
  PROVE  /\ LinesRead(Start) = 0 /\ Words(lines, 0) = {} /\ Spoken(lines, 0) = {}
         /\ Picked(lines, {}) = <<>> /\ Heard(lines, 0) = <<>>
<1>1. LinesRead(Start) = 0 /\ Words(lines, 0) = {} /\ Spoken(lines, 0) = {}
  BY DEF LinesRead, Start, Words, Spoken
<1>2. Picked(lines, {}) = <<>>
  <2> DEFINE s == Picked(lines, {})
  <2>1. {} \in SUBSET (1..0) /\ \A k \in {} : lines[k] \in {}
    OBVIOUS
  <2>2. s \in Seq({}) /\ Len(s) = Cardinality({})
    BY <2>1, PickedAt
  <2>3. Len(s) = 0
    BY <2>2, FS_EmptySet
  <2> HIDE DEF s
  <2>4. s = <<>>
    BY <2>2, <2>3, EmptySeq
  <2>5. QED
    BY <2>4 DEF s
<1>3. QED
  BY <1>1, <1>2 DEF Heard

LEMMA NothingStands ==
  ASSUME NEW S, NEW lines \in Seq(S)
  PROVE  Stands(Start, lines)
BY LenProperties DEF Stands, Start

LEMMA ConsoleStarts == ConsoleInit => ConsoleInv
<1> SUFFICES ASSUME ConsoleInit PROVE ConsoleInv
  OBVIOUS
<1>1. /\ panel = Blank /\ server = "off" /\ response = <<>> /\ modelAt = Start
      /\ sent = <<>> /\ panelAt = Start
  BY DEF ConsoleInit
<1>2. <<>> \in Seq(WireLine) /\ <<>> \in Seq(WireEvent) /\ <<>> \in Seq(Word) /\ Len(<<>>) = 0
  BY EmptySeq
<1>3. ConsoleTypeOK
  BY <1>1, <1>2, NothingStands DEF ConsoleTypeOK, Blank
<1>4. ServerSound
  BY <1>1, <1>2, NothingRead DEF ServerSound, Heard
<1>5. QED
  BY <1>1, <1>3, <1>4 DEF ConsoleInv, PanelSound

\* What the panel shows stays true of a wire that carries more.
LEMMA PanelKept ==
  ASSUME ConsoleInv, NEW more \in Seq(WireEvent), sent' = sent \o more,
         UNCHANGED <<panel, panelAt>>, server # "closed"
  PROVE  /\ sent' \in Seq(WireEvent) /\ Stands(panelAt, sent)' /\ PanelSound'
         /\ Len(sent') = Len(sent) + Len(more) /\ Len(sent) \in Nat /\ Len(more) \in Nat
         /\ \A k \in 1..Len(sent) : sent'[k] = sent[k]
<1> DEFINE p == LinesRead(panelAt)
<1>1. sent \in Seq(WireEvent) /\ Stands(panelAt, sent) /\ PanelSound
  BY DEF ConsoleInv, ConsoleTypeOK
<1>2. /\ sent' \in Seq(WireEvent) /\ Len(sent') = Len(sent) + Len(more)
      /\ Len(sent) \in Nat /\ Len(more) \in Nat /\ \A k \in 1..Len(sent) : sent'[k] = sent[k]
  BY <1>1, ConcatProperties, LenProperties
<1>3. Stands(panelAt, sent)'
  <2>1. \A read \in 0..(2 * Len(sent)) : read \in 0..(2 * Len(sent'))
    BY <1>2
  <2>2. QED
    BY <1>1, <2>1 DEF Stands
<1>4. p \in Nat /\ p <= Len(sent)
  BY <1>1, StandsInLines
<1>5. Heard(sent', p) = Heard(sent, p) /\ \A k \in 1..p : sent'[k] = sent[k]
  BY <1>1, <1>2, <1>4, HeardKept
<1> HIDE DEF p
<1>6. LinesRead(panelAt') = p /\ LinesRead(panelAt) = p /\ panel' = panel
  BY DEF p
<1>7. PanelSound'
  <2> SUFFICES ASSUME panel # Blank
               PROVE  /\ panel.answer = Heard(sent', p)
                      /\ \A k \in 1..p :
                           (sent'[k] = "citations" => panel.cited) /\ (sent'[k] = "error" => panel.failed)
                      /\ ~(~panel.streaming /\ ~panel.failed)
    BY <1>6 DEF PanelSound, Blank
  <2>1. QED
    BY <1>1, <1>5, <1>6 DEF PanelSound
<1>8. QED
  BY <1>2, <1>3, <1>7

\* A control that is sent changes nothing of what was heard.
LEMMA ControlSent ==
  ASSUME ConsoleInv, NEW c \in Controls, Sends(<<c>>), UNCHANGED <<panel, panelAt>>, server # "closed"
  PROVE  /\ sent' \in Seq(WireEvent) /\ Stands(panelAt, sent)' /\ PanelSound'
         /\ Heard(sent, Len(sent))' = Heard(sent, Len(sent))
         /\ Spoken(sent, Len(sent))' = Spoken(sent, Len(sent))
         /\ \A k \in 1..Len(sent) : sent'[k] = sent[k]
         /\ Len(sent) \in Nat /\ Len(sent') = Len(sent) + 1 /\ sent'[Len(sent) + 1] = c
         /\ sent # <<>> => Len(sent) # 0
<1>1. /\ sent \in Seq(WireEvent) /\ sent' = sent \o <<c>>
      /\ <<c>> \in Seq(WireEvent) /\ Len(<<c>>) = 1 /\ <<c>>[1] = c
  BY DEF ConsoleInv, ConsoleTypeOK, Sends, WireEvent
<1>2. /\ sent' \in Seq(WireEvent) /\ Stands(panelAt, sent)' /\ PanelSound'
      /\ Len(sent') = Len(sent) + 1 /\ Len(sent) \in Nat
      /\ \A k \in 1..Len(sent) : sent'[k] = sent[k]
  BY <1>1, PanelKept
<1>3. sent'[Len(sent) + 1] = c
  BY <1>1, <1>2, ConcatProperties
<1>4. /\ Heard(sent', Len(sent')) = Heard(sent, Len(sent))
      /\ Spoken(sent', Len(sent')) = Spoken(sent, Len(sent))
  BY <1>1, HeardControl
<1>5. sent # <<>> => Len(sent) # 0
  BY <1>1, EmptySeq
<1>6. QED
  BY <1>2, <1>3, <1>4, <1>5

LEMMA AskQuestionKeeps == ConsoleInv /\ AskQuestion => ConsoleInv'
<1> SUFFICES ASSUME ConsoleInv, AskQuestion PROVE ConsoleInv'
  OBVIOUS
<1>1. /\ panel' = [Blank EXCEPT !.streaming = TRUE] /\ server' = "retrieving" /\ response' = <<>>
      /\ modelAt' = Start /\ sent' = <<>> /\ panelAt' = Start
  BY DEF AskQuestion
<1>2. <<>> \in Seq(WireLine) /\ <<>> \in Seq(WireEvent) /\ <<>> \in Seq(Word) /\ Len(<<>>) = 0
  BY EmptySeq
<1>3. ConsoleTypeOK'
  BY <1>1, <1>2, NothingStands DEF ConsoleTypeOK, Blank
<1>4. ServerSound'
  BY <1>1, <1>2, NothingRead DEF ServerSound, Heard
<1>5. PanelSound'
  BY <1>1, NothingRead DEF PanelSound, Blank
<1>6. QED
  BY <1>3, <1>4, <1>5 DEF ConsoleInv

LEMMA TurnAwayKeeps == ConsoleInv /\ TurnAway => ConsoleInv'
<1> SUFFICES ASSUME ConsoleInv, TurnAway PROVE ConsoleInv'
  OBVIOUS
<1>1. /\ panel' = [panel EXCEPT !.streaming = FALSE, !.failed = TRUE] /\ server' = "broken"
      /\ UNCHANGED <<response, modelAt, sent, panelAt>> /\ panel.streaming /\ server = "retrieving"
  BY DEF TurnAway
<1>2. ConsoleTypeOK'
  BY <1>1 DEF ConsoleInv, ConsoleTypeOK, Stands
<1>3. ~panel'.streaming /\ panel'.failed /\ panel'.answer = panel.answer /\ panel'.cited = panel.cited
  BY <1>1 DEF ConsoleInv, ConsoleTypeOK
<1>4. ServerSound'
  BY <1>1, <1>3 DEF ConsoleInv, ServerSound, Heard, Spoken, Words, LinesRead
<1>5. PanelSound'
  BY <1>1, <1>3 DEF ConsoleInv, PanelSound, Heard, Spoken, LinesRead, Blank
<1>6. QED
  BY <1>2, <1>4, <1>5 DEF ConsoleInv

LEMMA RetrieveKeeps == ConsoleInv /\ Retrieve => ConsoleInv'
<1> SUFFICES ASSUME ConsoleInv, Retrieve PROVE ConsoleInv'
  OBVIOUS
<1>1. /\ server = "retrieving" /\ UNCHANGED <<panel, asked, panelAt>>
      /\ sent = <<>> /\ modelAt = Start /\ server # "closed"
      /\ Heard(sent, Len(sent)) = Picked(response, Words(response, LinesRead(modelAt)))
      /\ response \in Seq(WireLine) /\ Stands(modelAt, response)
      /\ sent \in Seq(WireEvent)
      /\ panel \in [streaming : BOOLEAN, cited : BOOLEAN, answer : Seq(Word), failed : BOOLEAN]
  BY DEF Retrieve, ConsoleInv, ServerSound, ConsoleTypeOK
<1>2. CASE server' = "fetching" /\ Sends(<<"citations">>) /\ UNCHANGED <<response, modelAt>>
  <2>1. "citations" \in Controls
    BY DEF Controls
  <2>2. /\ sent' \in Seq(WireEvent) /\ Stands(panelAt, sent)' /\ PanelSound'
        /\ Heard(sent, Len(sent))' = Heard(sent, Len(sent))
        /\ Len(sent) \in Nat /\ Len(sent') = Len(sent) + 1 /\ sent'[Len(sent) + 1] = "citations"
    BY <1>1, <1>2, <2>1, ControlSent
  <2>3. sent' # <<>> /\ sent'[1] = "citations"
    <3>1. Len(sent) = 0 /\ Len(<<>>) = 0
      BY <1>1
    <3>2. Len(sent') = 1 /\ sent'[1] = "citations"
      BY <2>2, <3>1
    <3>3. QED
      BY <3>1, <3>2
  <2>4. ServerSound'
    BY <1>1, <1>2, <2>2, <2>3 DEF ServerSound
  <2>5. ConsoleTypeOK'
    BY <1>1, <1>2, <2>2 DEF ConsoleTypeOK, Stands
  <2>6. QED
    BY <2>2, <2>4, <2>5 DEF ConsoleInv
<1>3. CASE /\ server' = "closed" /\ Sends(<<"citations", Notice, "done">>)
           /\ response' = <<Notice>> /\ modelAt' = After(modelAt, 2)
  <2> DEFINE more == <<"citations", Notice, "done">>
             said == <<Notice>>
  <2>1. /\ more \in Seq(WireEvent) /\ Len(more) = 3
        /\ more[1] = "citations" /\ more[2] = Notice /\ more[3] = "done"
        /\ said \in Seq(Word) /\ said \in Seq(WireLine) /\ Len(said) = 1 /\ said[1] = Notice
    BY DEF WireEvent, WireLine, Word, Controls
  <2>2. Notice \notin Controls /\ Notice # Junk /\ Notice # Done /\ "citations" \in Controls /\ "done" \in Controls
    BY ConsoleAssumption DEF Controls
  <2>3. sent' = more
    <3>1. sent' = <<>> \o more
      BY <1>1, <1>3 DEF Sends
    <3> HIDE DEF more
    <3>2. QED
      BY <2>1, <3>1, ConcatEmptySeq
  <2>4. modelAt' = [read |-> 2, kept |-> 0] /\ LinesRead(modelAt') = 1
    BY <1>1, <1>3 DEF After, Kept, Start, LinesRead
  <2> HIDE DEF more, said
  <2>5. Stands(modelAt, response)'
    BY <1>3, <2>1, <2>4 DEF Stands, said
  <2>6. Stands(panelAt, sent)' /\ PanelSound'
    <3>1. sent' = sent \o more
      BY <1>3 DEF Sends, more
    <3>2. QED
      BY <1>1, <2>1, <3>1, PanelKept
  <2>7. Spoken(more, 3) = 2..2 /\ Words(said, 1) = 1..1
    BY <2>1, <2>2 DEF Spoken, Words
  <2>8. Picked(more, 2..2) = said
    <3> DEFINE most == 1
               places == 2..2
    <3>1. /\ most \in Nat /\ places = (most + 1)..(most + Len(said))
          /\ \A n \in 1..Len(said) : more[most + n] = said[n]
      BY <2>1
    <3> HIDE DEF most, places
    <3>2. Picked(more, places) = said
      BY <2>1, <3>1, PickedRun
    <3>3. QED
      BY <3>2 DEF places
  <2>9. Picked(said, 1..1) = said
    <3> DEFINE most == 0
               places == 1..1
    <3>1. /\ most \in Nat /\ places = (most + 1)..(most + Len(said))
          /\ \A n \in 1..Len(said) : said[most + n] = said[n]
      BY <2>1
    <3> HIDE DEF most, places
    <3>2. Picked(said, places) = said
      BY <2>1, <3>1, PickedRun
    <3>3. QED
      BY <3>2 DEF places
  <2>10. ServerSound'
    BY <1>3, <2>1, <2>3, <2>4, <2>7, <2>8, <2>9 DEF ServerSound, Heard, said
  <2>11. ConsoleTypeOK'
    BY <1>1, <1>3, <2>1, <2>3, <2>5, <2>6 DEF ConsoleTypeOK, said
  <2>12. QED
    BY <2>6, <2>10, <2>11 DEF ConsoleInv
<1>4. QED
  BY <1>2, <1>3 DEF Retrieve

\* RetrieveThrows, ModelEnds, ModelFails and Timeout send a last control.
LEMMA ClosingKeeps ==
  ASSUME ConsoleInv, NEW c \in {"done", "error"}, Sends(<<c>>),
         server \in {"retrieving", "fetching", "reading"},
         server' = IF c = "done" THEN "closed" ELSE "broken",
         UNCHANGED <<panel, response, modelAt, panelAt>>
  PROVE  ConsoleInv'
<1>1. c \in Controls /\ server # "closed"
  BY DEF Controls
<1>2. /\ sent' \in Seq(WireEvent) /\ Stands(panelAt, sent)' /\ PanelSound'
      /\ Heard(sent, Len(sent))' = Heard(sent, Len(sent))
      /\ Spoken(sent, Len(sent))' = Spoken(sent, Len(sent))
      /\ \A k \in 1..Len(sent) : sent'[k] = sent[k]
      /\ Len(sent) \in Nat /\ Len(sent') = Len(sent) + 1 /\ sent'[Len(sent) + 1] = c
  BY <1>1, ControlSent
<1>3. \A k \in Spoken(sent, Len(sent)) : sent'[1] = "citations"
  <2> SUFFICES ASSUME NEW k \in Spoken(sent, Len(sent)) PROVE sent'[1] = "citations"
    OBVIOUS
  <2>1. sent[1] = "citations"
    BY DEF ConsoleInv, ServerSound
  <2>2. k \in 1..Len(sent)
    BY DEF Spoken
  <2>3. QED
    BY <1>2, <2>1, <2>2
<1>4. server' = "broken" => \E k \in 1..Len(sent') : sent'[k] = "error"
  <2>1. Len(sent) + 1 \in 1..Len(sent')
    BY <1>2
  <2>2. QED
    BY <1>2, <2>1
<1>5. Heard(sent, Len(sent)) = Picked(response, Words(response, LinesRead(modelAt)))
  BY DEF ConsoleInv, ServerSound
<1>6. ServerSound'
  BY <1>2, <1>3, <1>4, <1>5 DEF ServerSound
<1>7. ConsoleTypeOK'
  BY <1>2 DEF ConsoleInv, ConsoleTypeOK, Stands
<1>8. QED
  BY <1>2, <1>6, <1>7 DEF ConsoleInv

LEMMA FetchKeeps == ConsoleInv /\ Fetch => ConsoleInv'
<1> SUFFICES ASSUME ConsoleInv, Fetch PROVE ConsoleInv'
  OBVIOUS
<1>1. /\ server = "fetching" /\ server' = "reading" /\ response' \in Responses
      /\ UNCHANGED <<panel, modelAt, sent, panelAt>>
      /\ modelAt = Start /\ sent # <<>> /\ sent[1] = "citations"
  BY DEF Fetch, ConsoleInv, ServerSound
<1>2. response' \in Seq(WireLine)
  <2>1. Token \union {Junk, Done} \subseteq WireLine
    BY DEF WireLine
  <2>2. \A s \in Seq(Token \union {Junk, Done}) : s \in Seq(WireLine)
    BY <2>1
  <2>3. QED
    BY <1>1, <2>2, ConsoleAssumption
<1>3. ConsoleTypeOK'
  BY <1>1, <1>2, NothingStands DEF ConsoleInv, ConsoleTypeOK, Stands
<1>4. Heard(sent, Len(sent)) = <<>>
  BY <1>1, NothingRead DEF ConsoleInv, ServerSound
<1>5. ServerSound'
  <2>1. Picked(response', Words(response', LinesRead(modelAt'))) = <<>> /\ LinesRead(modelAt') = 0
    BY <1>1, NothingRead
  <2>2. \A k \in 1..0 : response'[k] # Done
    OBVIOUS
  <2>3. QED
    BY <1>1, <1>4, <2>1, <2>2 DEF ServerSound
<1>6. PanelSound'
  BY <1>1 DEF ConsoleInv, PanelSound
<1>7. QED
  BY <1>3, <1>5, <1>6 DEF ConsoleInv

\* The tokens of a chunk are the model's words in the lines that it completes.
LEMMA ChunkOfWords ==
  ASSUME NEW lines \in Seq(WireLine), NEW p \in Nat, NEW q \in Nat, p <= q,
         \A k \in 1..p : lines[k] # Done,
         NEW parsed, \A k : k \in parsed <=> k \in (p + 1)..q /\ lines[k] # Junk,
         NEW ends, \A k : k \in ends <=> k \in parsed /\ lines[k] = Done
  PROVE  /\ \A k : k \in Words(lines, q) /\ k \notin 1..p <=> k \in parsed /\ \A j \in ends : k < j
         /\ ends = {} => \A k \in 1..q : lines[k] # Done
<1>1. \A j \in 1..q : lines[j] = Done => j \in ends
  <2> SUFFICES ASSUME NEW j \in 1..q, lines[j] = Done PROVE j \in ends
    OBVIOUS
  <2>1. j \in (p + 1)..q
    <3>1. j \notin 1..p
      OBVIOUS
    <3>2. QED
      BY <3>1
  <2>2. QED
    BY <2>1, ConsoleAssumption
<1>2. ASSUME NEW k \in parsed, \A j \in ends : k < j PROVE k \in Words(lines, q) /\ k \notin 1..p
  <2>1. k \in 1..q /\ k \notin 1..p /\ lines[k] # Junk
    OBVIOUS
  <2>2. ASSUME NEW j \in 1..k PROVE lines[j] # Done
    <3>1. j \in 1..q /\ ~(k < j)
      BY <2>1
    <3>2. QED
      BY <1>1, <1>2, <3>1
  <2>3. QED
    BY <2>1, <2>2 DEF Words
<1>3. ASSUME NEW k \in Words(lines, q), k \notin 1..p PROVE k \in parsed /\ \A j \in ends : k < j
  <2>1. k \in 1..q /\ lines[k] # Junk /\ \A j \in 1..k : lines[j] # Done
    BY DEF Words
  <2>2. k \in (p + 1)..q
    BY <1>3, <2>1
  <2>3. ASSUME NEW j \in ends PROVE k < j
    <3>1. j \in (p + 1)..q /\ lines[j] = Done
      OBVIOUS
    <3>2. j \notin 1..k
      BY <2>1, <3>1
    <3>3. QED
      BY <2>1, <3>1, <3>2
  <2>4. QED
    BY <2>1, <2>2, <2>3
<1>4. ends = {} => \A k \in 1..q : lines[k] # Done
  BY <1>1
<1>5. QED
  BY <1>2, <1>3, <1>4

LEMMA ReadModelKeeps == ConsoleInv /\ ReadModel => ConsoleInv'
<1> SUFFICES ASSUME ConsoleInv, ReadModel PROVE ConsoleInv'
  OBVIOUS
<1> DEFINE p == LinesRead(modelAt)
           q == LinesRead(modelAt')
<1>1. PICK n \in 1..(2 * Len(response) - modelAt.read) :
        LET parsed == {k \in Completed(modelAt, n) : response[k] # Junk}
            ends == {k \in parsed : response[k] = Done}
            tokens == {k \in parsed : \A j \in ends : k < j}
        IN  /\ modelAt' = After(modelAt, n)
            /\ Sends(Picked(response, tokens) \o (IF ends = {} THEN <<>> ELSE <<"done">>))
            /\ server' = IF ends = {} THEN "reading" ELSE "closed"
  BY DEF ReadModel
<1> DEFINE parsed == {k \in Completed(modelAt, n) : response[k] # Junk}
           ends == {k \in parsed : response[k] = Done}
           tokens == {k \in parsed : \A j \in ends : k < j}
           words == Picked(response, tokens)
           last == IF ends = {} THEN <<>> ELSE <<"done">>
<1>2. /\ modelAt' = After(modelAt, n) /\ Sends(words \o last)
      /\ server' = (IF ends = {} THEN "reading" ELSE "closed")
      /\ server = "reading" /\ UNCHANGED <<panel, response, panelAt>>
  BY <1>1 DEF ReadModel
<1>3. /\ response \in Seq(WireLine) /\ Stands(modelAt, response)
      /\ sent \in Seq(WireEvent) /\ Len(sent) \in Nat
      /\ Heard(sent, Len(sent)) = Picked(response, Words(response, p))
      /\ \A k \in 1..p : response[k] # Done
      /\ sent # <<>> /\ sent[1] = "citations" /\ Len(sent) # 0
  <2>1. sent \in Seq(WireEvent) /\ sent # <<>>
    BY <1>2 DEF ConsoleInv, ConsoleTypeOK, ServerSound
  <2>2. Len(sent) \in Nat \ {0}
    BY <2>1, EmptySeq
  <2>3. QED
    BY <1>2, <2>1, <2>2 DEF ConsoleInv, ConsoleTypeOK, ServerSound
<1>4. Stands(modelAt', response) /\ p <= q /\ Completed(modelAt, n) = (p + 1)..q
  BY <1>2, <1>3, ReadsOn
<1>5. p \in Nat /\ q \in Nat /\ q <= Len(response)
  BY <1>3, <1>4, StandsInLines
<1> HIDE DEF p, q
<1>6. tokens = Words(response, q) \ (1..p) /\ (ends = {} => \A k \in 1..q : response[k] # Done)
  <2>1. \A k : k \in parsed <=> k \in (p + 1)..q /\ response[k] # Junk
    BY <1>4
  <2> HIDE DEF parsed
  <2>2. \A k : k \in ends <=> k \in parsed /\ response[k] = Done
    OBVIOUS
  <2> HIDE DEF ends
  <2>3. \A k : k \in tokens <=> k \in parsed /\ \A j \in ends : k < j
    OBVIOUS
  <2> HIDE DEF tokens
  <2>4. /\ response \in Seq(WireLine) /\ p \in Nat /\ q \in Nat /\ p <= q
        /\ \A k \in 1..p : response[k] # Done
    BY <1>3, <1>4, <1>5
  <2>5. /\ \A k : k \in Words(response, q) /\ k \notin 1..p <=> k \in parsed /\ \A j \in ends : k < j
        /\ ends = {} => \A k \in 1..q : response[k] # Done
    BY <2>1, <2>2, <2>4, ChunkOfWords
  <2>6. QED
    BY <2>3, <2>5
<1> HIDE DEF parsed, ends, tokens
<1>7. /\ words \in Seq(Word)
      /\ Picked(response, Words(response, q)) = Picked(response, Words(response, p)) \o words
  BY <1>3, <1>4, <1>5, <1>6, WordsMore
<1> HIDE DEF words
<1>8. words \in Seq(WireEvent) /\ last \in Seq(WireEvent) /\ words \o last \in Seq(WireEvent)
  <2>1. Word \subseteq WireEvent /\ "done" \in WireEvent
    BY DEF WireEvent, Controls
  <2>2. words \in Seq(WireEvent)
    BY <1>7, <2>1
  <2>3. last \in Seq(WireEvent)
    BY <2>1
  <2>4. QED
    BY <2>2, <2>3, ConcatProperties
<1> HIDE DEF last
<1>9. sent' = (sent \o words) \o last /\ sent' = sent \o (words \o last)
  <2>1. sent' = sent \o (words \o last)
    BY <1>2 DEF Sends
  <2>2. (sent \o words) \o last = sent \o (words \o last)
    BY <1>3, <1>8, ConcatAssociative
  <2>3. QED
    BY <2>1, <2>2
<1>10. Heard(sent', Len(sent')) = Picked(response, Words(response, q))
  <2>1. Heard(sent \o words, Len(sent \o words)) = Picked(response, Words(response, q))
    BY <1>3, <1>7, HeardWords
  <2>2. sent \o words \in Seq(WireEvent)
    BY <1>3, <1>8, ConcatProperties
  <2> DEFINE told == sent \o words
  <2> HIDE DEF told
  <2>3. CASE ends = {}
    <3>1. told \o last = told
      BY <2>2, <2>3, ConcatEmptySeq DEF last, told
    <3>2. QED
      BY <1>9, <2>1, <3>1 DEF told
  <2>4. CASE ends # {}
    <3>1. last = <<"done">> /\ "done" \in Controls
      BY <2>4 DEF last, Controls
    <3>2. Heard(told \o <<"done">>, Len(told \o <<"done">>)) = Heard(told, Len(told))
      BY <2>2, <3>1, HeardControl DEF told
    <3>3. QED
      BY <1>9, <2>1, <3>1, <3>2 DEF told
  <2>5. QED
    BY <2>3, <2>4
<1>11. /\ sent' \in Seq(WireEvent) /\ Stands(panelAt, sent)' /\ PanelSound'
       /\ sent' # <<>> /\ sent'[1] = "citations"
  <2> DEFINE more == words \o last
  <2>1. more \in Seq(WireEvent) /\ sent' = sent \o more
    BY <1>8, <1>9
  <2> HIDE DEF more
  <2>2. /\ sent' \in Seq(WireEvent) /\ Stands(panelAt, sent)' /\ PanelSound'
        /\ Len(sent') = Len(sent) + Len(more) /\ Len(more) \in Nat
        /\ \A k \in 1..Len(sent) : sent'[k] = sent[k]
    BY <1>2, <2>1, PanelKept
  <2>3. Len(sent') # 0 /\ 1 \in 1..Len(sent)
    BY <1>3, <2>2
  <2>4. QED
    BY <1>3, <2>2, <2>3, EmptySeq
<1>12. ServerSound'
  BY <1>2, <1>6, <1>10, <1>11 DEF ServerSound, q
<1>13. ConsoleTypeOK'
  BY <1>2, <1>3, <1>4, <1>11 DEF ConsoleInv, ConsoleTypeOK
<1>14. QED
  BY <1>11, <1>12, <1>13 DEF ConsoleInv

LEMMA ReadEventsKeeps == ConsoleInv /\ ReadEvents => ConsoleInv'
<1> SUFFICES ASSUME ConsoleInv, ReadEvents PROVE ConsoleInv'
  OBVIOUS
<1> DEFINE p == LinesRead(panelAt)
           q == LinesRead(panelAt')
<1>1. PICK n \in 1..(2 * Len(sent) - panelAt.read) :
        panel' = Shown(Completed(panelAt, n)) /\ panelAt' = After(panelAt, n)
  BY DEF ReadEvents
<1>2. /\ panel.streaming /\ UNCHANGED <<server, response, modelAt, sent>>
      /\ sent \in Seq(WireEvent) /\ Stands(panelAt, sent) /\ Len(sent) \in Nat
      /\ panel \in [streaming : BOOLEAN, cited : BOOLEAN, answer : Seq(Word), failed : BOOLEAN]
      /\ panel # Blank
  BY LenProperties DEF ReadEvents, ConsoleInv, ConsoleTypeOK, Blank
<1>3. Stands(panelAt', sent) /\ p <= q /\ Completed(panelAt, n) = (p + 1)..q
  BY <1>1, <1>2, ReadsOn
<1>4. p \in Nat /\ q \in Nat /\ q <= Len(sent)
  BY <1>2, <1>3, StandsInLines
<1>5. /\ panel.answer = Heard(sent, p)
      /\ \A k \in 1..p : (sent[k] = "citations" => panel.cited) /\ (sent[k] = "error" => panel.failed)
  BY <1>2 DEF ConsoleInv, PanelSound
<1> HIDE DEF p, q
<1> DEFINE chunk == (p + 1)..q
           spoken == {k \in chunk : sent[k] \notin Controls}
<1>6. /\ panel'.streaming /\ panel'.cited = (panel.cited \/ \E k \in chunk : sent[k] = "citations")
      /\ panel'.failed = (panel.failed \/ \E k \in chunk : sent[k] = "error")
      /\ panel'.answer = panel.answer \o Picked(sent, spoken)
      /\ DOMAIN panel' = {"streaming", "cited", "answer", "failed"}
      /\ panel' = [streaming |-> panel'.streaming, cited |-> panel'.cited, answer |-> panel'.answer,
                   failed |-> panel'.failed]
  BY <1>1, <1>2, <1>3 DEF Shown
<1>7. spoken = Spoken(sent, q) \ (1..p)
  BY <1>3, <1>4 DEF Spoken
<1>8. /\ panel'.answer = Heard(sent, q) /\ panel'.answer \in Seq(Word)
  <2>1. /\ Heard(sent, q) = Heard(sent, p) \o Picked(sent, spoken)
        /\ Heard(sent, p) \in Seq(Word) /\ Picked(sent, spoken) \in Seq(Word)
    BY <1>2, <1>3, <1>4, <1>7, HeardMore
  <2>2. QED
    BY <1>5, <1>6, <2>1, ConcatProperties
<1> HIDE DEF spoken
<1>9. \A k \in 1..q : (sent[k] = "citations" => panel'.cited) /\ (sent[k] = "error" => panel'.failed)
  <2>1. \A k \in 1..q : k \in 1..p \/ k \in chunk
    BY <1>4
  <2> HIDE DEF chunk
  <2>2. QED
    BY <1>5, <1>6, <2>1
<1>10. PanelSound'
  BY <1>2, <1>6, <1>8, <1>9 DEF PanelSound, q
<1>11. ServerSound'
  BY <1>2, <1>6 DEF ConsoleInv, ServerSound, Heard, Spoken, Words, LinesRead
<1>12. ConsoleTypeOK'
  <2>1. panel'.streaming \in BOOLEAN /\ panel'.cited \in BOOLEAN /\ panel'.failed \in BOOLEAN
    BY <1>2, <1>6
  <2>2. panel' \in [streaming : BOOLEAN, cited : BOOLEAN, answer : Seq(Word), failed : BOOLEAN]
    BY <1>6, <1>8, <2>1
  <2>3. QED
    BY <1>2, <1>3, <2>2 DEF ConsoleInv, ConsoleTypeOK, Stands
<1>13. QED
  BY <1>10, <1>11, <1>12 DEF ConsoleInv

\* The panel stops waiting.
LEMMA EndOfEventsKeeps == ConsoleInv /\ EndOfEvents => ConsoleInv'
<1> SUFFICES ASSUME ConsoleInv, EndOfEvents PROVE ConsoleInv'
  OBVIOUS
<1>1. /\ panel.streaming /\ server \in {"closed", "broken"} /\ panelAt.read = 2 * Len(sent)
      /\ panel' = [panel EXCEPT !.streaming = FALSE]
      /\ UNCHANGED <<server, response, modelAt, sent, panelAt>>
      /\ panel \in [streaming : BOOLEAN, cited : BOOLEAN, answer : Seq(Word), failed : BOOLEAN]
      /\ sent \in Seq(WireEvent) /\ Stands(panelAt, sent) /\ panel # Blank
  BY DEF EndOfEvents, ConsoleInv, ConsoleTypeOK, Blank
<1>2. /\ ~panel'.streaming /\ panel'.failed = panel.failed
      /\ panel'.answer = panel.answer /\ panel'.cited = panel.cited
  BY <1>1
<1>3. LinesRead(panelAt) = Len(sent)
  BY <1>1, StandsInLines
<1>4. server = "broken" => panel.failed
  BY <1>1, <1>3 DEF ConsoleInv, ServerSound, PanelSound
<1>5. ConsoleTypeOK'
  BY <1>1 DEF ConsoleInv, ConsoleTypeOK, Stands
<1>6. ServerSound'
  BY <1>1, <1>2 DEF ConsoleInv, ServerSound, Heard, Spoken, Words, LinesRead
<1>7. PanelSound'
  BY <1>1, <1>2, <1>3, <1>4 DEF ConsoleInv, PanelSound
<1>8. QED
  BY <1>5, <1>6, <1>7 DEF ConsoleInv

LEMMA LeavingKeeps == ConsoleInv /\ (EventsBreak \/ Reopen) => ConsoleInv'
<1> SUFFICES ASSUME ConsoleInv, EventsBreak \/ Reopen PROVE ConsoleInv'
  OBVIOUS
<1>1. /\ UNCHANGED <<server, response, modelAt, sent, panelAt>>
      /\ panel \in [streaming : BOOLEAN, cited : BOOLEAN, answer : Seq(Word), failed : BOOLEAN]
  BY DEF EventsBreak, Reopen, ConsoleInv, ConsoleTypeOK
<1>2. /\ panel' \in [streaming : BOOLEAN, cited : BOOLEAN, answer : Seq(Word), failed : BOOLEAN]
      /\ ~panel'.streaming
  <2>1. CASE EventsBreak
    BY <1>1, <2>1 DEF EventsBreak
  <2>2. CASE Reopen
    <3>1. <<>> \in Seq(Word)
      BY EmptySeq
    <3>2. QED
      BY <2>2, <3>1 DEF Reopen, Blank
  <2>3. QED
    BY <2>1, <2>2
<1>3. ConsoleTypeOK'
  BY <1>1, <1>2 DEF ConsoleInv, ConsoleTypeOK, Stands
<1>4. ServerSound'
  BY <1>1, <1>2 DEF ConsoleInv, ServerSound, Heard, Spoken, Words, LinesRead
<1>5. PanelSound'
  <2>1. CASE EventsBreak
    <3>1. /\ panel'.failed /\ panel'.answer = panel.answer /\ panel'.cited = panel.cited /\ panel # Blank
      BY <1>1, <2>1 DEF EventsBreak, Blank
    <3>2. QED
      BY <1>1, <3>1 DEF ConsoleInv, PanelSound
  <2>2. CASE Reopen
    BY <2>2 DEF Reopen, PanelSound, Blank
  <2>3. QED
    BY <2>1, <2>2
<1>6. QED
  BY <1>3, <1>4, <1>5 DEF ConsoleInv

LEMMA ConsoleKeeps == ConsoleInv /\ [ConsoleNext]_consoleVars => ConsoleInv'
<1> SUFFICES ASSUME ConsoleInv, [ConsoleNext]_consoleVars PROVE ConsoleInv'
  OBVIOUS
<1>1. ASSUME RetrieveThrows \/ ModelEnds \/ ModelFails \/ Timeout PROVE ConsoleInv'
  BY <1>1, ClosingKeeps DEF RetrieveThrows, ModelEnds, ModelFails, Timeout
<1>2. ASSUME UNCHANGED consoleVars PROVE ConsoleInv'
  BY <1>2 DEF consoleVars, ConsoleInv, ConsoleTypeOK, Stands, ServerSound, PanelSound, Heard, Spoken, Words,
              LinesRead
<1>3. QED
  BY <1>1, <1>2, AskQuestionKeeps, TurnAwayKeeps, RetrieveKeeps, FetchKeeps, ReadModelKeeps, ReadEventsKeeps,
     EndOfEventsKeeps, LeavingKeeps DEF ConsoleNext

\* What is on screen began what was said, and all of it was read where it ended well.
LEMMA ConsoleAnswers == ConsoleInv => AnswersFaithful
<1> SUFFICES ASSUME ConsoleInv PROVE AnswersFaithful
  OBVIOUS
<1> DEFINE m == LinesRead(modelAt)
           p == LinesRead(panelAt)
           whole == Words(response, Len(response))
           words == Picked(response, Words(response, m))
           rest == Picked(response, whole \ (1..m))
<1>1. /\ response \in Seq(WireLine) /\ Stands(modelAt, response)
      /\ sent \in Seq(WireEvent) /\ Stands(panelAt, sent)
      /\ Heard(sent, Len(sent)) = words
  BY DEF ConsoleInv, ConsoleTypeOK, ServerSound
<1>2. /\ m \in Nat /\ m <= Len(response) /\ Len(response) \in Nat
      /\ modelAt.read >= 2 * Len(response) => m = Len(response)
  BY <1>1, StandsInLines
<1>3. p \in Nat /\ p <= Len(sent) /\ Len(sent) \in Nat
  BY <1>1, StandsInLines
<1> HIDE DEF m, p
<1>4. Said = words \o rest /\ words \in Seq(Word) /\ rest \in Seq(Word)
  <2>1. Len(response) <= Len(response)
    BY <1>2
  <2>2. QED
    BY <1>1, <1>2, <2>1, WordsMore DEF Said
<1>5. /\ Heard(sent, p) \in Seq(Word) /\ Picked(sent, Spoken(sent, Len(sent)) \ (1..p)) \in Seq(Word)
      /\ words = Heard(sent, p) \o Picked(sent, Spoken(sent, Len(sent)) \ (1..p))
  <2>1. Len(sent) <= Len(sent)
    BY <1>3
  <2>2. QED
    BY <1>1, <1>3, <2>1, HeardMore
<1> DEFINE heard == Heard(sent, p)
           ahead == Picked(sent, Spoken(sent, Len(sent)) \ (1..p))
<1> HIDE DEF words, rest, heard, ahead, whole
<1>6. heard \in Seq(Word) /\ ahead \in Seq(Word) /\ words = heard \o ahead
  BY <1>5 DEF heard, ahead
<1>7. Said = heard \o (ahead \o rest) /\ ahead \o rest \in Seq(Word) /\ Said \in Seq(Word)
  BY <1>4, <1>6, ConcatAssociative, ConcatProperties
<1>8. IsPrefix(panel.answer, Said)
  <2>1. CASE panel = Blank
    <3>1. panel.answer = <<>> /\ <<>> \in Seq(Word) /\ Said = <<>> \o Said
      BY <1>7, <2>1, EmptySeq, ConcatEmptySeq DEF Blank
    <3>2. IsPrefix(<<>>, <<>> \o Said)
      BY <1>7, <3>1, BeginningIsPrefix
    <3>3. QED
      BY <3>1, <3>2
  <2>2. CASE panel # Blank
    <3>1. panel.answer = heard
      BY <2>2 DEF ConsoleInv, PanelSound, heard, p
    <3>2. QED
      BY <1>6, <1>7, <3>1, BeginningIsPrefix
  <2>3. QED
    BY <2>1, <2>2
<1>9. panel.answer # <<>> => panel.cited
  <2> SUFFICES ASSUME panel.answer # <<>> PROVE panel.cited
    OBVIOUS
  <2>1. panel # Blank
    BY DEF Blank
  <2>2. Heard(sent, p) # <<>>
    BY <2>1 DEF ConsoleInv, PanelSound, p
  <2>3. Spoken(sent, p) # {}
    BY <2>2, NothingRead DEF Heard
  <2>4. PICK k \in Spoken(sent, p) : TRUE
    BY <2>3
  <2>5. k \in Spoken(sent, Len(sent)) /\ 1 \in 1..p
    BY <1>3 DEF Spoken
  <2>6. sent[1] = "citations"
    BY <2>5 DEF ConsoleInv, ServerSound
  <2>7. QED
    BY <2>1, <2>5, <2>6 DEF ConsoleInv, PanelSound, p
<1>10. FinishedMeansWhole
  <2> SUFFICES ASSUME panel # Blank, ~panel.streaming, ~panel.failed
               PROVE  server = "closed" /\ (panel.answer = Said \/ CutShort)
    BY DEF FinishedMeansWhole
  <2>1. server = "closed" /\ p = Len(sent) /\ panel.answer = words
    BY <1>1 DEF ConsoleInv, PanelSound, p
  <2>2. CASE m = Len(response)
    BY <2>1, <2>2 DEF Said, words
  <2>3. CASE \E k \in 1..m : response[k] = Done
    <3>1. Words(response, m) = Words(response, Len(response))
      <4>1. PICK k \in 1..m : response[k] = Done
        BY <2>3
      <4>2. \A j \in Words(response, Len(response)) : j \in 1..m
        <5> SUFFICES ASSUME NEW j \in Words(response, Len(response)) PROVE j \in 1..m
          OBVIOUS
        <5>1. j \in 1..Len(response) /\ k \notin 1..j
          BY <4>1 DEF Words
        <5>2. QED
          BY <1>2, <5>1
      <4>3. \A j \in 1..m : j \in 1..Len(response)
        BY <1>2
      <4>4. QED
        BY <4>2, <4>3 DEF Words
    <3>2. QED
      BY <2>1, <3>1 DEF Said, words
  <2>4. CASE m # Len(response) /\ \A k \in 1..m : response[k] # Done
    <3>1. modelAt.read < 2 * Len(response)
      <4>1. modelAt.read \in Nat
        BY <1>1, <1>2 DEF Stands
      <4>2. QED
        BY <1>2, <2>4, <4>1
    <3>2. QED
      BY <2>1, <2>4, <3>1 DEF CutShort, m, LinesRead
  <2>5. QED
    BY <2>2, <2>3, <2>4
<1>11. QED
  BY <1>8, <1>9, <1>10 DEF AnswersFaithful, AnswerIsWhatWasSaid

\* However both wires cut what they carry, whatever the model says and wherever a
\* party gives up: the answer on screen is a beginning of what was said to the
\* question on screen, under its evidence, and one that stands there as finished
\* is all of it unless the model's response itself was cut short.
THEOREM AnswersStayFaithful == ConsoleSpec => []AnswersFaithful
<1>1. ConsoleSpec => []ConsoleInv
  BY ConsoleStarts, ConsoleKeeps, PTL DEF ConsoleSpec
<1>2. QED
  BY <1>1, ConsoleAnswers, PTL
==============================================================================
