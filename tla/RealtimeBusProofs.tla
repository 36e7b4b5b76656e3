-------------------------- MODULE RealtimeBusProofs --------------------------
(***************************************************************************)
(* The bus keeps its promises for any number of streams, channels and      *)
(* connection identities, whatever subscribes, fails, leaves or is torn    *)
(* down while a subscription is awaited; and so does the cache, for any    *)
(* callers and keys, in Redis or in memory, whatever expires or fails.     *)
(***************************************************************************)
EXTENDS RealtimeBus, Cache, SequenceTheorems, TLAPS

\* A stream whose SUBSCRIBE is out waits for a connection of the channel it
\* stands at, alone, and that connection has not been answered yet.
Awaits(s) == stage[s] = "await"
AwaitedOK(s) ==
  Awaits(s) =>
    /\ waits[s] \in Connections /\ at[s] \in Channels /\ waits[s][1] = at[s]
    /\ state[waits[s]] \in {"subscribing", "closing"}
    /\ cleanup[s] = "no"

\* cleanup runs on an open stream, once closed is set; a stream that waits for
\* an UNSUBSCRIBE waits for a closing connection.
Closes(s) == cleanup[s] = "running" /\ waits[s] # None
ClosedOK(s) ==
  /\ cleanup[s] # "no" => stage[s] = "open" /\ s \in closed
  /\ Closes(s) => waits[s] \in Connections /\ state[waits[s]] = "closing"
  /\ cleanup[s] = "done" => held[s] = {}
  /\ ~Awaits(s) /\ cleanup[s] # "running" => waits[s] = None

WaitsOK ==
  /\ \A s \in Streams : AwaitedOK(s) /\ ClosedOK(s)
  /\ \A s, u \in Streams : s # u /\ waits[s] = waits[u] =>
       ~(Awaits(s) /\ Awaits(u)) /\ ~(Closes(s) /\ Closes(u))

\* Whose handler is on a listed connection holds the unsubscriber, and a free
\* connection has no handlers.
HandlersOK ==
  /\ \A ch \in Channels : entry[ch] # None =>
       \A s \in handlers[entry[ch]] : ch \in held[s]
  /\ \A k \in Connections : state[k] = "free" => handlers[k] = {}

\* Who holds an unsubscriber is on the channel's listed connection.
SubscribersListed ==
  \A s \in Streams : \A ch \in held[s] :
    (entry[ch] # None /\ s \in handlers[entry[ch]]) \/ <<s, ch>> \in orphans

BusInv ==
  TypeOK /\ ConnectionsListed /\ WaitsOK /\ HandlersOK /\ ListedAreUsed /\ SubscribersListed
-----------------------------------------------------------------------------
LEMMA InitHolds == Init => BusInv
<1> SUFFICES ASSUME Init PROVE BusInv
  OBVIOUS
<1> USE BusAssumption DEF Init
<1>1. 1 \in 1..(LastChannel + 1)
  OBVIOUS
<1>2. TypeOK
  BY <1>1 DEF TypeOK, States, Stages
<1>3. ConnectionsListed /\ WaitsOK
  BY DEF ConnectionsListed, WaitsOK, AwaitedOK, ClosedOK, Awaits, Closes, Connections
<1>4. HandlersOK /\ ListedAreUsed /\ SubscribersListed
  BY DEF HandlersOK, ListedAreUsed, SubscribersListed
<1>5. QED
  BY <1>2, <1>3, <1>4 DEF BusInv

\* A step of a stream that touches neither the bus nor what it waits for.
LEMMA AsideKeeps ==
  ASSUME BusInv, TypeOK', UNCHANGED <<entry, state, handlers, waits, held, at>>,
         orphans' = orphans, closed \subseteq closed',
         NEW s \in Streams,
         \A u \in Streams \ {s} : stage'[u] = stage[u] /\ cleanup'[u] = cleanup[u],
         stage[s] # "await", stage'[s] # "await",
         cleanup'[s] # "no" => stage'[s] = "open" /\ s \in closed',
         \/ cleanup'[s] = cleanup[s]
         \/ cleanup'[s] = "running" /\ stage'[s] = "open" /\ cleanup[s] = "no" /\ waits[s] = None
         \/ cleanup'[s] = "done" /\ stage'[s] = "open" /\ held[s] = {} /\ waits[s] = None
  PROVE  BusInv'
<1>1. ConnectionsListed' /\ HandlersOK' /\ SubscribersListed'
  BY DEF BusInv, ConnectionsListed, HandlersOK, SubscribersListed
<1>2. ListedAreUsed'
  BY DEF BusInv, ListedAreUsed
<1>3. WaitsOK'
  <2>1. \A u \in Streams : Awaits(u)' = Awaits(u)
    BY DEF Awaits
  <2>2. \A u \in Streams : Closes(u)' => Closes(u)
    BY DEF Closes
  <2>3. \A u \in Streams : AwaitedOK(u)'
    BY <2>1 DEF BusInv, WaitsOK, AwaitedOK, Awaits
  <2>4. ASSUME NEW u \in Streams PROVE ClosedOK(u)'
    <3>1. ClosedOK(u)
      BY DEF BusInv, WaitsOK
    <3>2. CASE u = s
      BY <2>1, <2>2, <3>1, <3>2 DEF ClosedOK, Awaits, Closes
    <3>3. CASE u # s
      BY <2>1, <2>2, <3>1, <3>3 DEF ClosedOK, Awaits, Closes
    <3>4. QED
      BY <3>2, <3>3
  <2>5. QED
    BY <2>1, <2>2, <2>3, <2>4 DEF BusInv, WaitsOK
<1>4. QED
  BY <1>1, <1>2, <1>3 DEF BusInv

\* The connection that Join finds is listed, and Connect's is nobody's.
LEMMA Listed ==
  ASSUME BusInv, NEW ch \in Channels, entry[ch] # None
  PROVE  /\ entry[ch] \in Connections /\ entry[ch][1] = ch
         /\ state[entry[ch]] \in {"subscribing", "subscribed", "broken"}
BY DEF BusInv, TypeOK, ConnectionsListed, States

LEMMA JoinKeeps ==
  ASSUME BusInv, NEW s \in Streams, Join(s)
  PROVE  BusInv'
<1> DEFINE ch == at[s]
           k == entry[ch]
<1>1. /\ stage[s] = "next" /\ ch \in Channels /\ k # None
      /\ handlers' = [handlers EXCEPT ![k] = @ \cup {s}]
      /\ held' = [held EXCEPT ![s] = @ \cup {ch}]
      /\ at' = [at EXCEPT ![s] = @ + 1]
      /\ starved' \subseteq starved \cup {<<s, ch>>}
      /\ UNCHANGED <<entry, state, stage, waits, gone, aborted, closed, cleanup, orphans, deaf>>
  BY DEF Join
<1>2. k \in Connections /\ k[1] = ch /\ state[k] # "free"
  BY <1>1, Listed
<1>3. /\ handlers \in [Connections -> SUBSET Streams] /\ held \in [Streams -> SUBSET Channels]
      /\ at \in [Streams -> 1..(LastChannel + 1)] /\ LastChannel \in Nat
  BY BusAssumption DEF BusInv, TypeOK
<1>4. TypeOK'
  <2>1. ch + 1 \in 1..(LastChannel + 1)
    BY <1>1, <1>3 DEF Channels
  <2>2. /\ handlers' \in [Connections -> SUBSET Streams] /\ held' \in [Streams -> SUBSET Channels]
        /\ at' \in [Streams -> 1..(LastChannel + 1)]
    BY <1>1, <1>2, <1>3, <2>1
  <2>3. QED
    BY <1>1, <2>2 DEF BusInv, TypeOK
<1>5. ConnectionsListed'
  BY <1>1 DEF BusInv, ConnectionsListed
<1>6. WaitsOK'
  BY <1>1, <1>3 DEF BusInv, WaitsOK, AwaitedOK, ClosedOK, Awaits, Closes
<1>7. HandlersOK'
  <2>1. \A c \in Channels : entry[c] # None => entry[c] \in Connections /\ (entry[c] = k => c = ch)
    BY <1>2, Listed
  <2>2. QED
    BY <1>1, <1>2, <1>3, <2>1 DEF BusInv, HandlersOK
<1>8. ListedAreUsed'
  BY <1>1, <1>2, <1>3, Listed DEF BusInv, ListedAreUsed
<1>9. SubscribersListed'
  BY <1>1, <1>2, <1>3, Listed DEF BusInv, SubscribersListed
<1>10. QED
  BY <1>4, <1>5, <1>6, <1>7, <1>8, <1>9 DEF BusInv

LEMMA ConnectKeeps ==
  ASSUME BusInv, NEW s \in Streams, Connect(s)
  PROVE  BusInv'
<1> DEFINE ch == at[s]
<1>1. PICK k \in Connections :
        /\ k[1] = ch /\ state[k] = "free"
        /\ entry' = [entry EXCEPT ![ch] = k]
        /\ state' = [state EXCEPT ![k] = "subscribing"]
        /\ waits' = [waits EXCEPT ![s] = k]
  BY DEF Connect
<1>2. /\ stage[s] = "next" /\ ch \in Channels /\ entry[ch] = None
      /\ stage' = [stage EXCEPT ![s] = "await"]
      /\ UNCHANGED <<handlers, at, held, gone, aborted, closed, cleanup, orphans, starved, deaf>>
  BY DEF Connect, ghosts
<1>3. /\ entry \in [Channels -> Connections \cup {None}] /\ state \in [Connections -> States]
      /\ stage \in [Streams -> Stages] /\ waits \in [Streams -> Connections \cup {None}]
      /\ k # None
  BY BusAssumption DEF BusInv, TypeOK
<1>4. TypeOK'
  <2>1. /\ entry' \in [Channels -> Connections \cup {None}] /\ state' \in [Connections -> States]
        /\ stage' \in [Streams -> Stages] /\ waits' \in [Streams -> Connections \cup {None}]
    BY <1>1, <1>2, <1>3 DEF States, Stages
  <2>2. \A c \in Channels : entry'[c] # None => entry'[c][1] = c
    BY <1>1, <1>2, <1>3 DEF BusInv, TypeOK
  <2>3. QED
    BY <1>2, <2>1, <2>2 DEF BusInv, TypeOK
<1>5. ConnectionsListed'
  <2>1. ASSUME NEW j \in Connections
        PROVE  state'[j] \notin {"free", "closing"} <=> entry'[j[1]] = j
    <3>1. j[1] \in Channels
      BY DEF Connections
    <3>2. state[j] \notin {"free", "closing"} <=> entry[j[1]] = j
      BY DEF BusInv, ConnectionsListed
    <3>3. CASE j = k
      BY <1>1, <1>2, <1>3, <3>1, <3>3
    <3>4. CASE j # k
      <4>1. state'[j] = state[j]
        BY <1>1, <1>3, <3>4
      <4>2. CASE j[1] = ch
        <5>1. entry'[ch] = k /\ entry[ch] # j
          BY <1>1, <1>2, <1>3, BusAssumption
        <5>2. QED
          BY <3>2, <3>4, <4>1, <4>2, <5>1
      <4>3. CASE j[1] # ch
        <5>1. entry'[j[1]] = entry[j[1]]
          BY <1>1, <1>3, <3>1, <4>3
        <5>2. QED
          BY <3>2, <4>1, <5>1
      <4>4. QED
        BY <4>2, <4>3
    <3>5. QED
      BY <3>3, <3>4
  <2>2. QED
    BY <2>1 DEF ConnectionsListed
<1>6. WaitsOK'
  <2>1. cleanup[s] = "no" /\ ~Awaits(s) /\ waits[s] = None
    BY <1>2, <1>3 DEF BusInv, TypeOK, WaitsOK, ClosedOK, Awaits
  <2>2. \A u \in Streams \ {s} : (Awaits(u) \/ Closes(u)) => waits[u] # k
    BY <1>1 DEF BusInv, WaitsOK, AwaitedOK, ClosedOK
  <2>3. ASSUME NEW u \in Streams PROVE AwaitedOK(u)' /\ ClosedOK(u)'
    <3>1. AwaitedOK(u) /\ ClosedOK(u)
      BY DEF BusInv, WaitsOK
    <3>2. CASE u = s
      BY <1>1, <1>2, <1>3, <2>1, <3>2 DEF AwaitedOK, ClosedOK, Awaits, Closes
    <3>3. CASE u # s
      BY <1>1, <1>2, <1>3, <2>2, <3>1, <3>3 DEF AwaitedOK, ClosedOK, Awaits, Closes
    <3>4. QED
      BY <3>2, <3>3
  <2>4. QED
    BY <1>1, <1>2, <1>3, <2>1, <2>2, <2>3 DEF BusInv, WaitsOK, Awaits, Closes
<1>7. HandlersOK'
  BY <1>1, <1>2, <1>3 DEF BusInv, HandlersOK
<1>8. ListedAreUsed'
  <2>1. stage'[s] = "await" /\ waits'[s] = k /\ entry'[ch] = k
    BY <1>1, <1>2, <1>3
  <2>2. ASSUME NEW c \in Channels, c # ch, entry[c] # None
        PROVE  /\ entry'[c] = entry[c] /\ state'[entry[c]] = state[entry[c]]
               /\ \A u \in Streams : stage[u] = "await" /\ waits[u] = entry[c] =>
                    stage'[u] = "await" /\ waits'[u] = entry[c]
    BY <1>1, <1>2, <1>3, <2>2, Listed
  <2>3. ASSUME NEW c \in Channels, entry'[c] # None
        PROVE  \/ handlers'[entry'[c]] # {}
               \/ state'[entry'[c]] = "broken"
               \/ \E u \in Streams : stage'[u] = "await" /\ waits'[u] = entry'[c]
    <3>1. CASE c = ch
      BY <2>1, <3>1
    <3>2. CASE c # ch
      <4>1. entry[c] # None /\ entry'[c] = entry[c] /\ handlers' = handlers
        BY <1>1, <1>2, <1>3, <2>3, <3>2
      <4>2. QED
        BY <2>2, <3>2, <4>1 DEF BusInv, ListedAreUsed
    <3>3. QED
      BY <3>1, <3>2
  <2>4. QED
    BY <2>3 DEF ListedAreUsed
<1>9. SubscribersListed'
  <2>1. ASSUME NEW u \in Streams, NEW c \in held[u]
        PROVE  (entry'[c] # None /\ u \in handlers[entry'[c]]) \/ <<u, c>> \in orphans
    <3>1. (entry[c] # None /\ u \in handlers[entry[c]]) \/ <<u, c>> \in orphans
      BY DEF BusInv, SubscribersListed
    <3>2. CASE c = ch
      BY <1>2, <3>1, <3>2
    <3>3. CASE c # ch
      <4>1. c \in Channels
        BY DEF BusInv, TypeOK
      <4>2. entry'[c] = entry[c]
        BY <1>1, <1>3, <3>3, <4>1
      <4>3. QED
        BY <3>1, <4>2
    <3>4. QED
      BY <3>2, <3>3
  <2>2. QED
    BY <1>2, <2>1 DEF SubscribersListed
<1>10. QED
  BY <1>4, <1>5, <1>6, <1>7, <1>8, <1>9 DEF BusInv

\* Both answers to SUBSCRIBE make s the only one that no longer waits for k.
LEMMA AnswerEffect ==
  ASSUME BusInv, NEW s \in Streams, Subscribed(s) \/ SubscribeFails(s)
  PROVE  /\ Awaits(s) /\ waits[s] \in Connections /\ at[s] \in Channels /\ waits[s][1] = at[s]
         /\ state[waits[s]] \in {"subscribing", "closing"} /\ cleanup[s] = "no"
         /\ stage' = [stage EXCEPT ![s] = "next"]
         /\ at' = [at EXCEPT ![s] = @ + 1]
         /\ waits' = [waits EXCEPT ![s] = None]
         /\ UNCHANGED <<entry, gone, aborted, closed, cleanup, deaf>>
<1>1. Awaits(s)
  BY DEF Subscribed, SubscribeFails, Awaits
<1>2. AwaitedOK(s)
  BY DEF BusInv, WaitsOK
<1>3. QED
  BY <1>1, <1>2 DEF AwaitedOK, Subscribed, SubscribeFails, GoOn

LEMMA AnswerKeepsWaits ==
  ASSUME BusInv, NEW s \in Streams, Subscribed(s) \/ SubscribeFails(s),
         NEW v \in States \ {"free"}, state[waits[s]] = "closing" => v = "closing",
         state' = [state EXCEPT ![waits[s]] = v],
         \A u \in Streams : cleanup[u] = "done" => held'[u] = held[u]
  PROVE  WaitsOK'
<1>1. /\ stage \in [Streams -> Stages] /\ waits \in [Streams -> Connections \cup {None}]
      /\ state \in [Connections -> States] /\ at \in [Streams -> 1..(LastChannel + 1)]
  BY DEF BusInv, TypeOK
<1>2. ASSUME NEW u \in Streams, u # s
      PROVE  AwaitedOK(u)' /\ ClosedOK(u)' /\ (Awaits(u)' = Awaits(u)) /\ (Closes(u)' = Closes(u))
  <2>1. AwaitedOK(u) /\ ClosedOK(u)
    BY DEF BusInv, WaitsOK
  <2>2. Awaits(u) => waits[u] # waits[s]
    BY <1>2, AnswerEffect DEF BusInv, WaitsOK
  <2>3. waits'[u] = waits[u] /\ stage'[u] = stage[u] /\ cleanup'[u] = cleanup[u] /\ at'[u] = at[u]
        /\ closed' = closed
    BY <1>1, <1>2, AnswerEffect
  <2>4. AwaitedOK(u)'
    BY <1>1, <2>1, <2>2, <2>3 DEF AwaitedOK, Awaits
  <2>5. ClosedOK(u)'
    BY <1>1, <2>1, <2>3 DEF ClosedOK, Awaits, Closes
  <2>6. QED
    BY <2>3, <2>4, <2>5 DEF Awaits, Closes
<1>3. waits'[s] = None /\ stage'[s] = "next" /\ cleanup'[s] = "no"
  BY <1>1, AnswerEffect
<1>4. AwaitedOK(s)' /\ ClosedOK(s)' /\ ~Awaits(s)' /\ ~Closes(s)'
  BY <1>3 DEF AwaitedOK, ClosedOK, Awaits, Closes
<1>5. ASSUME NEW u \in Streams, NEW w \in Streams, u # w, waits'[u] = waits'[w]
      PROVE  ~(Awaits(u) /\ Awaits(w))' /\ ~(Closes(u) /\ Closes(w))'
  <2>1. CASE u = s \/ w = s
    BY <1>4, <2>1
  <2>2. CASE u # s /\ w # s
    <3>1. waits[u] = waits[w]
      BY <1>1, <1>5, <2>2, AnswerEffect
    <3>2. QED
      BY <1>2, <1>5, <2>2, <3>1 DEF BusInv, WaitsOK
  <2>3. QED
    BY <2>1, <2>2
<1>6. QED
  BY <1>2, <1>4, <1>5 DEF WaitsOK

LEMMA SubscribedKeeps ==
  ASSUME BusInv, NEW s \in Streams, Subscribed(s)
  PROVE  BusInv'
<1> DEFINE k == waits[s]
           ch == at[s]
<1>1. /\ k \in Connections /\ ch \in Channels /\ k[1] = ch
      /\ state[k] \in {"subscribing", "closing"} /\ Awaits(s) /\ cleanup[s] = "no"
      /\ stage' = [stage EXCEPT ![s] = "next"]
      /\ at' = [at EXCEPT ![s] = @ + 1]
      /\ waits' = [waits EXCEPT ![s] = None]
      /\ UNCHANGED <<entry, gone, aborted, closed, cleanup, deaf>>
  BY AnswerEffect
<1>2. /\ handlers' = [handlers EXCEPT ![k] = @ \cup {s}]
      /\ held' = [held EXCEPT ![s] = @ \cup {ch}]
      /\ starved' = starved
  BY DEF Subscribed
<1>3. /\ state \in [Connections -> States] /\ handlers \in [Connections -> SUBSET Streams]
      /\ entry \in [Channels -> Connections \cup {None}] /\ stage \in [Streams -> Stages]
      /\ at \in [Streams -> 1..(LastChannel + 1)] /\ held \in [Streams -> SUBSET Channels]
      /\ waits \in [Streams -> Connections \cup {None}] /\ LastChannel \in Nat
      /\ None \notin Connections /\ orphans \subseteq Streams \X Channels
  BY BusAssumption DEF BusInv, TypeOK
<1>4. PICK v \in {"closing", "subscribed"} :
        /\ state' = [state EXCEPT ![k] = v]
        /\ v = "closing" => state[k] = "closing" /\ orphans' = orphans \cup {<<s, ch>>}
        /\ v = "subscribed" => state[k] = "subscribing" /\ orphans' = orphans
  <2>1. CASE state[k] = "closing"
    <3>1. state' = state /\ orphans' = orphans \cup {<<s, ch>>}
      BY <2>1 DEF Subscribed
    <3>2. state' = [state EXCEPT ![k] = "closing"]
      BY <1>1, <1>3, <2>1, <3>1
    <3>3. QED
      BY <2>1, <3>1, <3>2
  <2>2. CASE state[k] # "closing"
    BY <1>1, <2>2 DEF Subscribed
  <2>3. QED
    BY <2>1, <2>2
<1>5. /\ state[k] = "closing" => entry[ch] # k
      /\ state[k] = "subscribing" => entry[ch] = k
  BY <1>1 DEF BusInv, ConnectionsListed
<1>6. TypeOK'
  <2>1. ch + 1 \in 1..(LastChannel + 1)
    BY <1>1, <1>3 DEF Channels
  <2>2. state' \in [Connections -> States] /\ stage' \in [Streams -> Stages]
    BY <1>1, <1>3, <1>4 DEF States, Stages
  <2>3. at' \in [Streams -> 1..(LastChannel + 1)] /\ waits' \in [Streams -> Connections \cup {None}]
    BY <1>1, <1>3, <2>1
  <2>4. handlers' \in [Connections -> SUBSET Streams] /\ held' \in [Streams -> SUBSET Channels]
    BY <1>1, <1>2, <1>3
  <2>5. orphans' \subseteq Streams \X Channels
    BY <1>1, <1>3, <1>4
  <2>6. QED
    BY <1>1, <1>2, <2>2, <2>3, <2>4, <2>5 DEF BusInv, TypeOK
<1>7. ConnectionsListed'
  <2>1. ASSUME NEW j \in Connections
        PROVE  state'[j] \in {"free", "closing"} <=> state[j] \in {"free", "closing"}
    BY <1>3, <1>4
  <2>2. QED
    BY <1>1, <2>1 DEF BusInv, ConnectionsListed
<1>8. WaitsOK'
  <2>1. \A u \in Streams : cleanup[u] = "done" => held'[u] = held[u]
    BY <1>1, <1>2, <1>3
  <2>2. v \in States \ {"free"} /\ (state[k] = "closing" => v = "closing")
    BY <1>4 DEF States
  <2>3. QED
    BY <1>4, <2>1, <2>2, AnswerKeepsWaits
<1>9. \A u \in Streams : held[u] \subseteq held'[u]
  BY <1>2, <1>3
<1>10. \A j \in Connections : handlers[j] \subseteq handlers'[j]
  BY <1>2, <1>3
<1>11. s \in handlers'[k] /\ ch \in held'[s]
  BY <1>1, <1>2, <1>3
<1>12. HandlersOK'
  <2>1. ASSUME NEW c \in Channels, entry[c] # None, NEW u \in handlers'[entry[c]]
        PROVE  c \in held'[u]
    <3>1. entry[c] \in Connections /\ entry[c][1] = c
      BY <2>1, Listed
    <3>2. u \in Streams /\ (u \in handlers[entry[c]] \/ (u = s /\ entry[c] = k))
      BY <1>2, <1>3, <2>1, <3>1
    <3>3. CASE u \in handlers[entry[c]]
      BY <1>9, <2>1, <3>2, <3>3 DEF BusInv, HandlersOK
    <3>4. CASE u = s /\ entry[c] = k
      BY <1>1, <1>11, <3>1, <3>4
    <3>5. QED
      BY <3>2, <3>3, <3>4
  <2>2. ASSUME NEW j \in Connections, state'[j] = "free" PROVE handlers'[j] = {}
    <3>1. j # k /\ state[j] = "free"
      BY <1>1, <1>3, <1>4, <2>2
    <3>2. QED
      BY <1>2, <1>3, <3>1 DEF BusInv, HandlersOK
  <2>3. QED
    BY <1>1, <2>1, <2>2 DEF HandlersOK
<1>13. ListedAreUsed'
  <2>1. ASSUME NEW c \in Channels, entry[c] # None
        PROVE  \/ handlers'[entry[c]] # {}
               \/ state'[entry[c]] = "broken"
               \/ \E u \in Streams : stage'[u] = "await" /\ waits'[u] = entry[c]
    <3>1. entry[c] \in Connections
      BY <2>1, Listed
    <3>2. CASE entry[c] = k
      BY <1>11, <3>2
    <3>3. CASE entry[c] # k
      <4>1. state'[entry[c]] = state[entry[c]]
        BY <1>3, <1>4, <3>1, <3>3
      <4>2. \A u \in Streams : stage[u] = "await" /\ waits[u] = entry[c] =>
              stage'[u] = "await" /\ waits'[u] = entry[c]
        BY <1>1, <1>3, <3>3
      <4>3. QED
        BY <1>10, <2>1, <3>1, <4>1, <4>2 DEF BusInv, ListedAreUsed
    <3>4. QED
      BY <3>2, <3>3
  <2>2. QED
    BY <1>1, <2>1 DEF ListedAreUsed
<1>14. SubscribersListed'
  <2>1. ASSUME NEW u \in Streams, NEW c \in held'[u]
        PROVE  (entry[c] # None /\ u \in handlers'[entry[c]]) \/ <<u, c>> \in orphans'
    <3>1. c \in held[u] \/ (u = s /\ c = ch)
      BY <1>2, <1>3
    <3>2. CASE c \in held[u]
      <4>1. (entry[c] # None /\ u \in handlers[entry[c]]) \/ <<u, c>> \in orphans
        BY <3>2 DEF BusInv, SubscribersListed
      <4>2. c \in Channels /\ (entry[c] # None => entry[c] \in Connections)
        BY <1>3, <3>2
      <4>3. QED
        BY <1>4, <1>10, <4>1, <4>2
    <3>3. CASE u = s /\ c = ch
      BY <1>1, <1>3, <1>4, <1>5, <1>11, <3>3
    <3>4. QED
      BY <3>1, <3>2, <3>3
  <2>2. QED
    BY <1>1, <2>1 DEF SubscribersListed
<1>15. QED
  BY <1>6, <1>7, <1>8, <1>12, <1>13, <1>14 DEF BusInv

LEMMA SubscribeFailsKeeps ==
  ASSUME BusInv, NEW s \in Streams, SubscribeFails(s)
  PROVE  BusInv'
<1> DEFINE k == waits[s]
           ch == at[s]
<1>1. /\ k \in Connections /\ ch \in Channels /\ k[1] = ch
      /\ state[k] \in {"subscribing", "closing"} /\ Awaits(s)
      /\ stage' = [stage EXCEPT ![s] = "next"]
      /\ at' = [at EXCEPT ![s] = @ + 1]
      /\ waits' = [waits EXCEPT ![s] = None]
      /\ UNCHANGED <<entry, gone, aborted, closed, cleanup, deaf>>
  BY AnswerEffect
<1>2. UNCHANGED <<handlers, held, orphans>>
  BY DEF SubscribeFails
<1>3. /\ state \in [Connections -> States] /\ entry \in [Channels -> Connections \cup {None}]
      /\ stage \in [Streams -> Stages] /\ at \in [Streams -> 1..(LastChannel + 1)]
      /\ waits \in [Streams -> Connections \cup {None}] /\ LastChannel \in Nat
  BY BusAssumption DEF BusInv, TypeOK
<1>4. PICK v \in {"closing", "broken"} :
        state' = [state EXCEPT ![k] = v] /\ (v = "closing" <=> state[k] = "closing")
  <2>1. CASE state[k] = "closing"
    <3>1. state' = [state EXCEPT ![k] = "closing"]
      BY <1>1, <1>3, <2>1 DEF SubscribeFails
    <3>2. QED
      BY <2>1, <3>1
  <2>2. CASE state[k] # "closing"
    BY <2>2 DEF SubscribeFails
  <2>3. QED
    BY <2>1, <2>2
<1>5. TypeOK'
  <2>1. ch + 1 \in 1..(LastChannel + 1)
    BY <1>1, <1>3 DEF Channels
  <2>2. state' \in [Connections -> States] /\ stage' \in [Streams -> Stages]
    BY <1>1, <1>3, <1>4 DEF States, Stages
  <2>3. at' \in [Streams -> 1..(LastChannel + 1)] /\ waits' \in [Streams -> Connections \cup {None}]
    BY <1>1, <1>3, <2>1
  <2>4. starved' \subseteq Streams \X Channels
    <3>1. starved' \subseteq starved \cup {<<u, ch>> : u \in handlers[k]}
      BY DEF SubscribeFails
    <3>2. handlers[k] \subseteq Streams /\ starved \subseteq Streams \X Channels
      BY <1>1 DEF BusInv, TypeOK
    <3>3. QED
      BY <1>1, <3>1, <3>2
  <2>5. QED
    BY <1>1, <1>2, <2>2, <2>3, <2>4 DEF BusInv, TypeOK
<1>6. ConnectionsListed'
  <2>1. ASSUME NEW j \in Connections
        PROVE  state'[j] \in {"free", "closing"} <=> state[j] \in {"free", "closing"}
    BY <1>1, <1>3, <1>4
  <2>2. QED
    BY <1>1, <2>1 DEF BusInv, ConnectionsListed
<1>7. WaitsOK'
  <2>1. v \in States \ {"free"} /\ (state[k] = "closing" => v = "closing")
    BY <1>4 DEF States
  <2>2. QED
    BY <1>2, <1>4, <2>1, AnswerKeepsWaits
<1>8. HandlersOK'
  <2>1. \A j \in Connections : state'[j] = "free" => state[j] = "free"
    BY <1>3, <1>4
  <2>2. QED
    BY <1>1, <1>2, <2>1 DEF BusInv, HandlersOK
<1>9. ListedAreUsed'
  <2>1. ASSUME NEW c \in Channels, entry[c] # None
        PROVE  \/ handlers[entry[c]] # {}
               \/ state'[entry[c]] = "broken"
               \/ \E u \in Streams : stage'[u] = "await" /\ waits'[u] = entry[c]
    <3>1. entry[c] \in Connections /\ state[entry[c]] # "closing"
      BY <2>1, Listed
    <3>2. CASE entry[c] = k
      BY <1>1, <1>3, <1>4, <3>1, <3>2
    <3>3. CASE entry[c] # k
      <4>1. state'[entry[c]] = state[entry[c]]
        BY <1>3, <1>4, <3>1, <3>3
      <4>2. \A u \in Streams : stage[u] = "await" /\ waits[u] = entry[c] =>
              stage'[u] = "await" /\ waits'[u] = entry[c]
        BY <1>1, <1>3, <3>3
      <4>3. QED
        BY <2>1, <4>1, <4>2 DEF BusInv, ListedAreUsed
    <3>4. QED
      BY <3>2, <3>3
  <2>2. QED
    BY <1>1, <1>2, <2>1 DEF ListedAreUsed
<1>10. SubscribersListed'
  BY <1>1, <1>2 DEF BusInv, SubscribersListed
<1>11. QED
  BY <1>5, <1>6, <1>7, <1>8, <1>9, <1>10 DEF BusInv

\* The unsubscriber of channel ch, by what it finds in the map.
LEMMA UnsubscribeKeeps ==
  ASSUME BusInv, NEW s \in Streams, Unsubscribe(s)
  PROVE  BusInv'
<1>1. PICK ch \in FirstHeld(s) :
        /\ held' = [held EXCEPT ![s] = @ \ {ch}]
        /\ \/ entry[ch] = None /\ UNCHANGED <<bus, waits>>
           \/ /\ entry[ch] # None
              /\ handlers' = [handlers EXCEPT ![entry[ch]] = @ \ {s}]
              /\ \/ /\ handlers[entry[ch]] \subseteq {s}
                    /\ entry' = [entry EXCEPT ![ch] = None]
                    /\ state' = [state EXCEPT ![entry[ch]] = "closing"]
                    /\ waits' = [waits EXCEPT ![s] = entry[ch]]
                 \/ /\ ~(handlers[entry[ch]] \subseteq {s})
                    /\ UNCHANGED <<entry, state, waits>>
  BY DEF Unsubscribe
<1> DEFINE k == entry[ch]
<1>2. /\ cleanup[s] = "running" /\ waits[s] = None /\ starved' \subseteq starved
      /\ UNCHANGED <<stage, at, gone, aborted, closed, cleanup, orphans, deaf>>
  BY DEF Unsubscribe
<1>3. /\ state \in [Connections -> States] /\ handlers \in [Connections -> SUBSET Streams]
      /\ entry \in [Channels -> Connections \cup {None}] /\ held \in [Streams -> SUBSET Channels]
      /\ waits \in [Streams -> Connections \cup {None}] /\ None \notin Connections
  BY BusAssumption DEF BusInv, TypeOK
<1>4. ch \in Channels /\ ch \in held[s]
  BY <1>3 DEF FirstHeld
<1>5. /\ held' \in [Streams -> SUBSET Channels]
      /\ \A u \in Streams : held'[u] = IF u = s THEN held[u] \ {ch} ELSE held[u]
  BY <1>1, <1>3
<1>6. \A u \in Streams : cleanup[u] = "done" => held'[u] = held[u]
  BY <1>2, <1>5
<1>7. CASE k = None
  <2>1. UNCHANGED <<entry, state, handlers, waits>>
    BY <1>1, <1>7 DEF bus
  <2>2. TypeOK' /\ ConnectionsListed' /\ ListedAreUsed'
    BY <1>2, <1>5, <2>1 DEF BusInv, TypeOK, ConnectionsListed, ListedAreUsed
  <2>3. WaitsOK'
    BY <1>2, <1>6, <2>1 DEF BusInv, WaitsOK, AwaitedOK, ClosedOK, Awaits, Closes
  <2>4. HandlersOK'
    BY <1>3, <1>5, <1>7, <2>1, Listed DEF BusInv, HandlersOK
  <2>5. SubscribersListed'
    BY <1>2, <1>5, <2>1 DEF BusInv, SubscribersListed
  <2>6. QED
    BY <2>2, <2>3, <2>4, <2>5 DEF BusInv
<1>8. ASSUME k # None
      PROVE  /\ k \in Connections /\ k[1] = ch
             /\ state[k] \in {"subscribing", "subscribed", "broken"}
             /\ \A c \in Channels \ {ch} : entry[c] # k
             /\ handlers' \in [Connections -> SUBSET Streams]
             /\ \A j \in Connections :
                  handlers'[j] = IF j = k THEN handlers[j] \ {s} ELSE handlers[j]
  <2>1. k \in Connections /\ k[1] = ch /\ state[k] \in {"subscribing", "subscribed", "broken"}
    BY <1>4, <1>8, Listed
  <2>2. \A c \in Channels \ {ch} : entry[c] # k
    BY <1>8, <2>1, Listed
  <2>3. handlers' = [handlers EXCEPT ![k] = @ \ {s}]
    BY <1>1, <1>8
  <2>4. QED
    BY <1>3, <2>1, <2>2, <2>3
<1>9. CASE k # None /\ ~(handlers[k] \subseteq {s})
  <2>1. UNCHANGED <<entry, state, waits>>
    BY <1>1, <1>9
  <2>2. TypeOK' /\ ConnectionsListed'
    BY <1>2, <1>5, <1>8, <1>9, <2>1 DEF BusInv, TypeOK, ConnectionsListed
  <2>3. WaitsOK'
    BY <1>2, <1>6, <2>1 DEF BusInv, WaitsOK, AwaitedOK, ClosedOK, Awaits, Closes
  <2>4. HandlersOK'
    <3>1. ASSUME NEW c \in Channels, entry[c] # None, NEW u \in handlers'[entry[c]]
          PROVE  c \in held'[u]
      <4>1. entry[c] \in Connections
        BY <3>1, Listed
      <4>2. u \in Streams /\ u \in handlers[entry[c]] /\ (c = ch => u # s)
        BY <1>3, <1>8, <1>9, <3>1, <4>1
      <4>3. c \in held[u]
        BY <3>1, <4>2 DEF BusInv, HandlersOK
      <4>4. QED
        BY <1>5, <4>2, <4>3
    <3>2. \A j \in Connections : state'[j] = "free" => handlers'[j] = {}
      BY <1>8, <1>9, <2>1 DEF BusInv, HandlersOK
    <3>3. QED
      BY <2>1, <3>1, <3>2 DEF HandlersOK
  <2>5. ListedAreUsed'
    <3>1. ASSUME NEW c \in Channels, entry[c] # None
          PROVE  handlers[entry[c]] # {} => handlers'[entry[c]] # {}
      BY <1>8, <1>9, <3>1, Listed
    <3>2. QED
      BY <1>2, <2>1, <3>1 DEF BusInv, ListedAreUsed
  <2>6. SubscribersListed'
    <3>1. ASSUME NEW u \in Streams, NEW c \in held'[u]
          PROVE  (entry[c] # None /\ u \in handlers'[entry[c]]) \/ <<u, c>> \in orphans
      <4>1. c \in held[u] /\ c \in Channels /\ (u = s => c # ch)
        BY <1>3, <1>5
      <4>2. (entry[c] # None /\ u \in handlers[entry[c]]) \/ <<u, c>> \in orphans
        BY <4>1 DEF BusInv, SubscribersListed
      <4>3. entry[c] # None => entry[c] \in Connections
        BY <1>3, <4>1
      <4>4. entry[c] # None /\ u \in handlers[entry[c]] => u \in handlers'[entry[c]]
        BY <1>8, <1>9, <4>1, <4>3
      <4>5. QED
        BY <4>2, <4>4
    <3>2. QED
      BY <1>2, <2>1, <3>1 DEF SubscribersListed
  <2>7. QED
    BY <2>2, <2>3, <2>4, <2>5, <2>6 DEF BusInv
<1>10. CASE k # None /\ handlers[k] \subseteq {s}
  <2>1. /\ entry' = [entry EXCEPT ![ch] = None]
        /\ state' = [state EXCEPT ![k] = "closing"]
        /\ waits' = [waits EXCEPT ![s] = k]
    BY <1>1, <1>10
  <2>2. /\ k \in Connections /\ k[1] = ch
        /\ state[k] \in {"subscribing", "subscribed", "broken"}
        /\ handlers' \in [Connections -> SUBSET Streams] /\ handlers'[k] = {}
        /\ \A j \in Connections \ {k} : handlers'[j] = handlers[j]
    BY <1>8, <1>10
  <2>3. /\ entry'[ch] = None /\ \A c \in Channels \ {ch} : entry'[c] = entry[c] /\ entry[c] # k
    BY <1>3, <1>4, <1>8, <1>10, <2>1
  <2>4. state'[k] = "closing" /\ \A j \in Connections \ {k} : state'[j] = state[j]
    BY <1>3, <2>1, <2>2
  <2>5. waits'[s] = k /\ \A u \in Streams \ {s} : waits'[u] = waits[u]
    BY <1>3, <2>1
  <2>6. TypeOK'
    <3>1. entry' \in [Channels -> Connections \cup {None}] /\ state' \in [Connections -> States]
      BY <1>3, <2>1 DEF States
    <3>2. waits' \in [Streams -> Connections \cup {None}]
      BY <1>3, <2>1, <2>2
    <3>3. \A c \in Channels : entry'[c] # None => entry'[c][1] = c
      BY <2>3 DEF BusInv, TypeOK
    <3>4. QED
      BY <1>2, <1>5, <2>2, <3>1, <3>2, <3>3 DEF BusInv, TypeOK
  <2>7. ConnectionsListed'
    <3>1. ASSUME NEW j \in Connections
          PROVE  state'[j] \notin {"free", "closing"} <=> entry'[j[1]] = j
      <4>1. j[1] \in Channels /\ j # None
        BY <1>3 DEF Connections
      <4>2. state[j] \notin {"free", "closing"} <=> entry[j[1]] = j
        BY DEF BusInv, ConnectionsListed
      <4>3. CASE j = k
        BY <2>2, <2>3, <2>4, <4>1, <4>3
      <4>4. CASE j # k /\ j[1] = ch
        BY <2>3, <2>4, <4>1, <4>2, <4>4
      <4>5. CASE j # k /\ j[1] # ch
        BY <2>3, <2>4, <4>1, <4>2, <4>5
      <4>6. QED
        BY <4>3, <4>4, <4>5
    <3>2. QED
      BY <3>1 DEF ConnectionsListed
  <2>8. WaitsOK'
    <3>1. stage[s] = "open" /\ ~Awaits(s) /\ ~Awaits(s)'
      BY <1>2 DEF BusInv, WaitsOK, ClosedOK, Awaits
    <3>2. ASSUME NEW u \in Streams PROVE AwaitedOK(u)'
      <4>1. CASE u = s
        BY <3>1, <4>1 DEF AwaitedOK
      <4>2. CASE u # s
        <5>1. AwaitedOK(u) /\ waits'[u] = waits[u]
          BY <2>5, <4>2 DEF BusInv, WaitsOK
        <5>2. QED
          BY <1>2, <2>4, <5>1 DEF AwaitedOK, Awaits
      <4>3. QED
        BY <4>1, <4>2
    <3>3. ASSUME NEW u \in Streams PROVE ClosedOK(u)'
      <4>1. ClosedOK(u)
        BY DEF BusInv, WaitsOK
      <4>2. CASE u = s
        BY <1>2, <2>2, <2>4, <2>5, <3>1, <4>1, <4>2 DEF ClosedOK, Closes, Awaits
      <4>3. CASE u # s
        BY <1>2, <1>6, <2>2, <2>4, <2>5, <4>1, <4>3 DEF ClosedOK, Closes, Awaits
      <4>4. QED
        BY <4>2, <4>3
    <3>4. \A u \in Streams \ {s} :
            Closes(u) => waits[u] # k
      BY <2>2 DEF BusInv, WaitsOK, ClosedOK
    <3>5. ASSUME NEW u \in Streams, NEW w \in Streams, u # w, waits'[u] = waits'[w]
          PROVE  ~(Awaits(u) /\ Awaits(w))' /\ ~(Closes(u) /\ Closes(w))'
      <4>1. \A x \in Streams \ {s} : (Awaits(x)' <=> Awaits(x)) /\ (Closes(x)' <=> Closes(x))
        BY <1>2, <2>5 DEF Awaits, Closes
      <4>2. CASE u = s
        BY <2>5, <3>1, <3>4, <3>5, <4>1, <4>2
      <4>3. CASE w = s
        BY <2>5, <3>1, <3>4, <3>5, <4>1, <4>3
      <4>4. CASE u # s /\ w # s
        BY <2>5, <3>5, <4>1, <4>4 DEF BusInv, WaitsOK
      <4>5. QED
        BY <4>2, <4>3, <4>4
    <3>6. QED
      BY <3>2, <3>3, <3>5 DEF WaitsOK
  <2>9. HandlersOK'
    <3>1. ASSUME NEW c \in Channels, entry'[c] # None, NEW u \in handlers'[entry'[c]]
          PROVE  c \in held'[u]
      <4>1. c # ch /\ entry'[c] = entry[c] /\ entry[c] # k
        BY <2>3, <3>1
      <4>2. entry[c] \in Connections
        BY <1>3, <3>1, <4>1
      <4>3. u \in handlers[entry[c]] /\ u \in Streams
        BY <1>3, <2>2, <3>1, <4>1, <4>2
      <4>4. c \in held[u]
        BY <3>1, <4>1, <4>3 DEF BusInv, HandlersOK
      <4>5. QED
        BY <1>5, <4>1, <4>3, <4>4
    <3>2. \A j \in Connections : state'[j] = "free" => handlers'[j] = {}
      BY <2>2, <2>4 DEF BusInv, HandlersOK
    <3>3. QED
      BY <3>1, <3>2 DEF HandlersOK
  <2>10. ListedAreUsed'
    <3>1. ASSUME NEW c \in Channels, entry'[c] # None
          PROVE  \/ handlers'[entry'[c]] # {}
                 \/ state'[entry'[c]] = "broken"
                 \/ \E u \in Streams : stage'[u] = "await" /\ waits'[u] = entry'[c]
      <4>1. c # ch /\ entry'[c] = entry[c] /\ entry[c] # k
        BY <2>3, <3>1
      <4>2. entry[c] \in Connections
        BY <1>3, <3>1, <4>1
      <4>3. handlers'[entry[c]] = handlers[entry[c]] /\ state'[entry[c]] = state[entry[c]]
        BY <2>2, <2>4, <4>1, <4>2
      <4>4. \A u \in Streams : stage[u] = "await" /\ waits[u] = entry[c] =>
              stage'[u] = "await" /\ waits'[u] = entry[c]
        BY <1>2, <1>3, <2>5, <4>2
      <4>5. QED
        BY <3>1, <4>1, <4>3, <4>4 DEF BusInv, ListedAreUsed
    <3>2. QED
      BY <3>1 DEF ListedAreUsed
  <2>11. SubscribersListed'
    <3>1. ASSUME NEW u \in Streams, NEW c \in held'[u]
          PROVE  (entry'[c] # None /\ u \in handlers'[entry'[c]]) \/ <<u, c>> \in orphans
      <4>1. c \in held[u] /\ c \in Channels /\ (c = ch => u # s)
        BY <1>3, <1>5
      <4>2. (entry[c] # None /\ u \in handlers[entry[c]]) \/ <<u, c>> \in orphans
        BY <4>1 DEF BusInv, SubscribersListed
      <4>3. CASE c = ch
        BY <1>10, <4>1, <4>2, <4>3
      <4>4. CASE c # ch
        BY <1>3, <2>2, <2>3, <4>1, <4>2, <4>4
      <4>5. QED
        BY <4>3, <4>4
    <3>2. QED
      BY <1>2, <3>1 DEF SubscribersListed
  <2>12. QED
    BY <2>6, <2>7, <2>8, <2>9, <2>10, <2>11 DEF BusInv
<1>11. QED
  BY <1>7, <1>9, <1>10

LEMMA DisconnectKeeps ==
  ASSUME BusInv, NEW s \in Streams, Disconnect(s)
  PROVE  BusInv'
<1> DEFINE k == waits[s]
<1>1. /\ cleanup[s] = "running" /\ k # None
      /\ \A u \in Streams : ~(stage[u] = "await" /\ waits[u] = k)
      /\ state' = [state EXCEPT ![k] = "free"]
      /\ handlers' = [handlers EXCEPT ![k] = {}]
      /\ waits' = [waits EXCEPT ![s] = None]
      /\ UNCHANGED <<entry, stage, at, held, gone, aborted, closed, cleanup, orphans,
                     starved, deaf>>
  BY DEF Disconnect, ghosts
<1>2. k \in Connections /\ state[k] = "closing" /\ stage[s] = "open"
  BY <1>1 DEF BusInv, WaitsOK, ClosedOK, Closes
<1>3. /\ state \in [Connections -> States] /\ handlers \in [Connections -> SUBSET Streams]
      /\ waits \in [Streams -> Connections \cup {None}]
  BY DEF BusInv, TypeOK
<1>4. \A c \in Channels : entry[c] # None => entry[c] \in Connections \ {k}
  BY <1>2, Listed
<1>5. /\ state'[k] = "free" /\ \A j \in Connections \ {k} : state'[j] = state[j]
      /\ handlers'[k] = {} /\ \A j \in Connections \ {k} : handlers'[j] = handlers[j]
      /\ waits'[s] = None /\ \A u \in Streams \ {s} : waits'[u] = waits[u]
  BY <1>1, <1>2, <1>3
<1>6. TypeOK'
  <2>1. /\ state' \in [Connections -> States] /\ handlers' \in [Connections -> SUBSET Streams]
        /\ waits' \in [Streams -> Connections \cup {None}]
    BY <1>1, <1>2, <1>3 DEF States
  <2>2. QED
    BY <1>1, <2>1 DEF BusInv, TypeOK
<1>7. ConnectionsListed'
  <2>1. \A j \in Connections :
          state'[j] \in {"free", "closing"} <=> state[j] \in {"free", "closing"}
    BY <1>2, <1>5
  <2>2. QED
    BY <1>1, <2>1 DEF BusInv, ConnectionsListed
<1>8. WaitsOK'
  <2>1. \A u \in Streams \ {s} : Closes(u) => waits[u] # k
    BY <1>1 DEF BusInv, WaitsOK, Closes
  <2>2. ~Awaits(s) /\ ~Awaits(s)' /\ ~Closes(s)'
    BY <1>1, <1>2, <1>5 DEF Awaits, Closes
  <2>3. \A u \in Streams \ {s} : (Awaits(u)' <=> Awaits(u)) /\ (Closes(u)' <=> Closes(u))
    BY <1>1, <1>5 DEF Awaits, Closes
  <2>4. ASSUME NEW u \in Streams PROVE AwaitedOK(u)' /\ ClosedOK(u)'
    <3>1. AwaitedOK(u) /\ ClosedOK(u)
      BY DEF BusInv, WaitsOK
    <3>2. CASE u = s
      BY <1>1, <1>2, <1>5, <2>2, <3>1, <3>2 DEF AwaitedOK, ClosedOK
    <3>3. CASE u # s
      <4>1. waits'[u] = waits[u]
        BY <1>5, <3>3
      <4>2. AwaitedOK(u)'
        BY <1>1, <1>5, <3>1, <4>1 DEF AwaitedOK, Awaits
      <4>3. ClosedOK(u)'
        BY <1>1, <1>5, <2>1, <3>1, <3>3, <4>1 DEF ClosedOK, Awaits, Closes
      <4>4. QED
        BY <4>2, <4>3
    <3>4. QED
      BY <3>2, <3>3
  <2>5. ASSUME NEW u \in Streams, NEW w \in Streams, u # w, waits'[u] = waits'[w]
        PROVE  ~(Awaits(u) /\ Awaits(w))' /\ ~(Closes(u) /\ Closes(w))'
    <3>1. CASE u = s \/ w = s
      BY <2>2, <3>1
    <3>2. CASE u # s /\ w # s
      BY <1>5, <2>3, <2>5, <3>2 DEF BusInv, WaitsOK
    <3>3. QED
      BY <3>1, <3>2
  <2>6. QED
    BY <2>4, <2>5 DEF WaitsOK
<1>9. HandlersOK'
  BY <1>1, <1>4, <1>5 DEF BusInv, HandlersOK
<1>10. ListedAreUsed'
  <2>1. ASSUME NEW c \in Channels, entry[c] # None
        PROVE  \/ handlers'[entry[c]] # {}
               \/ state'[entry[c]] = "broken"
               \/ \E u \in Streams : stage[u] = "await" /\ waits'[u] = entry[c]
    <3>1. handlers'[entry[c]] = handlers[entry[c]] /\ state'[entry[c]] = state[entry[c]]
      BY <1>4, <1>5, <2>1
    <3>2. \A u \in Streams : stage[u] = "await" => waits'[u] = waits[u]
      BY <1>2, <1>5
    <3>3. QED
      BY <2>1, <3>1, <3>2 DEF BusInv, ListedAreUsed
  <2>2. QED
    BY <1>1, <2>1 DEF ListedAreUsed
<1>11. SubscribersListed'
  <2>1. ASSUME NEW u \in Streams, NEW c \in held[u]
        PROVE  (entry[c] # None /\ u \in handlers'[entry[c]]) \/ <<u, c>> \in orphans
    <3>1. c \in Channels
      BY DEF BusInv, TypeOK
    <3>2. QED
      BY <1>4, <1>5, <3>1 DEF BusInv, SubscribersListed
  <2>2. QED
    BY <1>1, <2>1 DEF SubscribersListed
<1>12. QED
  BY <1>6, <1>7, <1>8, <1>9, <1>10, <1>11 DEF BusInv

\* The steps that leave the bus alone.
LEMMA AsideStepsKeep ==
  ASSUME BusInv, NEW s \in Streams,
         Open(s) \/ Listen(s) \/ Leave(s) \/ SendFails(s) \/ AbortEvent(s) \/ CleanedUp(s)
  PROVE  BusInv'
<1>1. /\ TypeOK /\ stage \in [Streams -> Stages] /\ cleanup \in [Streams -> {"no", "running", "done"}]
      /\ gone \subseteq Streams
  BY DEF BusInv, TypeOK
<1>2. ClosedOK(s)
  BY DEF BusInv, WaitsOK
<1>3. CASE Open(s) \/ Listen(s)
  <2>1. /\ stage[s] \in {"new", "next"}
        /\ \E w \in {"next", "open"} : stage' = [stage EXCEPT ![s] = w]
        /\ deaf' \subseteq deaf \cup {s}
        /\ UNCHANGED <<entry, state, handlers, at, waits, held, gone, aborted, closed, cleanup,
                       orphans, starved>>
    BY <1>3 DEF Open, Listen, bus, ghosts
  <2>2. cleanup[s] = "no"
    BY <1>1, <1>2, <2>1 DEF ClosedOK
  <2>3. TypeOK'
    BY <1>1, <2>1 DEF TypeOK, Stages
  <2>4. stage'[s] # "await" /\ \A u \in Streams \ {s} : stage'[u] = stage[u]
    BY <1>1, <2>1
  <2>5. QED
    BY <2>1, <2>2, <2>3, <2>4, AsideKeeps
<1>4. CASE Leave(s) \/ SendFails(s)
  <2>1. /\ gone \subseteq gone' /\ gone' \subseteq Streams
        /\ closed \subseteq closed' /\ closed' \subseteq gone'
        /\ UNCHANGED <<entry, state, handlers, stage, at, waits, held, aborted, cleanup,
                       orphans, starved, deaf>>
    BY <1>1, <1>4 DEF Leave, SendFails, bus, ghosts, TypeOK
  <2>2. TypeOK'
    BY <1>1, <2>1 DEF TypeOK
  <2>3. ConnectionsListed' /\ HandlersOK' /\ ListedAreUsed' /\ SubscribersListed'
    BY <2>1 DEF BusInv, ConnectionsListed, HandlersOK, ListedAreUsed, SubscribersListed
  <2>4. ASSUME NEW u \in Streams PROVE AwaitedOK(u)' /\ ClosedOK(u)'
    <3>1. AwaitedOK(u) /\ ClosedOK(u)
      BY DEF BusInv, WaitsOK
    <3>2. AwaitedOK(u)'
      BY <2>1, <3>1 DEF AwaitedOK, Awaits
    <3>3. ClosedOK(u)'
      BY <2>1, <3>1 DEF ClosedOK, Awaits, Closes
    <3>4. QED
      BY <3>2, <3>3
  <2>5. WaitsOK'
    BY <2>1, <2>4 DEF BusInv, WaitsOK, Awaits, Closes
  <2>6. QED
    BY <2>2, <2>3, <2>5 DEF BusInv
<1>5. CASE AbortEvent(s) \/ CleanedUp(s)
  <2>1. /\ aborted' \subseteq gone /\ closed' \subseteq gone /\ deaf' \subseteq Streams
        /\ UNCHANGED <<entry, state, handlers, stage, at, waits, held, gone, orphans, starved>>
    BY <1>1, <1>5 DEF AbortEvent, CleanedUp, bus, ghosts, TypeOK
  <2>2. \/ cleanup' = cleanup
        \/ stage[s] = "open" /\ s \notin closed /\ cleanup' = [cleanup EXCEPT ![s] = "running"]
           /\ AbortEvent(s)
        \/ /\ cleanup[s] = "running" /\ waits[s] = None /\ held[s] = {}
           /\ cleanup' = [cleanup EXCEPT ![s] = "done"]
    BY <1>5 DEF AbortEvent, CleanedUp
  <2>3. TypeOK'
    BY <1>1, <2>1, <2>2 DEF TypeOK
  <2>4. \A u \in Streams \ {s} : cleanup'[u] = cleanup[u]
    BY <1>1, <2>2
  <2>5. CASE cleanup' = cleanup
    <3>1. closed \subseteq closed'
      BY <1>5 DEF AbortEvent, CleanedUp
    <3>2. CASE stage[s] # "await"
      BY <1>2, <2>1, <2>3, <2>5, <3>1, <3>2, AsideKeeps DEF ClosedOK
    <3>3. CASE stage[s] = "await"
      <4>1. ConnectionsListed' /\ HandlersOK' /\ ListedAreUsed' /\ SubscribersListed'
        BY <2>1 DEF BusInv, ConnectionsListed, HandlersOK, ListedAreUsed, SubscribersListed
      <4>2. WaitsOK'
        BY <2>1, <2>5, <3>1 DEF BusInv, WaitsOK, AwaitedOK, ClosedOK, Awaits, Closes
      <4>3. QED
        BY <2>3, <4>1, <4>2 DEF BusInv
    <3>4. QED
      BY <3>2, <3>3
  <2>6. CASE stage[s] = "open" /\ s \notin closed /\ cleanup' = [cleanup EXCEPT ![s] = "running"]
             /\ AbortEvent(s)
    <3>1. cleanup[s] = "no"
      BY <1>2, <2>6 DEF ClosedOK
    <3>2. waits[s] = None
      BY <1>2, <2>6, <3>1 DEF ClosedOK, Awaits
    <3>3. cleanup'[s] = "running" /\ closed' = closed \cup {s}
      <4>1. cleanup'[s] = "running"
        BY <1>1, <2>6
      <4>2. closed' = closed \cup {s}
        BY <2>6 DEF AbortEvent
      <4>3. QED
        BY <4>1, <4>2
    <3>4. QED
      BY <2>1, <2>3, <2>4, <2>6, <3>1, <3>2, <3>3, AsideKeeps
  <2>7. CASE /\ cleanup[s] = "running" /\ waits[s] = None /\ held[s] = {}
             /\ cleanup' = [cleanup EXCEPT ![s] = "done"]
    <3>1. stage[s] = "open" /\ s \in closed
      BY <1>2, <2>7 DEF ClosedOK
    <3>2. closed \subseteq closed'
      BY <1>5 DEF AbortEvent, CleanedUp
    <3>3. cleanup'[s] = "done"
      BY <1>1, <2>7
    <3>4. QED
      BY <2>1, <2>3, <2>4, <2>7, <3>1, <3>2, <3>3, AsideKeeps
  <2>8. QED
    BY <2>2, <2>5, <2>6, <2>7
<1>6. QED
  BY <1>3, <1>4, <1>5

LEMMA NextKeeps == BusInv /\ [Next]_vars => BusInv'
<1> SUFFICES ASSUME BusInv, [Next]_vars PROVE BusInv'
  OBVIOUS
<1>1. CASE UNCHANGED vars
  <2>1. TypeOK' /\ ConnectionsListed' /\ HandlersOK'
    BY <1>1 DEF BusInv, vars, TypeOK, ConnectionsListed, HandlersOK
  <2>2. WaitsOK'
    BY <1>1 DEF BusInv, vars, WaitsOK, AwaitedOK, ClosedOK, Awaits, Closes
  <2>3. ListedAreUsed' /\ SubscribersListed'
    BY <1>1 DEF BusInv, vars, ListedAreUsed, SubscribersListed
  <2>4. QED
    BY <2>1, <2>2, <2>3 DEF BusInv
<1>2. ASSUME NEW s \in Streams, Subscribe(s) PROVE BusInv'
  BY <1>2, JoinKeeps, ConnectKeeps, SubscribedKeeps, SubscribeFailsKeeps, AsideStepsKeep
  DEF Subscribe
<1>3. ASSUME NEW s \in Streams, CleanUp(s) PROVE BusInv'
  BY <1>3, UnsubscribeKeeps, DisconnectKeeps, AsideStepsKeep DEF CleanUp
<1>4. ASSUME NEW s \in Streams, Open(s) \/ Leave(s) \/ SendFails(s) \/ AbortEvent(s) PROVE BusInv'
  BY <1>4, AsideStepsKeep
<1>5. QED
  BY <1>1, <1>2, <1>3, <1>4 DEF Next

-----------------------------------------------------------------------------
\* The starved are those on a listed connection whose SUBSCRIBE threw, at any
\* time: who shares it starves, and nobody else.
Starves(s, ch) ==
  entry[ch] # None /\ state[entry[ch]] = "broken" /\ s \in handlers[entry[ch]]

StarvedNamed ==
  \A s \in Streams, ch \in Channels : <<s, ch>> \in starved <=> Starves(s, ch)

LEMMA FedIs == BusInv /\ StarvedNamed => SubscribersFed
<1> SUFFICES ASSUME BusInv, StarvedNamed PROVE SubscribersFed
  OBVIOUS
<1>1. starved \subseteq Streams \X Channels /\ \A s \in Streams : held[s] \subseteq Channels
  BY DEF BusInv, TypeOK
<1>2. ASSUME NEW s \in Streams, NEW ch \in held[s]
      PROVE  \/ /\ entry[ch] # None /\ s \in handlers[entry[ch]]
                /\ state[entry[ch]] \in {"subscribing", "subscribed"}
             \/ <<s, ch>> \in orphans \cup starved
  <2>1. ch \in Channels
    BY <1>1
  <2>2. (entry[ch] # None /\ s \in handlers[entry[ch]]) \/ <<s, ch>> \in orphans
    BY DEF BusInv, SubscribersListed
  <2>3. entry[ch] # None => state[entry[ch]] \in {"subscribing", "subscribed", "broken"}
    BY <2>1, Listed
  <2>4. QED
    BY <2>1, <2>2, <2>3 DEF StarvedNamed, Starves
<1>3. \A s \in Streams, ch \in Channels : <<s, ch>> \in starved =>
        entry[ch] # None /\ s \in handlers[entry[ch]] /\ state[entry[ch]] = "broken"
  BY DEF StarvedNamed, Starves
<1>4. QED
  BY <1>1, <1>2, <1>3 DEF SubscribersFed

\* A channel's entry, its state and its handlers, left alone by a step.
LEMMA StarvedAlone ==
  ASSUME BusInv, StarvedNamed, NEW s \in Streams, NEW ch \in Channels,
         entry'[ch] = entry[ch],
         entry[ch] # None => state'[entry[ch]] = state[entry[ch]]
                             /\ (s \in handlers'[entry[ch]] <=> s \in handlers[entry[ch]]),
         <<s, ch>> \in starved' <=> <<s, ch>> \in starved
  PROVE  <<s, ch>> \in starved' <=> Starves(s, ch)'
BY DEF StarvedNamed, Starves

LEMMA JoinStarves ==
  ASSUME BusInv, StarvedNamed, NEW s \in Streams, Join(s)
  PROVE  StarvedNamed'
<1> DEFINE c == at[s]
<1>1. /\ c \in Channels /\ entry[c] # None /\ UNCHANGED <<entry, state>>
      /\ handlers' = [handlers EXCEPT ![entry[c]] = @ \cup {s}]
      /\ starved' = IF state[entry[c]] = "broken" THEN starved \cup {<<s, c>>} ELSE starved
  BY DEF Join
<1>2. /\ handlers \in [Connections -> SUBSET Streams] /\ entry[c] \in Connections
      /\ \A ch \in Channels \ {c} : entry[ch] # None =>
           entry[ch] \in Connections /\ entry[ch] # entry[c]
  BY <1>1, Listed DEF BusInv, TypeOK
<1>3. ASSUME NEW u \in Streams, NEW ch \in Channels
      PROVE  <<u, ch>> \in starved' <=> Starves(u, ch)'
  <2>1. CASE u = s /\ ch = c
    <3>1. s \in handlers'[entry[c]]
      BY <1>1, <1>2
    <3>2. state[entry[c]] # "broken" => <<s, c>> \notin starved
      BY <1>1 DEF StarvedNamed, Starves
    <3>3. QED
      BY <1>1, <2>1, <3>1, <3>2 DEF Starves
  <2>2. CASE ~(u = s /\ ch = c)
    <3>1. <<u, ch>> \in starved' <=> <<u, ch>> \in starved
      BY <1>1, <2>2
    <3>2. entry[ch] # None => (u \in handlers'[entry[ch]] <=> u \in handlers[entry[ch]])
      BY <1>1, <1>2, <2>2
    <3>3. QED
      BY <1>1, <3>1, <3>2, StarvedAlone
  <2>3. QED
    BY <2>1, <2>2
<1>4. QED
  BY <1>3 DEF StarvedNamed

LEMMA ConnectStarves ==
  ASSUME BusInv, StarvedNamed, NEW s \in Streams, Connect(s)
  PROVE  StarvedNamed'
<1>1. PICK k \in Connections :
        /\ state[k] = "free"
        /\ entry' = [entry EXCEPT ![at[s]] = k]
        /\ state' = [state EXCEPT ![k] = "subscribing"]
  BY DEF Connect
<1>2. /\ at[s] \in Channels /\ entry[at[s]] = None /\ UNCHANGED <<handlers, starved>>
  BY DEF Connect, ghosts
<1>3. /\ entry \in [Channels -> Connections \cup {None}] /\ state \in [Connections -> States]
  BY DEF BusInv, TypeOK
<1>4. ASSUME NEW u \in Streams, NEW ch \in Channels
      PROVE  <<u, ch>> \in starved' <=> Starves(u, ch)'
  <2>1. CASE ch = at[s]
    <3>1. entry'[ch] = k /\ state'[k] = "subscribing"
      BY <1>1, <1>2, <1>3, <2>1
    <3>2. QED
      BY <1>2, <2>1, <3>1 DEF StarvedNamed, Starves
  <2>2. CASE ch # at[s]
    <3>1. entry'[ch] = entry[ch] /\ (entry[ch] # None => entry[ch] # k)
      BY <1>1, <1>3, <2>2, Listed
    <3>2. entry[ch] # None => state'[entry[ch]] = state[entry[ch]]
      BY <1>1, <1>3, <3>1
    <3>3. QED
      BY <1>2, <3>1, <3>2, StarvedAlone
  <2>3. QED
    BY <2>1, <2>2
<1>5. QED
  BY <1>4 DEF StarvedNamed

LEMMA SubscribedStarves ==
  ASSUME BusInv, StarvedNamed, NEW s \in Streams, Subscribed(s)
  PROVE  StarvedNamed'
<1> DEFINE k == waits[s]
<1>1. k \in Connections /\ state[k] \in {"subscribing", "closing"} /\ entry' = entry
  BY AnswerEffect
<1>2. /\ handlers' = [handlers EXCEPT ![k] = @ \cup {s}] /\ starved' = starved
      /\ state' = state \/ state' = [state EXCEPT ![k] = "subscribed"]
  BY DEF Subscribed
<1>3. /\ state \in [Connections -> States] /\ handlers \in [Connections -> SUBSET Streams]
  BY DEF BusInv, TypeOK
<1>4. ASSUME NEW u \in Streams, NEW ch \in Channels
      PROVE  <<u, ch>> \in starved' <=> Starves(u, ch)'
  <2>1. CASE entry[ch] = k
    <3>1. state[k] # "broken" /\ state'[k] # "broken"
      BY <1>1, <1>2, <1>3
    <3>2. QED
      BY <1>1, <1>2, <2>1, <3>1 DEF StarvedNamed, Starves
  <2>2. CASE entry[ch] # k
    <3>1. entry[ch] # None => state'[entry[ch]] = state[entry[ch]]
                              /\ handlers'[entry[ch]] = handlers[entry[ch]]
      BY <1>2, <1>3, <2>2, Listed
    <3>2. QED
      BY <1>1, <1>2, <3>1, StarvedAlone
  <2>3. QED
    BY <2>1, <2>2
<1>5. QED
  BY <1>4 DEF StarvedNamed

LEMMA SubscribeFailsStarves ==
  ASSUME BusInv, StarvedNamed, NEW s \in Streams, SubscribeFails(s)
  PROVE  StarvedNamed'
<1> DEFINE k == waits[s]
<1>1. /\ k \in Connections /\ state[k] \in {"subscribing", "closing"}
      /\ at[s] \in Channels /\ k[1] = at[s] /\ UNCHANGED <<entry, handlers>>
  BY AnswerEffect DEF SubscribeFails
<1>2. /\ state \in [Connections -> States] /\ handlers \in [Connections -> SUBSET Streams]
  BY DEF BusInv, TypeOK
<1>3. CASE state[k] = "closing"
  <2>1. UNCHANGED <<state, starved>>
    BY <1>3 DEF SubscribeFails
  <2>2. QED
    BY <1>1, <2>1 DEF StarvedNamed, Starves
<1>4. CASE state[k] = "subscribing"
  <2>1. /\ state' = [state EXCEPT ![k] = "broken"]
        /\ starved' = starved \cup {<<u, at[s]>> : u \in handlers[k]}
    BY <1>4 DEF SubscribeFails
  <2>2. entry[at[s]] = k /\ state'[k] = "broken"
    BY <1>1, <1>2, <1>4, <2>1 DEF BusInv, ConnectionsListed
  <2>3. ASSUME NEW u \in Streams, NEW ch \in Channels
        PROVE  <<u, ch>> \in starved' <=> Starves(u, ch)'
    <3>1. CASE ch = at[s]
      <4>1. <<u, ch>> \notin starved
        BY <1>4, <2>2, <3>1 DEF StarvedNamed, Starves
      <4>2. <<u, ch>> \in starved' <=> u \in handlers[k]
        BY <2>1, <3>1, <4>1
      <4>3. entry[ch] = k /\ k # None
        BY <1>1, <2>2, <3>1, BusAssumption
      <4>4. QED
        BY <1>1, <2>2, <4>2, <4>3 DEF Starves
    <3>2. CASE ch # at[s]
      <4>1. <<u, ch>> \in starved' <=> <<u, ch>> \in starved
        BY <2>1, <3>2
      <4>2. entry[ch] # None => entry[ch] \in Connections /\ entry[ch] # k
        BY <1>1, <3>2, Listed
      <4>3. entry[ch] # None => state'[entry[ch]] = state[entry[ch]]
        BY <1>2, <2>1, <4>2
      <4>4. QED
        BY <1>1, <4>1, <4>3, StarvedAlone
    <3>3. QED
      BY <3>1, <3>2
  <2>4. QED
    BY <2>3 DEF StarvedNamed
<1>5. QED
  BY <1>1, <1>3, <1>4

LEMMA UnsubscribeStarves ==
  ASSUME BusInv, StarvedNamed, NEW s \in Streams, Unsubscribe(s)
  PROVE  StarvedNamed'
<1>1. PICK c \in FirstHeld(s) :
        /\ starved' = starved \ {<<s, c>>}
        /\ \/ entry[c] = None /\ UNCHANGED <<bus, waits>>
           \/ /\ entry[c] # None
              /\ handlers' = [handlers EXCEPT ![entry[c]] = @ \ {s}]
              /\ \/ /\ handlers[entry[c]] \subseteq {s}
                    /\ entry' = [entry EXCEPT ![c] = None]
                    /\ state' = [state EXCEPT ![entry[c]] = "closing"]
                    /\ waits' = [waits EXCEPT ![s] = entry[c]]
                 \/ /\ ~(handlers[entry[c]] \subseteq {s})
                    /\ UNCHANGED <<entry, state, waits>>
  BY DEF Unsubscribe
<1>2. /\ state \in [Connections -> States] /\ handlers \in [Connections -> SUBSET Streams]
      /\ entry \in [Channels -> Connections \cup {None}] /\ c \in Channels
  BY DEF BusInv, TypeOK, FirstHeld
<1>3. ASSUME NEW u \in Streams, NEW ch \in Channels
      PROVE  <<u, ch>> \in starved' <=> Starves(u, ch)'
  <2>1. CASE ch # c
    <3>1. <<u, ch>> \in starved' <=> <<u, ch>> \in starved
      BY <1>1, <2>1
    <3>2. entry'[ch] = entry[ch]
      BY <1>1, <1>2, <2>1 DEF bus
    <3>3. entry[ch] # None /\ entry[c] # None => entry[ch] \in Connections /\ entry[ch] # entry[c]
      BY <1>2, <2>1, Listed
    <3>4. entry[ch] # None => state'[entry[ch]] = state[entry[ch]]
                              /\ handlers'[entry[ch]] = handlers[entry[ch]]
      BY <1>1, <1>2, <3>3 DEF bus
    <3>5. QED
      BY <3>1, <3>2, <3>4, StarvedAlone
  <2>2. CASE ch = c /\ entry[c] = None
    <3>1. UNCHANGED <<entry, state, handlers>>
      BY <1>1, <2>2 DEF bus
    <3>2. QED
      BY <1>1, <2>2, <3>1 DEF StarvedNamed, Starves
  <2>3. CASE ch = c /\ entry[c] # None /\ entry' = entry
    <3>1. entry[c] \in Connections
      BY <1>2, <2>3
    <3>2. /\ handlers'[entry[c]] = handlers[entry[c]] \ {s}
          /\ state' = state
      BY <1>1, <1>2, <2>3, <3>1
    <3>3. QED
      BY <1>1, <2>3, <3>2 DEF StarvedNamed, Starves
  <2>4. CASE ch = c /\ entry[c] # None /\ entry' # entry
    <3>1. handlers[entry[c]] \subseteq {s} /\ entry'[c] = None
      BY <1>1, <1>2, <2>4
    <3>2. QED
      BY <1>1, <2>4, <3>1 DEF StarvedNamed, Starves
  <2>5. QED
    BY <2>1, <2>2, <2>3, <2>4
<1>4. QED
  BY <1>3 DEF StarvedNamed

LEMMA DisconnectStarves ==
  ASSUME BusInv, StarvedNamed, NEW s \in Streams, Disconnect(s)
  PROVE  StarvedNamed'
<1> DEFINE k == waits[s]
<1>1. /\ cleanup[s] = "running" /\ k # None /\ UNCHANGED <<entry, starved>>
      /\ state' = [state EXCEPT ![k] = "free"]
      /\ handlers' = [handlers EXCEPT ![k] = {}]
  BY DEF Disconnect, ghosts
<1>2. k \in Connections /\ state[k] = "closing"
  BY <1>1 DEF BusInv, WaitsOK, ClosedOK, Closes
<1>3. /\ state \in [Connections -> States] /\ handlers \in [Connections -> SUBSET Streams]
  BY DEF BusInv, TypeOK
<1>4. ASSUME NEW u \in Streams, NEW ch \in Channels
      PROVE  <<u, ch>> \in starved' <=> Starves(u, ch)'
  <2>1. entry[ch] # None => entry[ch] \in Connections \ {k}
    BY <1>2, Listed
  <2>2. entry[ch] # None => state'[entry[ch]] = state[entry[ch]]
                            /\ handlers'[entry[ch]] = handlers[entry[ch]]
    BY <1>1, <1>3, <2>1
  <2>3. QED
    BY <1>1, <2>2, StarvedAlone
<1>5. QED
  BY <1>4 DEF StarvedNamed

LEMMA NextStarves == BusInv /\ StarvedNamed /\ [Next]_vars => StarvedNamed'
<1> SUFFICES ASSUME BusInv, StarvedNamed, [Next]_vars PROVE StarvedNamed'
  OBVIOUS
<1>1. ASSUME UNCHANGED <<entry, state, handlers, starved>> PROVE StarvedNamed'
  BY <1>1 DEF StarvedNamed, Starves
<1>2. CASE UNCHANGED vars
  BY <1>1, <1>2 DEF vars
<1>3. ASSUME NEW s \in Streams, Subscribe(s) PROVE StarvedNamed'
  <2>1. Listen(s) => UNCHANGED <<entry, state, handlers, starved>>
    BY DEF Listen, bus
  <2>2. QED
    BY <1>1, <1>3, <2>1, JoinStarves, ConnectStarves, SubscribedStarves, SubscribeFailsStarves
    DEF Subscribe
<1>4. ASSUME NEW s \in Streams, CleanUp(s) PROVE StarvedNamed'
  <2>1. CleanedUp(s) => UNCHANGED <<entry, state, handlers, starved>>
    BY DEF CleanedUp, bus, ghosts
  <2>2. QED
    BY <1>1, <1>4, <2>1, UnsubscribeStarves, DisconnectStarves DEF CleanUp
<1>5. ASSUME NEW s \in Streams, Open(s) \/ Leave(s) \/ SendFails(s) \/ AbortEvent(s)
      PROVE  StarvedNamed'
  <2>1. UNCHANGED <<entry, state, handlers, starved>>
    BY <1>5 DEF Open, Leave, SendFails, AbortEvent, bus, ghosts
  <2>2. QED
    BY <1>1, <2>1
<1>6. QED
  BY <1>2, <1>3, <1>4, <1>5 DEF Next

LEMMA Invariant == Spec => [](BusInv /\ StarvedNamed)
<1>1. Init => StarvedNamed
  BY DEF Init, StarvedNamed, Starves
<1>2. BusInv /\ StarvedNamed /\ [Next]_vars => (BusInv /\ StarvedNamed)'
  BY NextKeeps, NextStarves
<1>3. QED
  BY <1>1, <1>2, InitHolds, PTL DEF Spec
-----------------------------------------------------------------------------
\* The type invariant of the run.
THEOREM TypeCorrect == Spec => []TypeOK
<1>1. BusInv => TypeOK
  BY DEF BusInv
<1>2. QED
  BY <1>1, Invariant, PTL

\* The bus's map and the connections that are up agree, at any time
\* (redis.ts, subscribe and the unsubscriber it returns).
THEOREM ConnectionsStayListed == Spec => []ConnectionsListed
<1>1. BusInv => ConnectionsListed
  BY DEF BusInv
<1>2. QED
  BY <1>1, Invariant, PTL

\* redis.ts:133, "Tear the connection down once nobody is listening": no
\* healthy connection stays listed for nobody.
THEOREM ListedStayUsed == Spec => []ListedAreUsed
<1>1. BusInv => ListedAreUsed
  BY DEF BusInv
<1>2. QED
  BY <1>1, Invariant, PTL

\* redis.ts subscribe: a stream is fed until it unsubscribes, whoever else
\* leaves the channel, but for the subscriptions that lost their connection
\* while it was being made, and those that share one whose SUBSCRIBE threw.
THEOREM SubscribersStayFed == Spec => []SubscribersFed
<1>1. QED
  BY FedIs, Invariant, PTL

\* A stream whose cleanup has ended (route.ts, cleanup) has left every channel.
THEOREM LeaversLeaveNothing == Spec => []NothingLeftBehind
<1>1. ASSUME BusInv, NEW s \in Streams, cleanup[s] = "done", NEW ch \in Channels,
             entry[ch] # None
      PROVE  s \notin handlers[entry[ch]]
  <2>1. held[s] = {}
    BY <1>1 DEF BusInv, WaitsOK, ClosedOK
  <2>2. QED
    BY <1>1, <2>1 DEF BusInv, HandlersOK
<1>2. BusInv => NothingLeftBehind
  BY <1>1 DEF NothingLeftBehind
<1>3. QED
  BY <1>2, Invariant, PTL

------------------------------------------------------------------------------
\* The cache (Cache).

Entry == [key : Key, expires : Nat]
Call == [at : {"idle", "get", "hit", "miss", "await", "fetch", "set"},
         key : Key \union {NoOne}, ttl : Nat, shares : BOOLEAN, on : Caller \union {NoOne}]

OneEntryEach(entries) == \A i, j \in DOMAIN entries : entries[i].key = entries[j].key => i = j
Bounded(entries) == redis \/ Len(entries) <= Entries

(***************************************************************************)
(* FlightsShared is not inductive: a caller on its way has a key, and one  *)
(* waits for somebody exactly while it awaits a flight it shares.          *)
(***************************************************************************)
CallsSound ==
  \A c \in Caller : /\ calls[c].at # "idle" => calls[c].key \in Key
                    /\ calls[c].at = "await" => calls[c].on \in Caller
                    /\ calls[c].at # "await" => calls[c].on = NoOne

FlightsNamed == \A k \in Key : Flying(k) = IF flight[k] = NoOne THEN {} ELSE {flight[k]}
WaitersNamed == \A c \in Caller : calls[c].at = "await" => calls[c].on = flight[calls[c].key]
StoreSound == Bounded(store) /\ OneEntryEach(store)

CacheInv == CacheTypeOK /\ CallsSound /\ FlightsNamed /\ WaitersNamed /\ StoreSound

LEMMA CacheInvSays == CacheInv => FlightsShared
BY DEF CacheInv, FlightsNamed, WaitersNamed, StoreSound, Bounded, OneEntryEach, FlightsShared
-----------------------------------------------------------------------------
\* A sequence without one of its places.
LEMMA RemovePlace ==
  ASSUME NEW S, NEW s \in Seq(S), NEW i \in 1..Len(s)
  PROVE  /\ RemoveAt(s, i) \in Seq(S)
         /\ Len(RemoveAt(s, i)) = Len(s) - 1
         /\ \A j \in 1..(Len(s) - 1) : RemoveAt(s, i)[j] = IF j < i THEN s[j] ELSE s[j + 1]
<1> DEFINE a == SubSeq(s, 1, i - 1)  b == SubSeq(s, i + 1, Len(s))
<1>1. Len(s) \in Nat /\ \A j \in 1..Len(s) : s[j] \in S
  BY LenProperties, ElementOfSeq
<1>2. a \in Seq(S) /\ Len(a) = i - 1 /\ \A j \in 1..(i - 1) : a[j] = s[j]
  <2>1. 1 \in Int /\ i - 1 \in Int /\ (\A j \in 1..(i - 1) : s[j] \in S)
    BY <1>1
  <2>2. /\ a \in Seq(S) /\ Len(a) = (IF 1 <= i - 1 THEN i - 1 - 1 + 1 ELSE 0)
        /\ \A j \in 1..(i - 1 - 1 + 1) : a[j] = s[1 + j - 1]
    BY <2>1, SubSeqProperties
  <2>3. QED
    BY <1>1, <2>2
<1>3. b \in Seq(S) /\ Len(b) = Len(s) - i /\ \A j \in 1..(Len(s) - i) : b[j] = s[i + j]
  <2>1. i + 1 \in Int /\ Len(s) \in Int /\ (\A j \in (i + 1)..Len(s) : s[j] \in S)
    BY <1>1
  <2>2. /\ b \in Seq(S) /\ Len(b) = (IF i + 1 <= Len(s) THEN Len(s) - (i + 1) + 1 ELSE 0)
        /\ \A j \in 1..(Len(s) - (i + 1) + 1) : b[j] = s[i + 1 + j - 1]
    BY <2>1, SubSeqProperties
  <2>3. QED
    BY <1>1, <2>2
<1>4. RemoveAt(s, i) = a \o b
  BY DEF RemoveAt
<1>5. /\ a \o b \in Seq(S) /\ Len(a \o b) = Len(s) - 1
      /\ \A j \in 1..(Len(s) - 1) : (a \o b)[j] = IF j <= i - 1 THEN a[j] ELSE b[j - (i - 1)]
  <2>1. /\ a \o b \in Seq(S) /\ Len(a \o b) = Len(a) + Len(b)
        /\ \A j \in 1..(Len(a) + Len(b)) : (a \o b)[j] = IF j <= Len(a) THEN a[j] ELSE b[j - Len(a)]
    BY <1>2, <1>3, ConcatProperties
  <2> HIDE DEF a, b
  <2>2. QED
    BY <1>1, <1>2, <1>3, <2>1
<1> HIDE DEF a, b
<1>6. ASSUME NEW j \in 1..(Len(s) - 1)
      PROVE  (a \o b)[j] = IF j < i THEN s[j] ELSE s[j + 1]
  <2>1. CASE j < i
    BY <1>1, <1>2, <1>5, <2>1
  <2>2. CASE ~(j < i)
    <3>1. j - (i - 1) \in 1..(Len(s) - i) /\ i + (j - (i - 1)) = j + 1 /\ ~(j <= i - 1)
      BY <1>1, <2>2
    <3>2. QED
      BY <1>3, <1>5, <2>2, <3>1
  <2>3. QED
    BY <2>1, <2>2
<1>7. QED
  BY <1>4, <1>5, <1>6

LEMMA WithoutKeeps ==
  ASSUME store \in Seq(Entry), StoreSound, NEW k, redis \in BOOLEAN, Entries \in Nat
  PROVE  Without(k) \in Seq(Entry) /\ Bounded(Without(k)) /\ OneEntryEach(Without(k))
<1>1. CASE Places(k) = {}
  BY <1>1 DEF Without, StoreSound
<1>2. CASE Places(k) # {}
  <2> DEFINE i == CHOOSE i \in Places(k) : TRUE
  <2>1. DOMAIN store = 1..Len(store) /\ Len(store) \in Nat
    BY LenProperties
  <2>2. i \in 1..Len(store) /\ Without(k) = RemoveAt(store, i)
    BY <1>2, <2>1 DEF Without, Places
  <2> HIDE DEF i
  <2> DEFINE t == RemoveAt(store, i)
  <2>3. /\ t \in Seq(Entry) /\ Len(t) = Len(store) - 1
        /\ \A j \in 1..(Len(store) - 1) : t[j] = IF j < i THEN store[j] ELSE store[j + 1]
    BY <2>2, RemovePlace
  <2> HIDE DEF t
  <2>4. DOMAIN t = 1..(Len(store) - 1)
    BY <2>3, LenProperties
  <2>5. Bounded(t)
    BY <2>1, <2>3 DEF StoreSound, Bounded
  <2>6. OneEntryEach(t)
    <3> SUFFICES ASSUME NEW a \in 1..(Len(store) - 1), NEW b \in 1..(Len(store) - 1), t[a].key = t[b].key
                 PROVE  a = b
      BY <2>4 DEF OneEntryEach
    <3> DEFINE from(j) == IF j < i THEN j ELSE j + 1
    <3>1. t[a] = store[from(a)] /\ t[b] = store[from(b)]
      BY <2>3
    <3>2. from(a) \in DOMAIN store /\ from(b) \in DOMAIN store
      BY <2>1, <2>2
    <3>3. from(a) = from(b)
      BY <3>1, <3>2 DEF StoreSound, OneEntryEach
    <3>4. QED
      BY <2>1, <2>2, <3>3
  <2>7. QED
    BY <2>2, <2>3, <2>5, <2>6 DEF t
<1>3. QED
  BY <1>1, <1>2

LEMMA PutKeeps ==
  ASSUME store \in Seq(Entry), StoreSound, redis \in BOOLEAN, Entries \in Nat \ {0}, now \in Nat,
         NEW k \in Key, NEW ttl \in Nat
  PROVE  Put(k, ttl) \in Seq(Entry) /\ Bounded(Put(k, ttl)) /\ OneEntryEach(Put(k, ttl))
<1> DEFINE fresh == [key |-> k, expires |-> IF ttl > 0 THEN now + ttl ELSE 0]
<1>1. fresh \in Entry /\ fresh.key = k
  BY DEF Entry
<1>2. DOMAIN store = 1..Len(store) /\ Len(store) \in Nat /\ \A i \in 1..Len(store) : store[i] \in Entry
  BY LenProperties, ElementOfSeq
<1> HIDE DEF fresh
<1>3. CASE Places(k) # {}
  <2> DEFINE t == [i \in DOMAIN store |-> IF i \in Places(k) THEN fresh ELSE store[i]]
  <2>1. Put(k, ttl) = t
    BY <1>3 DEF Put, fresh
  <2>2. \A i \in DOMAIN store : t[i] \in Entry /\ t[i].key = store[i].key
    BY <1>1, <1>2 DEF Places
  <2>3. t \in [1..Len(store) -> Entry]
    BY <1>2, <2>2
  <2> HIDE DEF t
  <2>4. t \in Seq(Entry) /\ Len(t) = Len(store) /\ DOMAIN t = DOMAIN store
    BY <1>2, <2>3, LenProperties, SeqDef
  <2>5. Bounded(t) /\ OneEntryEach(t)
    BY <2>2, <2>4 DEF StoreSound, Bounded, OneEntryEach
  <2>6. QED
    BY <2>1, <2>4, <2>5
<1>4. CASE Places(k) = {}
  <2> DEFINE rest == IF ~redis /\ Len(store) >= Entries THEN Tail(store) ELSE store
  <2>1. Put(k, ttl) = Append(rest, fresh)
    BY <1>4 DEF Put, fresh
  <2>2. /\ rest \in Seq(Entry) /\ Len(rest) \in Nat /\ (redis \/ Len(rest) + 1 <= Entries)
        /\ OneEntryEach(rest) /\ \A i \in 1..Len(rest) : rest[i].key # k
    <3>1. CASE ~redis /\ Len(store) >= Entries
      <4>1. store # <<>>
        BY <1>2, <3>1, EmptySeq
      <4>2. /\ Tail(store) \in Seq(Entry) /\ Len(Tail(store)) = Len(store) - 1
            /\ \A i \in 1..Len(Tail(store)) : Tail(store)[i] = store[i + 1]
        BY <4>1, HeadTailProperties
      <4>3. Len(store) - 1 \in Nat /\ \A i \in 1..(Len(store) - 1) : i + 1 \in 1..Len(store)
        BY <1>2, <3>1
      <4>4. DOMAIN Tail(store) = 1..(Len(store) - 1)
        BY <4>2, LenProperties
      <4>5. Len(store) <= Entries
        BY <3>1 DEF StoreSound, Bounded
      <4>6. OneEntryEach(Tail(store))
        <5> SUFFICES ASSUME NEW a \in 1..(Len(store) - 1), NEW b \in 1..(Len(store) - 1),
                            Tail(store)[a].key = Tail(store)[b].key
                     PROVE  a = b
          BY <4>4 DEF OneEntryEach
        <5>1. store[a + 1].key = store[b + 1].key /\ a + 1 \in DOMAIN store /\ b + 1 \in DOMAIN store
          BY <1>2, <4>2, <4>3
        <5>2. a + 1 = b + 1
          BY <5>1 DEF StoreSound, OneEntryEach
        <5>3. QED
          BY <5>2
      <4>7. \A i \in 1..(Len(store) - 1) : Tail(store)[i].key # k
        BY <1>2, <1>4, <4>2, <4>3 DEF Places
      <4>8. rest = Tail(store)
        BY <3>1
      <4> HIDE DEF rest
      <4>9. Len(store) - 1 \in Nat /\ (redis \/ Len(store) - 1 + 1 <= Entries)
        BY <1>2, <4>3, <4>5
      <4>10. QED
        BY <4>2, <4>6, <4>7, <4>8, <4>9
    <3>2. CASE ~(~redis /\ Len(store) >= Entries)
      <4>1. rest = store
        BY <3>2
      <4>2. redis \/ Len(store) + 1 <= Entries
        BY <1>2, <3>2
      <4>3. \A i \in 1..Len(store) : store[i].key # k
        BY <1>2, <1>4 DEF Places
      <4>4. QED
        BY <1>2, <4>1, <4>2, <4>3 DEF StoreSound
    <3>3. QED
      BY <3>1, <3>2
  <2> HIDE DEF rest
  <2>3. DOMAIN rest = 1..Len(rest)
    BY <2>2, LenProperties
  <2>4. /\ Append(rest, fresh) \in Seq(Entry) /\ Len(Append(rest, fresh)) = Len(rest) + 1
        /\ \A i \in 1..Len(rest) : Append(rest, fresh)[i] = rest[i]
        /\ Append(rest, fresh)[Len(rest) + 1] = fresh
    BY <1>1, <2>2, AppendProperties
  <2> DEFINE t == Append(rest, fresh)
  <2>5. DOMAIN t = 1..(Len(rest) + 1)
    BY <2>4, LenProperties
  <2>6. OneEntryEach(t)
    <3> SUFFICES ASSUME NEW a \in 1..(Len(rest) + 1), NEW b \in 1..(Len(rest) + 1), t[a].key = t[b].key
                 PROVE  a = b
      BY <2>5 DEF OneEntryEach
    <3> HIDE DEF t
    <3>1. /\ \A i \in 1..Len(rest) : t[i] = rest[i] /\ t[i].key # k
          /\ t[Len(rest) + 1].key = k
      BY <1>1, <2>2, <2>4 DEF t
    <3>2. CASE a \in 1..Len(rest) /\ b \in 1..Len(rest)
      BY <2>2, <2>3, <3>1, <3>2 DEF OneEntryEach
    <3>3. CASE a = Len(rest) + 1 \/ b = Len(rest) + 1
      BY <2>2, <3>1, <3>3
    <3>4. QED
      BY <2>2, <3>2, <3>3
  <2>7. Bounded(t)
    BY <2>2, <2>4 DEF Bounded
  <2>8. QED
    BY <2>1, <2>4, <2>6, <2>7
<1>5. QED
  BY <1>3, <1>4
-----------------------------------------------------------------------------
\* What changes no call and no flight keeps the invariant if the store stays sound.
LEMMA StoreChanges ==
  ASSUME CacheInv, UNCHANGED <<redis, flight, calls>>, now' \in Nat,
         store' \in Seq(Entry), Bounded(store'), OneEntryEach(store')
  PROVE  CacheInv'
<1>1. CacheTypeOK'
  BY DEF CacheInv, CacheTypeOK, Entry
<1>2. CallsSound' /\ FlightsNamed' /\ WaitersNamed'
  BY DEF CacheInv, CallsSound, FlightsNamed, WaitersNamed, Flying
<1>3. StoreSound'
  BY DEF StoreSound, Bounded, OneEntryEach
<1>4. QED
  BY <1>1, <1>2, <1>3 DEF CacheInv

\* A caller who is not upstream, before and after, takes a step of its own.
LEMMA OwnStep ==
  ASSUME CacheInv, NEW c \in Caller, NEW call \in Call,
         calls' = [calls EXCEPT ![c] = call], UNCHANGED <<redis, now, flight>>,
         call.at \notin {"fetch", "set"} /\ calls[c].at \notin {"fetch", "set"},
         call.at # "idle" => call.key \in Key,
         call.at = "await" => call.on \in Caller /\ call.on = flight[call.key],
         call.at # "await" => call.on = NoOne,
         store' \in Seq(Entry), Bounded(store'), OneEntryEach(store')
  PROVE  CacheInv'
<1>1. calls \in [Caller -> Call] /\ calls' \in [Caller -> Call]
  BY DEF CacheInv, CacheTypeOK, Call
<1>2. calls'[c] = call /\ \A d \in Caller \ {c} : calls'[d] = calls[d]
  BY <1>1
<1>3. CacheTypeOK'
  BY <1>1 DEF CacheInv, CacheTypeOK, Call, Entry
<1>4. CallsSound'
  BY <1>2 DEF CacheInv, CallsSound
<1>5. \A k \in Key : Flying(k)' = Flying(k)
  BY <1>2 DEF Flying
<1>6. FlightsNamed'
  BY <1>5 DEF CacheInv, FlightsNamed
<1>7. WaitersNamed'
  BY <1>2 DEF CacheInv, WaitersNamed
<1>8. StoreSound'
  BY DEF StoreSound, Bounded, OneEntryEach
<1>9. QED
  BY <1>3, <1>4, <1>6, <1>7, <1>8 DEF CacheInv

LEMMA CallAt ==
  ASSUME NEW call \in Call, NEW a \in {"get", "hit", "miss", "await", "fetch", "set"}
  PROVE  LET moved == [call EXCEPT !.at = a]
         IN  /\ moved \in Call /\ moved.at = a /\ moved.key = call.key /\ moved.on = call.on
             /\ moved.shares = call.shares /\ moved.shares \in BOOLEAN /\ moved.ttl = call.ttl
BY DEF Call

LEMMA CallWaits ==
  ASSUME NEW call \in Call, NEW d \in Caller
  PROVE  LET waiting == [call EXCEPT !.at = "await", !.on = d]
         IN  waiting \in Call /\ waiting.at = "await" /\ waiting.key = call.key /\ waiting.on = d
BY DEF Call

LEMMA CallTyped == ASSUME CacheInv, NEW c \in Caller PROVE calls[c] \in Call
BY DEF CacheInv, CacheTypeOK, Call

LEMMA StoreTyped ==
  CacheInv => /\ store \in Seq(Entry) /\ StoreSound /\ Bounded(store) /\ OneEntryEach(store)
              /\ redis \in BOOLEAN /\ now \in Nat
BY DEF CacheInv, CacheTypeOK, StoreSound, Entry

LEMMA AskKeeps ==
  ASSUME CacheInv, CacheAssumption, NEW c \in Caller, NEW k \in Key, NEW ttl \in Ttl, NEW shares \in BOOLEAN,
         Ask(c, k, ttl, shares)
  PROVE  CacheInv'
<1> DEFINE call == [at |-> "get", key |-> k, ttl |-> ttl, shares |-> shares, on |-> NoOne]
<1>1. call \in Call
  BY DEF Call, CacheAssumption
<1>2. calls' = [calls EXCEPT ![c] = call] /\ UNCHANGED <<redis, now, flight, store>> /\ calls[c].at = "idle"
  BY DEF Ask
<1>3. call.at = "get" /\ call.key \in Key /\ call.on = NoOne
  OBVIOUS
<1> HIDE DEF call
<1>4. QED
  BY <1>1, <1>2, <1>3, StoreTyped, OwnStep

LEMMA ReadKeeps ==
  ASSUME CacheInv, CacheAssumption, NEW c \in Caller, NEW errs \in BOOLEAN, Read(c, errs)
  PROVE  CacheInv'
<1> DEFINE fresh == {i \in Places(calls[c].key) : ~Expired(store[i])}
           place == IF fresh = {} \/ errs THEN "miss" ELSE "hit"
           call == [calls[c] EXCEPT !.at = place]
<1>1. /\ calls[c].at = "get" /\ calls' = [calls EXCEPT ![c] = call] /\ UNCHANGED <<redis, now, flight>>
      /\ store' = IF fresh = {} THEN Without(calls[c].key) ELSE store
  BY DEF Read
<1>2. place \in {"miss", "hit"}
  OBVIOUS
<1>3. call \in Call /\ call.at = place /\ call.key = calls[c].key /\ call.on = calls[c].on
  <2> HIDE DEF place
  <2>1. place \in {"get", "hit", "miss", "await", "fetch", "set"}
    BY <1>2
  <2>2. QED
    BY <2>1, CallTyped, CallAt
<1>4. call.key \in Key /\ call.on = NoOne
  BY <1>1, <1>3 DEF CacheInv, CallsSound
<1>5. store' \in Seq(Entry) /\ Bounded(store') /\ OneEntryEach(store')
  BY <1>1, StoreTyped, WithoutKeeps DEF CacheAssumption
<1> HIDE DEF call, place
<1>6. QED
  BY <1>1, <1>2, <1>3, <1>4, <1>5, OwnStep

LEMMA HitKeeps ==
  ASSUME CacheInv, NEW c \in Caller, Hit(c)
  PROVE  CacheInv'
<1>1. NoCall \in Call /\ NoCall.at = "idle" /\ NoCall.on = NoOne
  BY DEF NoCall, Call
<1>2. calls' = [calls EXCEPT ![c] = NoCall] /\ UNCHANGED <<redis, now, flight, store>> /\ calls[c].at = "hit"
  BY DEF Hit
<1>3. QED
  BY <1>1, <1>2, StoreTyped, OwnStep

LEMMA JoinFlightKeeps ==
  ASSUME CacheInv, NEW c \in Caller, JoinFlight(c)
  PROVE  CacheInv'
<1> DEFINE k == calls[c].key
           call == [calls[c] EXCEPT !.at = "await", !.on = flight[k]]
<1>1. /\ calls[c].at = "miss" /\ flight[k] # NoOne
      /\ calls' = [calls EXCEPT ![c] = call] /\ UNCHANGED <<redis, now, flight, store>>
  BY DEF JoinFlight
<1>2. k \in Key
  BY <1>1 DEF CacheInv, CallsSound
<1>3. flight[k] \in Caller
  BY <1>1, <1>2 DEF CacheInv, CacheTypeOK
<1>4. call \in Call /\ call.at = "await" /\ call.key = k /\ call.on = flight[k]
  BY <1>3, CallTyped, CallWaits
<1> HIDE DEF call
<1>5. QED
  BY <1>1, <1>2, <1>3, <1>4, StoreTyped, OwnStep

LEMMA FlyKeeps ==
  ASSUME CacheInv, CacheAssumption, NEW c \in Caller, Fly(c)
  PROVE  CacheInv'
<1> DEFINE k == calls[c].key
           call == [calls[c] EXCEPT !.at = "fetch"]
<1>1. /\ calls[c].at = "miss" /\ (calls[c].shares => flight[k] = NoOne)
      /\ calls' = [calls EXCEPT ![c] = call] /\ UNCHANGED <<redis, now, store>>
      /\ flight' = IF calls[c].shares THEN [flight EXCEPT ![k] = c] ELSE flight
  BY DEF Fly, Departs
<1>2. k \in Key /\ calls[c].on = NoOne
  BY <1>1 DEF CacheInv, CallsSound
<1>3. /\ call \in Call /\ call.at = "fetch" /\ call.key = k /\ call.on = NoOne
      /\ call.shares = calls[c].shares /\ calls[c].shares \in BOOLEAN
  BY <1>2, CallTyped, CallAt
<1> HIDE DEF call
<1>4. calls \in [Caller -> Call] /\ calls' \in [Caller -> Call]
  BY <1>1, <1>3 DEF CacheInv, CacheTypeOK, Call
<1>5. calls'[c] = call /\ \A d \in Caller \ {c} : calls'[d] = calls[d]
  BY <1>1, <1>4
<1>6. flight \in [Key -> Caller \union {NoOne}] /\ flight' \in [Key -> Caller \union {NoOne}]
  BY <1>1, <1>2 DEF CacheInv, CacheTypeOK
<1>7. /\ flight'[k] = IF calls[c].shares THEN c ELSE flight[k]
      /\ \A l \in Key \ {k} : flight'[l] = flight[l]
  BY <1>1, <1>2, <1>6
<1>8. CacheTypeOK'
  BY <1>1, <1>4, <1>6 DEF CacheInv, CacheTypeOK, Call
<1>9. CallsSound'
  BY <1>2, <1>3, <1>5 DEF CacheInv, CallsSound
<1>10. \A l \in Key : Flying(l)' = IF l = k /\ calls[c].shares THEN Flying(l) \union {c} ELSE Flying(l)
  BY <1>1, <1>3, <1>5 DEF Flying
<1>11. FlightsNamed'
  BY <1>1, <1>2, <1>7, <1>10 DEF CacheInv, FlightsNamed, CacheAssumption
<1>12. WaitersNamed'
  <2> SUFFICES ASSUME NEW d \in Caller, calls'[d].at = "await" PROVE calls'[d].on = flight'[calls'[d].key]
    BY DEF WaitersNamed
  <2>1. calls'[d] = calls[d]
    BY <1>3, <1>5
  <2>2. calls[d].key \in Key /\ calls[d].on = flight[calls[d].key] /\ calls[d].on # NoOne
    BY <2>1 DEF CacheInv, CallsSound, WaitersNamed, CacheAssumption
  <2>3. QED
    BY <1>1, <1>7, <2>1, <2>2
<1>13. StoreSound'
  BY <1>1 DEF CacheInv, StoreSound, Bounded, OneEntryEach
<1>14. QED
  BY <1>8, <1>9, <1>11, <1>12, <1>13 DEF CacheInv

LEMMA AnsweredKeeps ==
  ASSUME CacheInv, NEW c \in Caller, Answered(c)
  PROVE  CacheInv'
<1> DEFINE call == [calls[c] EXCEPT !.at = "set"]
<1>1. /\ calls[c].at = "fetch" /\ calls' = [calls EXCEPT ![c] = call] /\ UNCHANGED <<redis, now, store, flight>>
  BY DEF Answered
<1>2. call \in Call /\ call.at = "set" /\ call.key = calls[c].key /\ call.on = calls[c].on /\ call.shares = calls[c].shares
  BY CallTyped, CallAt
<1> HIDE DEF call
<1>3. calls \in [Caller -> Call] /\ calls' \in [Caller -> Call]
  BY <1>1, <1>2 DEF CacheInv, CacheTypeOK, Call
<1>4. calls'[c] = call /\ \A d \in Caller \ {c} : calls'[d] = calls[d]
  BY <1>1, <1>3
<1>5. CacheTypeOK' /\ StoreSound'
  BY <1>1, <1>3 DEF CacheInv, CacheTypeOK, Call, StoreSound, Bounded, OneEntryEach
<1>6. CallsSound' /\ WaitersNamed'
  BY <1>1, <1>2, <1>4 DEF CacheInv, CallsSound, WaitersNamed
<1>7. \A k \in Key : Flying(k)' = Flying(k)
  BY <1>1, <1>2, <1>4 DEF Flying
<1>8. FlightsNamed'
  BY <1>1, <1>7 DEF CacheInv, FlightsNamed
<1>9. QED
  BY <1>5, <1>6, <1>8 DEF CacheInv

LEMMA LandKeeps ==
  ASSUME CacheInv, CacheAssumption, NEW c \in Caller, calls[c].at \in {"fetch", "set"}, Land(c),
         store' \in Seq(Entry), Bounded(store'), OneEntryEach(store')
  PROVE  CacheInv'
<1> DEFINE k == calls[c].key
<1>1. /\ calls' = [d \in Caller |-> IF d = c \/ calls[d].on = c THEN NoCall ELSE calls[d]]
      /\ flight' = IF calls[c].shares THEN [flight EXCEPT ![k] = NoOne] ELSE flight
      /\ UNCHANGED <<redis, now>>
  BY DEF Land
<1>2. k \in Key /\ calls[c].shares \in BOOLEAN
  BY CallTyped DEF CacheInv, CallsSound, Call
<1>3. NoCall \in Call /\ NoCall.at = "idle" /\ NoCall.on = NoOne
  BY DEF NoCall, Call
<1>4. calls \in [Caller -> Call] /\ calls' \in [Caller -> Call]
  BY <1>1, <1>3 DEF CacheInv, CacheTypeOK, Call
<1>5. flight \in [Key -> Caller \union {NoOne}] /\ flight' \in [Key -> Caller \union {NoOne}]
  BY <1>1, <1>2 DEF CacheInv, CacheTypeOK
<1>6. /\ flight'[k] = IF calls[c].shares THEN NoOne ELSE flight[k]
      /\ \A l \in Key \ {k} : flight'[l] = flight[l]
  BY <1>1, <1>2, <1>5
<1>7. \A d \in Caller : calls'[d] = calls[d] \/ calls'[d] = NoCall
  BY <1>1
<1>8. CacheTypeOK'
  BY <1>1, <1>4, <1>5 DEF CacheInv, CacheTypeOK, Call, Entry
<1>9. CallsSound'
  BY <1>3, <1>7 DEF CacheInv, CallsSound
\* Who waits for c waits for a flight that c shares.
<1>10. ASSUME NEW d \in Caller, calls[d].on = c
       PROVE  calls[d].at = "await" /\ calls[c].shares /\ calls[d].key = k
  <2>1. calls[d].at = "await" /\ calls[d].key \in Key
    BY <1>10 DEF CacheInv, CallsSound, CacheAssumption
  <2>2. flight[calls[d].key] = c
    BY <1>10, <2>1 DEF CacheInv, WaitersNamed
  <2>3. c \in Flying(calls[d].key)
    BY <2>1, <2>2 DEF CacheInv, FlightsNamed, CacheAssumption
  <2>4. QED
    BY <2>1, <2>3 DEF Flying
<1>11. \A l \in Key : Flying(l)' = Flying(l) \ {c}
  <2> SUFFICES ASSUME NEW l \in Key, NEW d \in Caller
               PROVE  d \in Flying(l)' <=> d \in Flying(l) /\ d # c
    BY DEF Flying
  <2>1. CASE d = c
    BY <1>1, <1>3, <2>1 DEF Flying
  <2>2. CASE d # c /\ calls[d].on = c
    <3>1. calls[d].at = "await" /\ calls'[d] = NoCall
      BY <1>1, <1>10, <2>2
    <3>2. QED
      BY <1>3, <3>1 DEF Flying
  <2>3. CASE d # c /\ calls[d].on # c
    BY <1>1, <2>3 DEF Flying
  <2>4. QED
    BY <2>1, <2>2, <2>3
<1>12. \A l \in Key : c \in Flying(l) <=> l = k /\ calls[c].shares
  BY DEF Flying
<1>13. FlightsNamed'
  <2> SUFFICES ASSUME NEW l \in Key
               PROVE  Flying(l)' = IF flight'[l] = NoOne THEN {} ELSE {flight'[l]}
    BY DEF FlightsNamed
  <2>1. Flying(l) = IF flight[l] = NoOne THEN {} ELSE {flight[l]}
    BY DEF CacheInv, FlightsNamed
  <2>2. CASE l = k /\ calls[c].shares
    <3>1. c \in Flying(l)
      BY <1>12, <2>2
    <3>2. Flying(l) = {c}
      BY <2>1, <3>1
    <3>3. QED
      BY <1>6, <1>11, <2>2, <3>2
  <2>3. CASE ~(l = k /\ calls[c].shares)
    <3>1. c \notin Flying(l) /\ flight'[l] = flight[l]
      BY <1>2, <1>6, <1>12, <2>3
    <3>2. QED
      BY <1>11, <2>1, <3>1
  <2>4. QED
    BY <2>2, <2>3
<1>14. WaitersNamed'
  <2> SUFFICES ASSUME NEW d \in Caller, calls'[d].at = "await" PROVE calls'[d].on = flight'[calls'[d].key]
    BY DEF WaitersNamed
  <2>1. calls'[d] = calls[d] /\ d # c /\ calls[d].on # c
    BY <1>1, <1>3
  <2>2. calls[d].key \in Key /\ calls[d].on = flight[calls[d].key]
    BY <2>1 DEF CacheInv, CallsSound, WaitersNamed
  <2>3. CASE calls[d].key = k /\ calls[c].shares
    <3>1. c \in Flying(k)
      BY <1>2, <1>12, <2>3
    <3>2. flight[k] = c
      BY <1>2, <3>1 DEF CacheInv, FlightsNamed
    <3>3. QED
      BY <2>1, <2>2, <2>3, <3>2
  <2>4. CASE ~(calls[d].key = k /\ calls[c].shares)
    BY <1>2, <1>6, <2>1, <2>2, <2>4
  <2>5. QED
    BY <2>3, <2>4
<1>15. StoreSound'
  BY <1>1 DEF StoreSound, Bounded, OneEntryEach
<1>16. QED
  BY <1>8, <1>9, <1>13, <1>14, <1>15 DEF CacheInv

LEMMA StoredKeeps ==
  ASSUME CacheInv, CacheAssumption, NEW c \in Caller, NEW errs \in BOOLEAN, Stored(c, errs)
  PROVE  CacheInv'
<1>1. calls[c].at = "set" /\ Land(c) /\ store' = IF errs THEN store ELSE Put(calls[c].key, calls[c].ttl)
  BY DEF Stored
<1>2. calls[c].key \in Key /\ calls[c].ttl \in Nat
  BY <1>1, CallTyped DEF CacheInv, CallsSound, Call
<1>3. store' \in Seq(Entry) /\ Bounded(store') /\ OneEntryEach(store')
  BY <1>1, <1>2, StoreTyped, PutKeeps DEF CacheAssumption
<1>4. QED
  BY <1>1, <1>3, LandKeeps

LEMMA CacheKeeps == CacheInv /\ [CacheNext]_cacheVars => CacheInv'
<1> SUFFICES ASSUME CacheInv, [CacheNext]_cacheVars PROVE CacheInv'
  OBVIOUS
<1> USE CacheAssumption
<1>1. ASSUME NEW c \in Caller, Proceeds(c) PROVE CacheInv'
  <2>1. CASE Fails(c)
    BY <2>1, StoreTyped, LandKeeps DEF Fails
  <2>2. QED
    BY <1>1, <2>1, HitKeeps, JoinFlightKeeps, FlyKeeps, AnsweredKeeps, ReadKeeps, StoredKeeps DEF Proceeds
<1>2. ASSUME NEW c \in Caller, NEW k \in Key, NEW ttl \in Ttl, NEW shares \in BOOLEAN, Ask(c, k, ttl, shares)
      PROVE  CacheInv'
  BY <1>2, AskKeeps
<1>3. ASSUME NEW k \in Key, Delete(k) PROVE CacheInv'
  BY <1>3, StoreTyped, WithoutKeeps, StoreChanges DEF Delete, CacheAssumption
<1>4. CASE Tick \/ UNCHANGED cacheVars
  <2>1. UNCHANGED <<redis, flight, calls, store>> /\ now' \in Nat
    BY <1>4, StoreTyped DEF Tick, cacheVars
  <2>2. QED
    BY <2>1, StoreTyped, StoreChanges
<1>5. QED
  BY <1>1, <1>2, <1>3, <1>4 DEF CacheNext

LEMMA CacheStarts == CacheInit => CacheInv
<1> SUFFICES ASSUME CacheInit PROVE CacheInv
  OBVIOUS
<1>1. /\ redis \in BOOLEAN /\ now = 0 /\ store = <<>> /\ flight = [k \in Key |-> NoOne]
      /\ calls = [c \in Caller |-> NoCall]
  BY DEF CacheInit
<1>2. NoCall \in Call /\ NoCall.at = "idle" /\ NoCall.on = NoOne
  BY DEF NoCall, Call
<1>3. store \in Seq(Entry) /\ Len(store) = 0 /\ DOMAIN store = {}
  BY <1>1
<1>4. CacheTypeOK
  BY <1>1, <1>2, <1>3 DEF CacheTypeOK, Entry, Call
<1>5. CallsSound /\ WaitersNamed
  BY <1>1, <1>2 DEF CallsSound, WaitersNamed
<1>6. \A k \in Key : Flying(k) = {} /\ flight[k] = NoOne
  BY <1>1, <1>2 DEF Flying
<1>7. FlightsNamed
  BY <1>6 DEF FlightsNamed
<1>8. Bounded(store)
  BY <1>3, CacheAssumption DEF Bounded, CacheAssumption
<1>9. OneEntryEach(store)
  BY <1>3 DEF OneEntryEach
<1>10. QED
  BY <1>4, <1>5, <1>7, <1>8, <1>9 DEF CacheInv, StoreSound

\* Whatever fails, expires or is dropped, the callers that share a key share
\* its one flight, and the store keeps its bound.
THEOREM FlightsStayShared == CacheSpec => []FlightsShared
BY CacheStarts, CacheKeeps, CacheInvSays, PTL DEF CacheSpec
==============================================================================
