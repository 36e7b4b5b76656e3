----------------------------- MODULE RealtimeBus -----------------------------
(***************************************************************************)
(* The web process's side of the live updates: the Redis bus, with one     *)
(* subscriber connection per channel and the handlers on it, and the event *)
(* streams that subscribe to every channel in turn and are to unsubscribe  *)
(* when their client leaves.                                               *)
(*                                                                         *)
(* A stream: new -> next/await (per channel) -> open; independently its    *)
(* client leaves, the request's abort event is dispatched, and a send may  *)
(* fail.  A connection: free -> subscribing -> subscribed or broken ->     *)
(* closing -> free.  Reconnects are ioredis's, which subscribes again by   *)
(* itself to what it was subscribed to.                                    *)
(*                                                                         *)
(* What is sent is left out: a handler is fed when it is on the channel's  *)
(* own connection and SUBSCRIBE has not thrown there.  Ghosts: orphans are *)
(* subscriptions whose connection was torn down before it had reported     *)
(* back, starved those that share a connection whose SUBSCRIBE threw, and  *)
(* deaf the streams that will never clean up.                              *)
(***************************************************************************)
EXTENDS Integers, FiniteSets

CONSTANTS
  Streams,
  LastChannel,  \* the channels are 1..LastChannel, in the order of the loop
  Clients,      \* bound: identities for the connections of one channel
  None,         \* no connection
  RedisMayFail

Channels == 1..LastChannel
Connections == Channels \X Clients

ASSUME BusAssumption ==
  /\ LastChannel \in Nat
  /\ None \notin Connections
  /\ RedisMayFail \in BOOLEAN

VARIABLES
  entry,     \* #subscribers: entry[ch] is a connection of channel ch, or None
  state,     \* state[k]: of connection k
  handlers,  \* handlers[k]: the streams whose handler is in k's entry
  stage,     \* stage[s]: "new", "next", "await" or "open"
  at,        \* at[s]: the channel the loop stands at
  waits,     \* waits[s]: the connection that s awaits
  held,      \* held[s]: the channels whose unsubscriber s holds
  gone,      \* the streams whose client has left
  aborted,   \* the streams whose request had its abort event
  closed,    \* the streams whose closed flag is set
  cleanup,   \* cleanup[s]: "no", "running" or "done"
  orphans, starved, deaf

vars == <<entry, state, handlers, stage, at, waits, held, gone, aborted, closed, cleanup,
          orphans, starved, deaf>>
bus == <<entry, state, handlers>>
ghosts == <<orphans, starved, deaf>>

States == {"free", "subscribing", "subscribed", "broken", "closing"}
Stages == {"new", "next", "await", "open"}

Init ==
  /\ entry = [ch \in Channels |-> None]
  /\ state = [k \in Connections |-> "free"]
  /\ handlers = [k \in Connections |-> {}]
  /\ stage = [s \in Streams |-> "new"]
  /\ at = [s \in Streams |-> 1]
  /\ waits = [s \in Streams |-> None]
  /\ held = [s \in Streams |-> {}]
  /\ gone = {} /\ aborted = {} /\ closed = {}
  /\ cleanup = [s \in Streams |-> "no"]
  /\ orphans = {} /\ starved = {} /\ deaf = {}

\* GET /api/stream.
Open(s) ==
  /\ stage[s] = "new"
  /\ stage' = [stage EXCEPT ![s] = "next"]
  /\ UNCHANGED <<bus, at, waits, held, gone, aborted, closed, cleanup, ghosts>>

\* subscribe finds the channel's entry and adds the handler, whatever the
\* state of the connection: one whose SUBSCRIBE threw feeds nobody.
Join(s) ==
  /\ stage[s] = "next" /\ at[s] \in Channels
  /\ entry[at[s]] # None
  /\ handlers' = [handlers EXCEPT ![entry[at[s]]] = @ \cup {s}]
  /\ held' = [held EXCEPT ![s] = @ \cup {at[s]}]
  /\ at' = [at EXCEPT ![s] = @ + 1]
  /\ starved' = IF state[entry[at[s]]] = "broken" THEN starved \cup {<<s, at[s]>>} ELSE starved
  /\ UNCHANGED <<entry, state, stage, waits, gone, aborted, closed, cleanup, orphans, deaf>>

\* subscribe finds none: a new connection goes into the map, and SUBSCRIBE is
\* awaited before the handler is added.
Connect(s) ==
  /\ stage[s] = "next" /\ at[s] \in Channels
  /\ entry[at[s]] = None
  /\ \E k \in Connections :
       /\ k[1] = at[s] /\ state[k] = "free"
       /\ entry' = [entry EXCEPT ![at[s]] = k]
       /\ state' = [state EXCEPT ![k] = "subscribing"]
       /\ waits' = [waits EXCEPT ![s] = k]
  /\ stage' = [stage EXCEPT ![s] = "await"]
  /\ UNCHANGED <<handlers, at, held, gone, aborted, closed, cleanup, ghosts>>

GoOn(s) ==
  /\ stage' = [stage EXCEPT ![s] = "next"]
  /\ at' = [at EXCEPT ![s] = @ + 1]
  /\ waits' = [waits EXCEPT ![s] = None]

\* SUBSCRIBE is answered: the handler goes into the entry that was made for
\* it, which an unsubscriber may have taken out of the map by now.
Subscribed(s) ==
  /\ stage[s] = "await"
  /\ LET k == waits[s] IN
       /\ handlers' = [handlers EXCEPT ![k] = @ \cup {s}]
       /\ IF state[k] = "closing"
          THEN /\ orphans' = orphans \cup {<<s, at[s]>>}
               /\ UNCHANGED state
          ELSE /\ state' = [state EXCEPT ![k] = "subscribed"]
               /\ UNCHANGED orphans
  /\ held' = [held EXCEPT ![s] = @ \cup {at[s]}]
  /\ GoOn(s)
  /\ UNCHANGED <<entry, gone, aborted, closed, cleanup, starved, deaf>>

\* SUBSCRIBE throws, and the stream does without the channel.  The entry stays
\* in the map with those who have joined it, for others to join.
SubscribeFails(s) ==
  /\ RedisMayFail
  /\ stage[s] = "await"
  /\ \/ state[waits[s]] = "closing" /\ UNCHANGED <<state, starved>>
     \/ /\ state[waits[s]] # "closing"
        /\ state' = [state EXCEPT ![waits[s]] = "broken"]
        /\ starved' = starved \cup {<<other, at[s]>> : other \in handlers[waits[s]]}
  /\ GoOn(s)
  /\ UNCHANGED <<entry, handlers, held, gone, aborted, closed, cleanup, orphans, deaf>>

\* The heartbeat starts and the abort listener is attached; an abort that has
\* been dispatched before is not heard.
Listen(s) ==
  /\ stage[s] = "next" /\ at[s] \notin Channels
  /\ stage' = [stage EXCEPT ![s] = "open"]
  /\ deaf' = IF s \in aborted THEN deaf \cup {s} ELSE deaf
  /\ UNCHANGED <<bus, at, waits, held, gone, aborted, closed, cleanup, orphans, starved>>

Leave(s) ==
  /\ stage[s] # "new"
  /\ gone' = gone \cup {s}
  /\ s \notin gone
  /\ UNCHANGED <<bus, stage, at, waits, held, aborted, closed, cleanup, ghosts>>

\* enqueue throws on the stream the client has left.
SendFails(s) ==
  /\ s \in gone \ closed
  /\ closed' = closed \cup {s}
  /\ UNCHANGED <<bus, stage, at, waits, held, gone, aborted, cleanup, ghosts>>

\* Mutant of AbortEvent: the listener sets closed before it calls cleanup.
AbortEventClosing(s) ==
  /\ s \in gone \ aborted
  /\ aborted' = aborted \cup {s}
  /\ closed' = IF stage[s] = "open" THEN closed \cup {s} ELSE closed
  /\ UNCHANGED <<bus, stage, at, waits, held, gone, cleanup, ghosts>>

\* The abort event: cleanup, unless nobody listens or closed is set.
AbortEvent(s) ==
  /\ s \in gone \ aborted
  /\ aborted' = aborted \cup {s}
  /\ IF stage[s] = "open" /\ s \notin closed
     THEN /\ closed' = closed \cup {s}
          /\ cleanup' = [cleanup EXCEPT ![s] = "running"]
          /\ UNCHANGED deaf
     ELSE /\ deaf' = IF stage[s] = "open" THEN deaf \cup {s} ELSE deaf
          /\ UNCHANGED <<closed, cleanup>>
  /\ UNCHANGED <<bus, stage, at, waits, held, gone, orphans, starved>>

\* The channel whose unsubscriber is next.
FirstHeld(s) == {ch \in held[s] : \A other \in held[s] : ch <= other}

\* Mutant of Unsubscribe: the connection goes down with the first to leave.
UnsubscribeAll(s) ==
  /\ cleanup[s] = "running" /\ waits[s] = None
  /\ \E ch \in FirstHeld(s) :
       /\ held' = [held EXCEPT ![s] = @ \ {ch}]
       /\ starved' = starved \ {<<s, ch>>}
       /\ \/ entry[ch] = None /\ UNCHANGED <<bus, waits>>
          \/ /\ entry[ch] # None
             /\ handlers' = [handlers EXCEPT ![entry[ch]] = @ \ {s}]
             /\ entry' = [entry EXCEPT ![ch] = None]
             /\ state' = [state EXCEPT ![entry[ch]] = "closing"]
             /\ waits' = [waits EXCEPT ![s] = entry[ch]]
  /\ UNCHANGED <<stage, at, gone, aborted, closed, cleanup, orphans, deaf>>

\* An unsubscriber looks the channel's entry up again, and takes it out of
\* the map when no handler is left.  What it finds need not be the entry it
\* subscribed with.
Unsubscribe(s) ==
  /\ cleanup[s] = "running" /\ waits[s] = None
  /\ \E ch \in FirstHeld(s) :
       /\ held' = [held EXCEPT ![s] = @ \ {ch}]
       /\ starved' = starved \ {<<s, ch>>}
       /\ \/ entry[ch] = None /\ UNCHANGED <<bus, waits>>
          \/ /\ entry[ch] # None
             /\ handlers' = [handlers EXCEPT ![entry[ch]] = @ \ {s}]
             /\ \/ /\ handlers[entry[ch]] \subseteq {s}
                   /\ entry' = [entry EXCEPT ![ch] = None]
                   /\ state' = [state EXCEPT ![entry[ch]] = "closing"]
                   /\ waits' = [waits EXCEPT ![s] = entry[ch]]
                \/ /\ ~(handlers[entry[ch]] \subseteq {s})
                   /\ UNCHANGED <<entry, state, waits>>
  /\ UNCHANGED <<stage, at, gone, aborted, closed, cleanup, orphans, deaf>>

\* UNSUBSCRIBE is answered, after a SUBSCRIBE on the same connection, or
\* fails: the connection is dropped either way.
Disconnect(s) ==
  /\ cleanup[s] = "running" /\ waits[s] # None
  /\ \A other \in Streams : ~(stage[other] = "await" /\ waits[other] = waits[s])
  /\ state' = [state EXCEPT ![waits[s]] = "free"]
  /\ handlers' = [handlers EXCEPT ![waits[s]] = {}]
  /\ waits' = [waits EXCEPT ![s] = None]
  /\ UNCHANGED <<entry, stage, at, held, gone, aborted, closed, cleanup, ghosts>>

\* Mutant of CleanedUp: the loop ends with the first unsubscriber it awaits.
CleanedUpEarly(s) ==
  /\ cleanup[s] = "running" /\ waits[s] = None
  /\ cleanup' = [cleanup EXCEPT ![s] = "done"]
  /\ UNCHANGED <<bus, stage, at, waits, held, gone, aborted, closed, ghosts>>

CleanedUp(s) ==
  /\ cleanup[s] = "running" /\ waits[s] = None /\ held[s] = {}
  /\ cleanup' = [cleanup EXCEPT ![s] = "done"]
  /\ UNCHANGED <<bus, stage, at, waits, held, gone, aborted, closed, ghosts>>

Subscribe(s) == Join(s) \/ Connect(s) \/ Subscribed(s) \/ SubscribeFails(s) \/ Listen(s)
CleanUp(s) == Unsubscribe(s) \/ Disconnect(s) \/ CleanedUp(s)

Next ==
  \E s \in Streams :
    Open(s) \/ Subscribe(s) \/ Leave(s) \/ SendFails(s) \/ AbortEvent(s) \/ CleanUp(s)

Spec == Init /\ [][Next]_vars

(***************************************************************************)
(* Fairness: the loops go on and Redis answers or throws; an abort event   *)
(* is dispatched when its client has left.  Nobody has to come or leave.   *)
(***************************************************************************)
FairSpec ==
  Spec /\ \A s \in Streams :
            WF_vars(Subscribe(s)) /\ WF_vars(AbortEvent(s)) /\ WF_vars(CleanUp(s))
-----------------------------------------------------------------------------
TypeOK ==
  /\ entry \in [Channels -> Connections \cup {None}]
  /\ \A ch \in Channels : entry[ch] # None => entry[ch][1] = ch
  /\ state \in [Connections -> States]
  /\ handlers \in [Connections -> SUBSET Streams]
  /\ stage \in [Streams -> Stages]
  /\ at \in [Streams -> 1..(LastChannel + 1)]
  /\ waits \in [Streams -> Connections \cup {None}]
  /\ held \in [Streams -> SUBSET Channels]
  /\ gone \subseteq Streams /\ aborted \subseteq gone /\ closed \subseteq gone
  /\ cleanup \in [Streams -> {"no", "running", "done"}]
  /\ orphans \subseteq Streams \X Channels /\ starved \subseteq Streams \X Channels
  /\ deaf \subseteq Streams

\* The map knows every connection that is up: a channel has one, and none
\* stays up that nobody can find to close.
ConnectionsListed ==
  \A k \in Connections : state[k] \notin {"free", "closing"} <=> entry[k[1]] = k

\* redis.ts:133, "Tear the connection down once nobody is listening": a listed
\* connection has a handler, is about to get one, or never was subscribed.
ListedAreUsed ==
  \A ch \in Channels : entry[ch] # None =>
    \/ handlers[entry[ch]] # {}
    \/ state[entry[ch]] = "broken"
    \/ \E s \in Streams : stage[s] = "await" /\ waits[s] = entry[ch]

(***************************************************************************)
(* redis.ts subscribe: who subscribed is fed.  As long as a stream holds   *)
(* its unsubscriber, its handler is on the channel's listed connection,    *)
(* and SUBSCRIBE has been answered there or is being awaited, whatever     *)
(* streams come and go on the same channel.  The exceptions are orphans,   *)
(* whose new connection was torn down, by a stream that joined it and left *)
(* or by another orphan, while SUBSCRIBE was awaited; and the starved, who *)
(* had joined a connection when its SUBSCRIBE threw (redis.ts:124) or did  *)
(* so afterwards.  Nobody starves but there, and no longer than that       *)
(* connection is listed: it goes with its last handler, and who subscribes *)
(* next is fed by a new one.                                               *)
(***************************************************************************)
SubscribersFed ==
  /\ \A s \in Streams : \A ch \in held[s] :
       \/ /\ entry[ch] # None /\ s \in handlers[entry[ch]]
          /\ state[entry[ch]] \in {"subscribing", "subscribed"}
       \/ <<s, ch>> \in orphans \cup starved
  /\ \A s \in Streams, ch \in Channels : <<s, ch>> \in starved =>
       entry[ch] # None /\ s \in handlers[entry[ch]] /\ state[entry[ch]] = "broken"

\* A stream that has cleaned up is on no listed connection.
NothingLeftBehind ==
  \A s \in Streams : cleanup[s] = "done" =>
    \A ch \in Channels : entry[ch] # None => s \notin handlers[entry[ch]]

\* A stream whose client has left cleans up, or is deaf: its abort came before
\* the listener was attached, or a failed send had set closed before it.
LeaversCleanUp == \A s \in Streams : s \in gone ~> cleanup[s] = "done" \/ s \in deaf
=============================================================================
