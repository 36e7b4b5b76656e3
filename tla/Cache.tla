------------------------------- MODULE Cache -------------------------------
(* The response caches (platform/src/cache.ts), Redis's and the bounded one   *)
(* in memory, with the two ways they are used: remember, whose callers share  *)
(* one call of the factory, and the HTTP client's get and set around a        *)
(* request, which do not share.  What is stored is left out; times are ticks. *)
EXTENDS Naturals, Sequences, SequencesExt

CONSTANTS
  Caller,
  Key,
  Entries,     \* #maxEntries
  NoOne,
  Ttl,         \* the times to live asked for; 0: the entry never expires
  LastMoment   \* bound: of the clock

ASSUME CacheAssumption == Entries \in Nat \ {0} /\ NoOne \notin Caller /\ Ttl \subseteq Nat

VARIABLES
  redis,   \* which of the two caches this is
  now,
  store,   \* entries [key, expires] in the order of their insertion
  flight,  \* #inFlight: flight[k] is the caller whose promise it is, or NoOne
  calls    \* callers: [at, key, ttl, shares, on]

cacheVars == <<redis, now, store, flight, calls>>

NoCall == [at |-> "idle", key |-> NoOne, ttl |-> 0, shares |-> FALSE, on |-> NoOne]

CacheInit ==
  /\ redis \in BOOLEAN /\ now = 0 /\ store = <<>>
  /\ flight = [k \in Key |-> NoOne] /\ calls = [c \in Caller |-> NoCall]

Expired(entry) == entry.expires # 0 /\ entry.expires <= now
Places(k) == {i \in DOMAIN store : store[i].key = k}

\* set: an entry that is there keeps its place, a new one drops the oldest of a full store.
Put(k, ttl) ==
  LET entry == [key |-> k, expires |-> IF ttl > 0 THEN now + ttl ELSE 0]
  IN  IF Places(k) # {} THEN [i \in DOMAIN store |-> IF i \in Places(k) THEN entry ELSE store[i]]
      ELSE Append(IF ~redis /\ Len(store) >= Entries THEN Tail(store) ELSE store, entry)

\* #store.delete.
Without(k) == IF Places(k) = {} THEN store ELSE RemoveAt(store, CHOOSE i \in Places(k) : TRUE)

\* remember, or the HTTP client's GET of a cacheable address: the cache is asked first.
Ask(c, k, ttl, shares) ==
  /\ calls[c].at = "idle"
  /\ calls' = [calls EXCEPT ![c] = [at |-> "get", key |-> k, ttl |-> ttl, shares |-> shares, on |-> NoOne]]
  /\ UNCHANGED <<redis, now, store, flight>>

\* get: an expired entry is dropped and as good as none, and so is an error of
\* Redis.  The caller goes on a moment later.
Read(c, errs) ==
  /\ calls[c].at = "get" /\ (errs => redis)
  /\ LET fresh == {i \in Places(calls[c].key) : ~Expired(store[i])}
     IN  /\ store' = IF fresh = {} THEN Without(calls[c].key) ELSE store
         /\ calls' = [calls EXCEPT ![c].at = IF fresh = {} \/ errs THEN "miss" ELSE "hit"]
  /\ UNCHANGED <<redis, now, flight>>

Hit(c) == calls[c].at = "hit" /\ calls' = [calls EXCEPT ![c] = NoCall] /\ UNCHANGED <<redis, now, store, flight>>

\* A miss joins the flight of its key.
JoinFlight(c) ==
  /\ calls[c].at = "miss" /\ calls[c].shares /\ flight[calls[c].key] # NoOne
  /\ calls' = [calls EXCEPT ![c].at = "await", ![c].on = flight[calls[c].key]]
  /\ UNCHANGED <<redis, now, store, flight>>

Departs(c) ==
  /\ calls' = [calls EXCEPT ![c].at = "fetch"]
  /\ flight' = IF calls[c].shares THEN [flight EXCEPT ![calls[c].key] = c] ELSE flight
  /\ UNCHANGED <<redis, now, store>>

\* Mutant of Fly: a caller asks upstream whether or not another one does.
FlyAnyway(c) == calls[c].at = "miss" /\ Departs(c)

\* A miss with no flight of its key becomes one; a request of the HTTP client
\* goes out whoever else asks.
Fly(c) == calls[c].at = "miss" /\ (calls[c].shares => flight[calls[c].key] = NoOne) /\ Departs(c)

Answered(c) ==
  calls[c].at = "fetch" /\ calls' = [calls EXCEPT ![c].at = "set"] /\ UNCHANGED <<redis, now, store, flight>>

\* The flight is over, with a value or without, for all who share it; finally
\* frees the key.
Land(c) ==
  /\ calls' = [d \in Caller |-> IF d = c \/ calls[d].on = c THEN NoCall ELSE calls[d]]
  /\ flight' = IF calls[c].shares THEN [flight EXCEPT ![calls[c].key] = NoOne] ELSE flight
  /\ UNCHANGED <<redis, now>>

Fails(c) == calls[c].at = "fetch" /\ Land(c) /\ UNCHANGED store

\* A value is stored before it is returned; what Redis throws is logged.
Stored(c, errs) ==
  /\ calls[c].at = "set" /\ (errs => redis) /\ Land(c)
  /\ store' = IF errs THEN store ELSE Put(calls[c].key, calls[c].ttl)

\* del, and what invalidate does with one key after the other: with Redis
\* between awaits, in memory in one go.
Delete(k) == store' = Without(k) /\ UNCHANGED <<redis, now, flight, calls>>

Tick == now < LastMoment /\ now' = now + 1 /\ UNCHANGED <<redis, store, flight, calls>>

Proceeds(c) ==
  \/ Hit(c) \/ JoinFlight(c) \/ Fly(c) \/ Answered(c) \/ Fails(c)
  \/ \E errs \in BOOLEAN : Read(c, errs) \/ Stored(c, errs)

CacheNext ==
  \/ \E c \in Caller : Proceeds(c) \/ \E k \in Key, ttl \in Ttl, shares \in BOOLEAN : Ask(c, k, ttl, shares)
  \/ \E k \in Key : Delete(k)
  \/ Tick

CacheSpec == CacheInit /\ [][CacheNext]_cacheVars

\* The store, a factory and a request settle.
CacheFairness == \A c \in Caller : WF_cacheVars(Proceeds(c))

------------------------------------------------------------------------------
CacheTypeOK ==
  /\ redis \in BOOLEAN /\ now \in Nat
  /\ store \in Seq([key : Key, expires : Nat])
  /\ flight \in [Key -> Caller \union {NoOne}]
  /\ calls \in [Caller -> [at : {"idle", "get", "hit", "miss", "await", "fetch", "set"},
                          key : Key \union {NoOne}, ttl : Nat, shares : BOOLEAN,
                          on : Caller \union {NoOne}]]

Flying(k) == {c \in Caller : calls[c].at \in {"fetch", "set"} /\ calls[c].shares /\ calls[c].key = k}

\* cache.ts "The in-flight map collapses concurrent callers for one key onto a
\* single promise": whatever fails, expires or is dropped meanwhile, the
\* callers of remember that are upstream for one key are one; the map names it,
\* and who waits waits for it and no other; the store in memory stays within
\* its bound, one entry to a key.
FlightsShared ==
  /\ \A k \in Key : Flying(k) = IF flight[k] = NoOne THEN {} ELSE {flight[k]}
  /\ \A c \in Caller : calls[c].at = "await" => calls[c].on = flight[calls[c].key]
  /\ redis \/ Len(store) <= Entries
  /\ \A i, j \in DOMAIN store : store[i].key = store[j].key => i = j

\* cache.ts: every caller returns, because a factory that fails frees its key.
CallersReturn == \A c \in Caller : [](calls[c].at = "get" => <>(calls[c].at = "idle"))
=============================================================================
