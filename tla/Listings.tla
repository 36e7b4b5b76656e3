------------------------------ MODULE Listings ------------------------------
(* Trading pairs and the listings they are taken for (market-repository.ts,   *)
(* ingestion.ts).  Replicas poll the same venue and interleave at every       *)
(* statement; any of them may throw or be killed between two.                 *)
EXTENDS Naturals

CONSTANTS
  Replica,
  Pair,        \* what the venue lists, each with its coin
  LastMoment   \* bound: of the clock

VARIABLES
  moment,
  firstSeen,  \* rows of TradingPair: firstSeenAt by pair
  detected,   \* rows of ExchangeListing: detectedAt by pair
  polls,      \* by replica: [at, left, known, new, now]
  lost        \* history: new pairs whose run ended before their listing

listingVars == <<moment, firstSeen, detected, polls, lost>>

NoPoll == [at |-> "idle", left |-> {}, known |-> {}, new |-> {}, now |-> 0]

ListingsInit ==
  /\ moment = 0 /\ firstSeen = <<>> /\ detected = <<>>
  /\ polls = [r \in Replica |-> NoPoll] /\ lost = {}

Extended(rows, p, date) == [q \in DOMAIN rows \union {p} |-> IF q \in DOMAIN rows THEN rows[q] ELSE date]

\* recordTradingPairs: the rows that exist are looked up in one statement.
LookUp(r, batch) ==
  /\ polls[r].at = "idle"
  /\ polls' = [polls EXCEPT ![r] = [at |-> "write", left |-> batch, known |-> batch \intersect DOMAIN firstSeen,
                                    new |-> {}, now |-> moment]]
  /\ UNCHANGED <<moment, firstSeen, detected, lost>>

\* One upsert after the other; its row, which another replica may have created
\* since, is new if it was not among those looked up.
Upsert(r, p) ==
  /\ polls[r].at = "write" /\ p \in polls[r].left
  /\ firstSeen' = Extended(firstSeen, p, polls[r].now)
  /\ polls' = [polls EXCEPT ![r].left = @ \ {p}, ![r].new = @ \union ({p} \ polls[r].known)]
  /\ UNCHANGED <<moment, detected, lost>>

\* Mutant of List: the listing is dated when it is stored.
ListNow(r, p) ==
  /\ polls[r].at = "write" /\ polls[r].left = {} /\ p \in polls[r].new
  /\ detected' = Extended(detected, p, moment)
  /\ polls' = [polls EXCEPT ![r].new = @ \ {p}]
  /\ UNCHANGED <<moment, firstSeen, lost>>

\* insertListing of a new pair, dated as its row is; a listing that is there
\* keeps its date.
List(r, p) ==
  /\ polls[r].at = "write" /\ polls[r].left = {} /\ p \in polls[r].new
  /\ detected' = Extended(detected, p, firstSeen[p])
  /\ polls' = [polls EXCEPT ![r].new = @ \ {p}]
  /\ UNCHANGED <<moment, firstSeen, lost>>

\* The run is over, by a statement that throws or by the end of the process too.
End(r) ==
  /\ polls[r].at = "write" /\ polls' = [polls EXCEPT ![r] = NoPoll]
  /\ lost' = lost \union (polls[r].new \ DOMAIN detected)
  /\ UNCHANGED <<moment, firstSeen, detected>>

Tick == moment < LastMoment /\ moment' = moment + 1 /\ UNCHANGED <<firstSeen, detected, polls, lost>>

ListingsNext ==
  \/ \E r \in Replica : \/ \E batch \in SUBSET Pair : LookUp(r, batch)
                        \/ \E p \in Pair : Upsert(r, p) \/ List(r, p)
                        \/ End(r)
  \/ Tick

ListingsSpec == ListingsInit /\ [][ListingsNext]_listingVars

------------------------------------------------------------------------------
Polls == [at : {"idle", "write"}, left : SUBSET Pair, known : SUBSET Pair, new : SUBSET Pair, now : Nat]

ListingsTypeOK ==
  /\ moment \in Nat /\ lost \subseteq Pair /\ DOMAIN firstSeen \subseteq Pair /\ DOMAIN detected \subseteq Pair
  /\ polls \in [Replica -> Polls]

\* market-repository.ts "Keep the original detection time": however replicas
\* overlap, a listing has the date at which its pair was first seen by anyone,
\* and every pair has its listing but those that a replica holds or that went
\* with the run that had found them new: nobody finds them new again.
ListingsDated ==
  /\ \A p \in DOMAIN detected : p \in DOMAIN firstSeen /\ detected[p] = firstSeen[p]
  /\ DOMAIN firstSeen \ DOMAIN detected \subseteq lost \union UNION {polls[r].new : r \in Replica}
=============================================================================
