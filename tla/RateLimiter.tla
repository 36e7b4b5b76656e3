----------------------------- MODULE RateLimiter -----------------------------
(***************************************************************************)
(* One key's token bucket under concurrent acquire, tryAcquire and         *)
(* remaining calls: in the memory of a process, or in Redis, where a Lua   *)
(* script makes refill, check and take one step for all processes.         *)
(*                                                                         *)
(* Tokens are counted in the time they take to refill: a tick refills one, *)
(* a permit costs Permit of them (60_000 / requestsPerMinute ms) and the   *)
(* bucket holds Capacity (burst permits).  A call brings its own reading   *)
(* of the clock; the processes' clocks differ, step, and the reading takes *)
(* time to reach Redis, so where it is used it may be Slack ahead of or    *)
(* behind the time.  How long a refused acquire sleeps is left out: it may *)
(* wake and ask again at any moment.                                       *)
(*                                                                         *)
(* Ghosts: a window opens with any call, and from there spent counts the   *)
(* tokens paid for permits, given what configure refilled and rewound by   *)
(* how much readings have moved the bucket's clock back.  opened is the    *)
(* bucket's clock at the opening.                                          *)
(***************************************************************************)
EXTENDS Integers

CONSTANTS
  Permit,      \* tokens per permit
  Capacity,    \* tokens in a full bucket
  Slack,       \* how far off a reading may be when the bucket sees it
  Margin,      \* the 60_000 ms that PEXPIRE adds to the time of a full refill
  Callers,
  Horizon,     \* bound: when time stops
  MaxGiven,    \* bound: configure refills no more than this in a window
  MaxRewound   \* bound: readings move the bucket back no more than this

ASSUME LimiterAssumption ==
  /\ Permit \in Nat \ {0}
  /\ Capacity \in Nat /\ Capacity >= Permit
  /\ Slack \in Nat
  /\ Margin \in Nat /\ Margin >= 2 * Slack

VARIABLES
  shared,      \* which of the two limiters this is
  time,
  tokens, ts,  \* the bucket: its tokens, and the reading it was refilled at
  exists,      \* an entry for the key was made, and configure did not drop it
  touched,     \* when the script last set the entry's expiry
  at, want,    \* per caller: where it stands, and which method it called
  spent, given, rewound, opened

limiterVars == <<shared, time, tokens, ts, exists, touched, at, want, spent, given, rewound, opened>>
bucket == <<tokens, ts, exists, touched>>
ghosts == <<spent, given, rewound, opened>>

Methods == {"acquire", "tryAcquire", "remaining"}
Places == {"idle", "ask", "asleep"}

LimiterInit ==
  /\ shared \in BOOLEAN
  /\ time = 0
  /\ tokens = Capacity
  /\ ts = 0
  /\ exists = FALSE
  /\ touched = 0
  /\ at = [c \in Callers |-> "idle"]
  /\ want = [c \in Callers |-> "acquire"]
  /\ spent = 0 /\ given = 0 /\ rewound = 0 /\ opened = 0

Call(c) ==
  /\ at[c] = "idle"
  /\ \E m \in Methods : want' = [want EXCEPT ![c] = m]
  /\ at' = [at EXCEPT ![c] = "ask"]
  /\ UNCHANGED <<shared, time, bucket, ghosts>>

Larger(a, b) == IF a >= b THEN a ELSE b
Lesser(a, b) == IF a <= b THEN a ELSE b

\* Mutant of TimeToLive: the entry expires as soon as it could be full.
TimeToLiveBare == Capacity

TimeToLive == Capacity + Margin

\* There is no entry: never made, dropped by configure, or expired in Redis.
Absent == ~exists \/ (shared /\ time - touched >= TimeToLive)

\* A new bucket is full; one whose clock is ahead of the reading gets nothing.
TokensAt(now) ==
  IF Absent THEN Capacity ELSE Lesser(Capacity, tokens + Larger(0, now - ts))

\* #refill returns early when the clock stands or went back; the script
\* stores nowMs whatever it is.
ClockAt(now) == IF Absent \/ shared THEN now ELSE Larger(ts, now)

Cost(c) == IF want[c] = "remaining" THEN 0 ELSE Permit

\* The bucket after a call that comes with this reading, and takes cost.
Store(now, cost) ==
  /\ tokens' = TokensAt(now) - cost
  /\ ts' = ClockAt(now)
  /\ exists' = TRUE
  /\ touched' = time

\* The books after a call that pays for this much, in the window that is
\* open or in one that opens with the call.
Account(now, paid) ==
  \/ /\ spent' = spent + paid
     /\ rewound' = rewound + Larger(0, ts - ClockAt(now))
     /\ rewound' <= MaxRewound
     /\ UNCHANGED <<given, opened>>
  \/ /\ spent' = paid
     /\ given' = 0 /\ rewound' = 0
     /\ opened' = ClockAt(now)

\* A caller's reading of the clock, as the bucket sees it.
Readings == (time - Slack)..(time + Slack)

\* tryAcquire returns false, acquire goes to sleep.
AfterRefusal(c) == IF want[c] = "acquire" THEN "asleep" ELSE "idle"

Granted(c) ==
  /\ at[c] = "ask"
  /\ \E now \in Readings :
       /\ TokensAt(now) >= Cost(c)
       /\ Store(now, Cost(c))
       /\ Account(now, Cost(c))
  /\ at' = [at EXCEPT ![c] = "idle"]
  /\ UNCHANGED <<shared, time, want>>

Refused(c) ==
  /\ at[c] = "ask"
  /\ \E now \in Readings :
       /\ TokensAt(now) < Cost(c)
       /\ Store(now, 0)
       /\ Account(now, 0)
  /\ at' = [at EXCEPT ![c] = AfterRefusal(c)]
  /\ UNCHANGED <<shared, time, want>>

\* The connection breaks and eval throws, after the script has run ...
AnswerLost(c) ==
  /\ shared
  /\ at[c] = "ask"
  /\ \E now \in Readings :
       /\ TokensAt(now) >= Cost(c)
       /\ Store(now, Cost(c))
       /\ Account(now, 0)
  /\ at' = [at EXCEPT ![c] = "idle"]
  /\ UNCHANGED <<shared, time, want>>

\* ... or before.
CallLost(c) ==
  /\ shared
  /\ at[c] = "ask"
  /\ at' = [at EXCEPT ![c] = "idle"]
  /\ UNCHANGED <<shared, time, bucket, want, ghosts>>

Wake(c) ==
  /\ at[c] = "asleep"
  /\ at' = [at EXCEPT ![c] = "ask"]
  /\ UNCHANGED <<shared, time, bucket, want, ghosts>>

\* The signal ends the sleep with an error, or the loop does that woke by
\* itself and looks at the signal.
Abort(c) ==
  /\ at[c] = "asleep"
  /\ at' = [at EXCEPT ![c] = "idle"]
  /\ UNCHANGED <<shared, time, bucket, want, ghosts>>

\* In memory configure drops the bucket, and the next call finds a full one;
\* so does the first call of a restarted process.
Configure ==
  /\ ~shared
  /\ exists
  /\ given + Capacity <= MaxGiven
  /\ exists' = FALSE
  /\ given' = given + Capacity
  /\ UNCHANGED <<shared, time, tokens, ts, touched, at, want, spent, rewound, opened>>

Tick ==
  /\ time < Horizon
  /\ time' = time + 1
  /\ UNCHANGED <<shared, bucket, at, want, ghosts>>

Answer(c) == Granted(c) \/ Refused(c) \/ AnswerLost(c)

LimiterNext ==
  \/ \E c \in Callers : Call(c) \/ Answer(c) \/ CallLost(c) \/ Wake(c) \/ Abort(c)
  \/ Configure
  \/ Tick

LimiterSpec == LimiterInit /\ [][LimiterNext]_limiterVars
-----------------------------------------------------------------------------
LimiterTypeOK ==
  /\ shared \in BOOLEAN
  /\ time \in Nat
  /\ tokens \in 0..Capacity
  /\ ts \in Int
  /\ exists \in BOOLEAN
  /\ touched \in Nat
  /\ at \in [Callers -> Places]
  /\ want \in [Callers -> Methods]
  /\ spent \in Nat /\ given \in Nat /\ rewound \in Nat
  /\ opened \in Int

(***************************************************************************)
(* The limit, in any window: however many callers and processes, nobody is *)
(* granted more than a full bucket and what refills while the window is    *)
(* open, give or take the clocks' error.  What configure refills comes on  *)
(* top, and so does every reading that moves the bucket's clock back: the  *)
(* next one credits that time again.  Entries that expire give nothing.    *)
(***************************************************************************)
GrantsBounded == spent <= Capacity + given + (time - opened) + Slack + rewound
=============================================================================
