----------------------------- MODULE LiveStream -----------------------------
(* The browser's end of the live stream (apps/web/src/lib/use-live-stream.ts): *)
(* an EventSource that retries by itself, and a watchdog that replaces it     *)
(* when nothing was heard for a minute.  Time is counted in periods of the    *)
(* watchdog (15 s); the heartbeat of the server (20 s) is external.           *)
EXTENDS Naturals

CONSTANTS
  StaleAfter,      \* STALE_AFTER_MS in watchdog periods
  HeartbeatAfter   \* a connection that delivers is never silent for longer

ASSUME PeriodAssumption == /\ StaleAfter \in Nat /\ HeartbeatAfter \in Nat
                           /\ HeartbeatAfter < StaleAfter

VARIABLES
  status,    \* what the top bar shows: "connecting", "live", "stale" or "error"
  link,      \* the EventSource: "connecting", "open", "retrying", "failed", or
             \* "mute" when the socket is held open and delivers nothing
  silence    \* watchdog periods since lastMessageAt

streamVars == <<status, link, silence>>

StreamInit == status = "connecting" /\ link = "connecting" /\ silence = 0

Touch == silence' = 0 /\ status' = "live"

Ready == link \in {"connecting", "retrying"} /\ link' = "open" /\ Touch

\* A heartbeat, event, quote, alert or connector frame.
Frame == link = "open" /\ Touch /\ UNCHANGED link

OnError == status' = IF status = "live" THEN "stale" ELSE "error"

\* The connection is lost: the EventSource retries on its own.
Drop == link \in {"connecting", "open", "mute"} /\ link' = "retrying" /\ OnError /\ UNCHANGED silence

\* The server answers with an error status: the EventSource gives up.
Refuse == link \in {"connecting", "retrying"} /\ link' = "failed" /\ OnError /\ UNCHANGED silence

\* A proxy holds the socket open; no event of the EventSource tells.
GoMute == link \in {"connecting", "open"} /\ link' = "mute" /\ UNCHANGED <<status, silence>>

Connect == status' = "connecting" /\ link' = "connecting"

\* Mutant of Watchdog: it only reports and leaves the connection to the EventSource.
WatchdogReporting ==
  /\ link = "open" => silence < HeartbeatAfter
  /\ IF silence >= StaleAfter
     THEN status' = "stale" /\ UNCHANGED <<link, silence>>
     ELSE silence' = silence + 1 /\ UNCHANGED <<status, link>>

\* The interval: lastMessageAt is not moved by connecting, so every later
\* period replaces the connection again until a frame arrives.
Watchdog ==
  /\ link = "open" => silence < HeartbeatAfter
  /\ IF silence >= StaleAfter
     THEN Connect /\ UNCHANGED silence
     ELSE silence' = silence + 1 /\ UNCHANGED <<status, link>>

StreamNext == Ready \/ Frame \/ Drop \/ Refuse \/ GoMute \/ Watchdog

------------------------------------------------------------------------------
\* use-live-stream.ts: however connections fail, and whether or not the
\* browser is told, the stream is live again in the end.
LiveAgain == []<>(status = "live")
=============================================================================
