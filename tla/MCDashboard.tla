---------------------------- MODULE MCDashboard ----------------------------
(* What the browser runs: the list and the stream of the terminal, the        *)
(* research console and the command palette, one at a time.  Nothing the list *)
(* does depends on the stream beyond whether a publication arrives, which     *)
(* Publish leaves open; the other two share no state with anything.           *)
EXTENDS Dashboard, LiveStream, Palette, AskConsole

\* Events 2 and 3 occurred at the same moment; 1 and 3 are one story; 1..3
\* belong to a coin, 2 does not mention the query.
MCOccurredAt == <<1, 2, 2, 3>>
MCCoinOf == <<"btc", "btc", "btc", "eth">>
MCClusterOf == <<"s", "t", "s", "s">>
MCMentioning == {1, 3, 4}
MCBacklogs == {{}, {3, 4}, {1, 3, 4}, {1, 2, 3}}
MCFilters == {NoFilter, [coin |-> "btc", query |-> TRUE]}

\* A model finishes with [DONE] or without, writes garbage, or says nothing.
MCResponses == {<<"a", "b", Done>>, <<"a", Junk, "b">>, <<"a", "b", "c">>, <<>>}

VARIABLE exercised   \* "list", "stream", "console" or "palette"

allVars == <<vars, streamVars, consoleVars, paletteVars, exercised>>

MCInit ==
  /\ Init /\ ConsoleInit /\ PaletteInit
  /\ exercised \in {"list", "stream", "console", "palette"}
  /\ exercised # "list" => stored = {}
  /\ exercised = "list" => stored # {}
  /\ IF exercised = "stream" THEN StreamInit ELSE status = "live" /\ link = "open" /\ silence = 0

ListStep(A) == exercised = "list" /\ A /\ UNCHANGED <<streamVars, consoleVars, paletteVars, exercised>>
StreamStep(A) == exercised = "stream" /\ A /\ UNCHANGED <<vars, consoleVars, paletteVars, exercised>>
ConsoleStep(A) == exercised = "console" /\ A /\ UNCHANGED <<vars, streamVars, paletteVars, exercised>>

MCNext ==
  \/ ListStep(Next) \/ StreamStep(StreamNext) \/ ConsoleStep(ConsoleNext)
  \/ exercised = "palette" /\ PaletteNext /\ UNCHANGED <<vars, streamVars, consoleVars, exercised>>

\* As in Dashboard and AskConsole; of the stream: the heartbeats, the watchdog's
\* interval, and a server that accepts a connection now and then.
MCFairness ==
  /\ WF_allVars(ListStep(LoadMore))
  /\ SF_allVars(ListStep(\E request \in requests : ~request.first /\ Answer(request)))
  /\ SF_allVars(ListStep(\E request \in requests : ~request.first /\ Arrive(request)))
  /\ WF_allVars(ListStep(\E request \in requests :
                   request.first /\ (Arrive(request) \/ Fail(request))))
  /\ WF_allVars(StreamStep(Frame)) /\ WF_allVars(StreamStep(Watchdog)) /\ SF_allVars(StreamStep(Ready))
  /\ WF_allVars(ConsoleStep(Retrieve \/ RetrieveThrows)) /\ WF_allVars(ConsoleStep(Timeout))
  /\ WF_allVars(ConsoleStep(ReadEvents)) /\ WF_allVars(ConsoleStep(EndOfEvents))

MCSpec == MCInit /\ [][MCNext]_allVars /\ MCFairness
=============================================================================
