----------------------------- MODULE AskConsole -----------------------------
(* The research console: the panel of the browser (ask-panel.tsx), the        *)
(* streaming route (api/ask/route.ts), the agent's askStream (agent.ts) and   *)
(* the model's stream (llm.ts, streamNdjson and streamSse).  Two wires carry  *)
(* lines that arrive in arbitrary pieces: the model's response, and the       *)
(* route's events.  A line travels as two halves, the second with its newline, *)
(* and a reader stands somewhere in the halves of its wire.                   *)
EXTENDS Naturals, Sequences, SequencesExt, FiniteSets

CONSTANTS
  Token,          \* what a model says piece by piece
  Responses,      \* what a model may stream: sequences of tokens, Junk and Done
  Junk,           \* a malformed line
  Done,           \* the protocol's [DONE] line
  Notice,         \* what the agent says itself when it does not ask the model
  MaxQuestions    \* bound: how often the user asks

\* The route's events that are no tokens.
Controls == {"citations", "done", "error"}

ASSUME ConsoleAssumption ==
  /\ Responses \subseteq Seq(Token \union {Junk, Done}) /\ Token \intersect Controls = {}
  /\ Junk # Done /\ Notice \notin Controls \union {Junk, Done} /\ MaxQuestions \in Nat

VARIABLES
  panel,      \* what the user sees: [streaming, cited, answer, failed]
  asked,      \* how many questions were asked
  server,     \* the route: "off", "retrieving", "fetching", "reading", and then
              \* "closed", or "broken" when it reported an error
  response,   \* what the model says to this question, and Notice without a model
  modelAt,    \* how many halves streamNdjson or streamSse has read of it, and
              \* how many it kept as a partial line: [read, kept]
  sent,       \* the route's events
  panelAt     \* where the panel stands in them

consoleVars == <<panel, asked, server, response, modelAt, sent, panelAt>>

Blank == [streaming |-> FALSE, cited |-> FALSE, answer |-> <<>>, failed |-> FALSE]
Start == [read |-> 0, kept |-> 0]

\* A line at some of its places, in their order.
Picked(lines, places) ==
  [n \in 1..Cardinality(places) |->
     lines[CHOOSE k \in places : Cardinality({j \in places : j <= k}) = n]]

\* Mutant of Kept: the partial line is dropped with its chunk.
KeptNothing(read) == 0

\* lines.pop(): what follows the last newline.
Kept(read) == read % 2

After(at, n) == [read |-> at.read + n, kept |-> Kept(at.read + n)]

\* The lines that the next n halves complete and of which the reader has the
\* first half; the rest of another one does not parse.
Completed(at, n) ==
  {k \in (at.read \div 2 + 1)..((at.read + n) \div 2) : at.read - at.kept < 2 * k - 1}

ConsoleInit ==
  /\ panel = Blank /\ asked = 0 /\ server = "off"
  /\ response = <<>> /\ modelAt = Start /\ sent = <<>> /\ panelAt = Start

\* ask: one question at a time, and a clean panel for it.
AskQuestion ==
  /\ ~panel.streaming /\ asked < MaxQuestions
  /\ asked' = asked + 1
  /\ panel' = [Blank EXCEPT !.streaming = TRUE]
  /\ server' = "retrieving" /\ response' = <<>>
  /\ modelAt' = Start /\ sent' = <<>> /\ panelAt' = Start

\* The route refuses (limit, validation), or the request fails.
TurnAway ==
  /\ panel.streaming /\ server = "retrieving"
  /\ server' = "broken"
  /\ panel' = [panel EXCEPT !.streaming = FALSE, !.failed = TRUE]
  /\ UNCHANGED <<asked, response, modelAt, sent, panelAt>>

Sends(events) == sent' = sent \o events

\* askStream: evidence first.  Without any, or without a model, the agent says
\* so itself.
Retrieve ==
  /\ server = "retrieving"
  /\ \/ server' = "fetching" /\ Sends(<<"citations">>) /\ UNCHANGED <<response, modelAt>>
     \/ /\ server' = "closed" /\ Sends(<<"citations", Notice, "done">>)
        /\ response' = <<Notice>> /\ modelAt' = After(modelAt, 2)
  /\ UNCHANGED <<panel, asked, panelAt>>

\* Retrieval throws, and the route reports it.
RetrieveThrows ==
  /\ server = "retrieving"
  /\ server' = "broken" /\ Sends(<<"error">>)
  /\ UNCHANGED <<panel, asked, response, modelAt, panelAt>>

\* The model answers with a stream.
Fetch ==
  /\ server = "fetching"
  /\ server' = "reading"
  /\ response' \in Responses
  /\ UNCHANGED <<panel, asked, modelAt, sent, panelAt>>

\* A chunk of any length arrives; its tokens are passed on at once, and [DONE]
\* ends the answer.
ReadModel ==
  /\ server = "reading"
  /\ \E n \in 1..(2 * Len(response) - modelAt.read) :
       LET parsed == {k \in Completed(modelAt, n) : response[k] # Junk}
           ends == {k \in parsed : response[k] = Done}
           tokens == {k \in parsed : \A j \in ends : k < j}
       IN  /\ modelAt' = After(modelAt, n)
           /\ Sends(Picked(response, tokens) \o (IF ends = {} THEN <<>> ELSE <<"done">>))
           /\ server' = IF ends = {} THEN "reading" ELSE "closed"
  /\ UNCHANGED <<panel, asked, response, panelAt>>

\* The response ends, in the middle of a line or not: reported as done.
ModelEnds ==
  /\ server = "reading"
  /\ server' = "closed" /\ Sends(<<"done">>)
  /\ UNCHANGED <<panel, asked, response, modelAt, panelAt>>

\* The model refuses or its connection breaks.
ModelFails ==
  /\ server \in {"fetching", "reading"}
  /\ server' = "broken" /\ Sends(<<"error">>)
  /\ UNCHANGED <<panel, asked, response, modelAt, panelAt>>

\* Mutant of Timeout: the timer is cleared once the headers are there.
TimeoutOfHeaders ==
  /\ server = "fetching"
  /\ server' = "broken" /\ Sends(<<"error">>)
  /\ UNCHANGED <<panel, asked, response, modelAt, panelAt>>

\* The timer aborts the request, before the headers or after.
Timeout ==
  /\ server \in {"fetching", "reading"}
  /\ server' = "broken" /\ Sends(<<"error">>)
  /\ UNCHANGED <<panel, asked, response, modelAt, panelAt>>

\* What the panel makes of some events.
Shown(events) ==
  [panel EXCEPT !.cited = @ \/ \E k \in events : sent[k] = "citations",
                !.failed = @ \/ \E k \in events : sent[k] = "error",
                !.answer = @ \o Picked(sent, {k \in events : sent[k] \notin Controls})]

\* The panel reads a chunk.
ReadEvents ==
  /\ panel.streaming
  /\ \E n \in 1..(2 * Len(sent) - panelAt.read) :
       panel' = Shown(Completed(panelAt, n)) /\ panelAt' = After(panelAt, n)
  /\ UNCHANGED <<asked, server, response, modelAt, sent>>

\* The route has closed its stream and all of it was read.
EndOfEvents ==
  /\ panel.streaming /\ server \in {"closed", "broken"} /\ panelAt.read = 2 * Len(sent)
  /\ panel' = [panel EXCEPT !.streaming = FALSE]
  /\ UNCHANGED <<asked, server, response, modelAt, sent, panelAt>>

\* The browser's connection breaks.
EventsBreak ==
  /\ panel.streaming
  /\ panel' = [panel EXCEPT !.streaming = FALSE, !.failed = TRUE]
  /\ UNCHANGED <<asked, server, response, modelAt, sent, panelAt>>

\* The pane is closed and opened again; what still arrives is shown nowhere.
Reopen ==
  /\ panel # Blank
  /\ panel' = Blank
  /\ UNCHANGED <<asked, server, response, modelAt, sent, panelAt>>

ConsoleNext ==
  \/ AskQuestion \/ TurnAway \/ Retrieve \/ RetrieveThrows \/ Fetch \/ ReadModel \/ ModelEnds \/ ModelFails
  \/ Timeout \/ ReadEvents \/ EndOfEvents \/ EventsBreak \/ Reopen

ConsoleSpec == ConsoleInit /\ [][ConsoleNext]_consoleVars

\* The database answers or throws, timers fire, and what was sent is read.  A
\* model may stay silent for ever.
ConsoleFairness ==
  /\ WF_consoleVars(Retrieve \/ RetrieveThrows) /\ WF_consoleVars(Timeout)
  /\ WF_consoleVars(ReadEvents) /\ WF_consoleVars(EndOfEvents)

------------------------------------------------------------------------------
\* The places of what a model says, in the first lines of its response: what is
\* not malformed, up to its [DONE].
Words(lines, most) == {k \in 1..most : lines[k] # Junk /\ \A j \in 1..k : lines[j] # Done}
Said == Picked(response, Words(response, Len(response)))

\* Not all of the model's response was read, and no [DONE] in what was.
CutShort ==
  /\ modelAt.read < 2 * Len(response)
  /\ \A k \in 1..(modelAt.read \div 2) : response[k] # Done

\* agent.ts, llm.ts and ask-panel.tsx: however both wires cut the lines, the
\* answer on screen is always a beginning of what was said to the question
\* that is on screen, and its evidence is there before its first word.
AnswerIsWhatWasSaid ==
  /\ IsPrefix(panel.answer, Said)
  /\ panel.answer # <<>> => panel.cited

\* ask-panel.tsx: an answer that stands there finished and without an error was
\* finished by the route, and is all of it unless the model's own response ended
\* early.
FinishedMeansWhole ==
  (panel # Blank /\ ~panel.streaming /\ ~panel.failed) =>
    server = "closed" /\ (panel.answer = Said \/ CutShort)

AnswersFaithful == AnswerIsWhatWasSaid /\ FinishedMeansWhole

\* llm.ts, streamNdjson and streamSse: a question does not hang: whatever the
\* model does, the panel stops waiting.
AsksEnd == panel.streaming ~> ~panel.streaming
=============================================================================
