------------------------------ MODULE Palette ------------------------------
(* The command palette (components/command-palette.tsx): a search as one      *)
(* types, debounced, whose answers come in any order, and the import of a     *)
(* coin that is not tracked.  The route is external: it answers or fails.     *)
EXTENDS Naturals, FiniteSets

CONSTANTS MaxKeys   \* bound: how often the text changes

VARIABLES
  open,      \* the palette is shown
  text,      \* what is typed: 0 for nothing, else the number of the change
  keys,      \* how often the text changed
  searches,  \* timers and requests: [text, sent, cancelled]
  results,   \* the text whose results are shown, 0 for none
  loading,   \* "Searching" is shown
  busy       \* a coin is being imported

paletteVars == <<open, text, keys, searches, results, loading, busy>>

PaletteInit ==
  /\ open = FALSE /\ text = 0 /\ keys = 0 /\ searches = {} /\ results = 0
  /\ loading = FALSE /\ busy = FALSE

\* The effect's cleanup: timers are cleared, requests run on, cancelled.
CancelAll == {[s EXCEPT !.cancelled = TRUE] : s \in {search \in searches : search.sent}}

\* The keyboard shortcut: the text and the results start empty.
Open ==
  /\ ~open /\ open' = TRUE /\ text' = 0 /\ results' = 0 /\ searches' = CancelAll
  /\ UNCHANGED <<keys, loading, busy>>

\* Escape or a click outside; a search that was shown as loading stays so.
Close == open /\ open' = FALSE /\ searches' = CancelAll /\ UNCHANGED <<text, keys, results, loading, busy>>

\* A change of the text starts a timer; what is shown stays until the answer.
Type ==
  /\ open /\ keys < MaxKeys
  /\ keys' = keys + 1 /\ text' = keys + 1 /\ loading' = TRUE
  /\ searches' = CancelAll \union {[text |-> keys + 1, sent |-> FALSE, cancelled |-> FALSE]}
  /\ UNCHANGED <<open, results, busy>>

\* Nothing is searched for an empty text, and nothing takes `loading` back.
Clear ==
  /\ open /\ text # 0 /\ text' = 0 /\ results' = 0 /\ searches' = CancelAll
  /\ UNCHANGED <<open, keys, loading, busy>>

\* The timer fires, DEBOUNCE_MS after the text changed.
Send(s) ==
  /\ ~s.sent /\ searches' = (searches \ {s}) \union {[s EXCEPT !.sent = TRUE]}
  /\ UNCHANGED <<open, text, keys, results, loading, busy>>

\* Mutant of Answered: whatever arrives is shown.
AnsweredAnyway(s, found) ==
  /\ s.sent /\ searches' = searches \ {s}
  /\ results' = (IF found THEN s.text ELSE 0) /\ loading' = FALSE
  /\ UNCHANGED <<open, text, keys, busy>>

\* then, catch and finally of a request.
Answered(s, found) ==
  /\ s.sent /\ searches' = searches \ {s}
  /\ IF s.cancelled THEN UNCHANGED <<results, loading>>
     ELSE results' = (IF found THEN s.text ELSE 0) /\ loading' = FALSE
  /\ UNCHANGED <<open, text, keys, busy>>

\* choose: a tracked coin is selected at once, another is imported first.
ChooseTracked ==
  /\ open /\ results # 0 /\ ~busy /\ open' = FALSE /\ searches' = CancelAll
  /\ UNCHANGED <<text, keys, results, loading, busy>>
ChooseUntracked ==
  open /\ results # 0 /\ ~busy /\ busy' = TRUE /\ UNCHANGED <<open, text, keys, searches, results, loading>>

\* The import ends: done, it closes the palette, also one opened again since.
Imported(done) ==
  /\ busy /\ busy' = FALSE
  /\ IF done THEN open' = FALSE /\ searches' = CancelAll ELSE UNCHANGED <<open, searches>>
  /\ UNCHANGED <<text, keys, results, loading>>

PaletteNext ==
  \/ Open \/ Close \/ Type \/ Clear \/ ChooseTracked \/ ChooseUntracked
  \/ \E s \in searches : Send(s) \/ \E found \in BOOLEAN : Answered(s, found)
  \/ \E done \in BOOLEAN : Imported(done)

PaletteSpec == PaletteInit /\ [][PaletteNext]_paletteVars

------------------------------------------------------------------------------
\* command-palette.tsx:51 "so results cannot arrive out of order": while the
\* palette is shown, its results are those of the text, or of an earlier one
\* while the search for this one, the only one that may still answer, is under
\* way; without a text there are none.
ResultsMoveForward ==
  /\ open => /\ text = 0 => results = 0
             /\ results <= text
             /\ results \notin {0, text} => \E s \in searches : s.text = text /\ ~s.cancelled
  /\ \A s, t \in searches : ~s.cancelled /\ ~t.cancelled => s = t
=============================================================================
