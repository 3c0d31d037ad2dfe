------------------------------ MODULE PromptLine ------------------------------
(***************************************************************************)
(* The prompt of the TUI: the text and its cursor, the history of prompts  *)
(* (prompt_history.cpp), the suggestions for slash commands                *)
(* (slash_suggest.cpp, slash_registry.cpp) and the keys that go to one or  *)
(* the other (tui.cpp). Everything belongs to the UI thread, one key is    *)
(* one step. FTXUI's Input, which edits the text and calls on_change when  *)
(* it did, is external. A text is a sequence of characters, a command the  *)
(* sequence of its name; what it does is TuiLoop's.                        *)
(***************************************************************************)
EXTENDS SequencesExt, Integers

CONSTANTS
    Characters,   \* what can be typed, " " and "/" among it
    Commands,     \* the registered names, in their order, none twice
    TakesArgs,    \* the names whose usage goes on after the name
    MaxTyped,     \* bound: characters of a text that grows by hand
    MaxText,      \* bound: characters of a text that grows by a completion
    MaxEntries    \* bound: prompts in the history

ASSUME PromptAssumption ==
    /\ {" ", "/"} \subseteq Characters
    /\ Commands \in Seq(Seq(Characters)) /\ TakesArgs \subseteq Range(Commands)
    /\ {MaxTyped, MaxText, MaxEntries} \subseteq Nat

VARIABLES
    text, cursor,   \* task_input, input_cursor
    typed,          \* history: the text the user made, as it was last
    entries,        \* PromptHistory::entries_
    index, draft,   \* PromptHistory::index_, 0 if none, and draft_
    suggest,        \* slash_suggest
    chosen,         \* the selected one of them, 0 if none
    armed,          \* idle_ctrl_c_armed
    inPrompt,       \* active_pane = ActivePane::Prompt
    busy            \* session.running()

history    == <<entries, index, draft>>
suggestion == <<suggest, chosen>>
promptVars == <<text, cursor, typed, history, suggestion, armed, inPrompt, busy>>

\* The names on offer are those at the positions matches of Commands.
Closed == [open |-> FALSE, first |-> 0, last |-> 0, matches |-> {}]

PromptInit ==
    /\ text = <<>> /\ cursor = 0 /\ typed = <<>>
    /\ entries = <<>> /\ index = 0 /\ draft = <<>>
    /\ suggest = Closed /\ chosen = 0
    /\ armed = FALSE /\ inPrompt = TRUE /\ busy = FALSE

-----------------------------------------------------------------------------
(***************************************************************************)
(* Slash commands and their suggestions.                                   *)
(***************************************************************************)
\* trim, and the token at the start of a line.
Trim(t) ==
    LET inner == {i \in DOMAIN t : t[i] # " "}
    IN  IF inner = {} THEN <<>> ELSE SubSeq(t, Min(inner), Max(inner))

IsSlashLine(t) == LET line == Trim(t) IN line # <<>> /\ line[1] = "/"

\* find_token_at_cursor: the maximal run without a blank around the character
\* at the cursor or, failing that, the one before it.
TokenAt(t, c) ==
    LET here  == {i \in {c + 1} \cap DOMAIN t : t[i] # " "}
        left  == {i \in {c} \cap DOMAIN t : t[i] # " "}
        probe == IF here # {} THEN here ELSE left
        run(a, b) == \A i \in a..b : t[i] # " "
    IN  IF probe = {} THEN <<>>
        ELSE LET p == CHOOSE i \in probe : TRUE
             IN  <<Min({a \in 1..p : run(a, p)}),
                   Max({b \in p..Len(t) : run(p, b)})>>

\* evaluate_slash_suggest: the commands the token may become.
Evaluate(t, c) ==
    LET token == TokenAt(t, c)
        prefix == SubSeq(t, token[1] + 1, token[2])
        matches == {i \in DOMAIN Commands : IsPrefix(prefix, Commands[i])}
    IN  IF token = <<>> \/ t[token[1]] # "/" \/ matches = {} THEN Closed
        ELSE [open |-> TRUE, first |-> token[1], last |-> token[2],
              matches |-> matches]

\* refresh_slash_suggest, called after every edit: the same name stays chosen.
RefreshSuggest(t, c) ==
    LET next == Evaluate(t, c)
    IN  /\ suggest' = next
        /\ chosen' = IF chosen \in next.matches THEN chosen
                     ELSE IF next.open THEN Min(next.matches) ELSE 0

Close == suggest' = Closed /\ chosen' = 0

SuggestOpen == suggest.open /\ ~busy /\ inPrompt

\* apply_slash_completion and the cursor after it.
Complete ==
    LET name == Commands[chosen]
        insertion == <<"/">> \o name
                     \o (IF name \in TakesArgs THEN <<" ">> ELSE <<>>)
    IN  SubSeq(text, 1, suggest.first - 1) \o insertion
        \o SubSeq(text, suggest.last + 1, Len(text))

-----------------------------------------------------------------------------
(***************************************************************************)
(* The history.                                                            *)
(***************************************************************************)
CancelNavigation == index' = 0 /\ draft' = <<>>

Record(prompt) ==
    /\ entries' = IF entries # <<>> /\ Last(entries) = prompt
                  THEN entries ELSE Append(entries, prompt)
    /\ CancelNavigation

SetText(t) == text' = t /\ cursor' = Len(t)

\* The user made the text what it now is.
ByUser == typed' = text'

-----------------------------------------------------------------------------
(***************************************************************************)
(* The keys. Each but Ctrl+C disarms it.                                   *)
(***************************************************************************)
Key == armed' = FALSE /\ UNCHANGED busy

Insert(c) ==
    /\ ~busy /\ inPrompt /\ Len(text) < MaxTyped
    /\ CancelNavigation
    /\ text' = SubSeq(text, 1, cursor) \o <<c>>
               \o SubSeq(text, cursor + 1, Len(text))
    /\ cursor' = cursor + 1
    /\ RefreshSuggest(text', cursor') /\ ByUser
    /\ Key /\ UNCHANGED <<entries, inPrompt>>

\* Backspace and Delete: on_change only if there was something to erase.
Erase ==
    /\ ~busy /\ inPrompt
    /\ CancelNavigation
    /\ \E i \in {cursor, cursor + 1} :
          IF i \in DOMAIN text
          THEN /\ text' = RemoveAt(text, i) /\ cursor' = i - 1
               /\ RefreshSuggest(text', cursor')
          ELSE UNCHANGED <<text, cursor, suggestion>>
    /\ ByUser
    /\ Key /\ UNCHANGED <<entries, inPrompt>>

\* Left and Right: no on_change.
MoveCursor ==
    /\ ~busy /\ inPrompt
    /\ cursor' \in {cursor - 1, cursor + 1} \cap 0..Len(text)
    /\ Key /\ UNCHANGED <<text, typed, history, suggestion, inPrompt>>

\* Up and Down in the list of suggestions.
ChooseSuggestion ==
    /\ SuggestOpen
    /\ chosen' \in suggest.matches \ {chosen}
    /\ \A i \in suggest.matches : ~(chosen < i /\ i < chosen')
                               /\ ~(chosen' < i /\ i < chosen)
    /\ Key /\ UNCHANGED <<text, cursor, typed, history, suggest, inPrompt>>

\* Tab or Enter on a suggestion.
ApplySuggestion ==
    /\ SuggestOpen /\ Len(Complete) <= MaxText
    /\ SetText(Complete) /\ ByUser
    /\ Close /\ CancelNavigation
    /\ Key /\ UNCHANGED <<entries, inPrompt>>

CloseSuggestion ==
    /\ SuggestOpen
    /\ Close
    /\ Key /\ UNCHANGED <<text, cursor, typed, history, inPrompt>>

\* Mutant: the suggestions of the text that is replaced stay open.
PreviousUnclosed ==
    /\ ~busy /\ inPrompt /\ entries # <<>>
    /\ draft' = IF index = 0 THEN text ELSE draft
    /\ index' = IF index = 0 THEN Len(entries) ELSE Max({index - 1, 1})
    /\ SetText(entries[index'])
    /\ Key /\ UNCHANGED <<typed, entries, suggestion, inPrompt>>

\* Up and Down otherwise.
Previous ==
    /\ ~busy /\ inPrompt /\ ~SuggestOpen /\ entries # <<>>
    /\ draft' = IF index = 0 THEN text ELSE draft
    /\ index' = IF index = 0 THEN Len(entries) ELSE Max({index - 1, 1})
    /\ SetText(entries[index']) /\ Close
    /\ Key /\ UNCHANGED <<typed, entries, inPrompt>>

NextEntry ==
    /\ ~busy /\ inPrompt /\ ~SuggestOpen /\ index # 0
    /\ IF index < Len(entries)
       THEN index' = index + 1 /\ SetText(entries[index']) /\ UNCHANGED draft
       ELSE CancelNavigation /\ SetText(draft)
    /\ Close
    /\ Key /\ UNCHANGED <<typed, entries, inPrompt>>

\* Tab without suggestions: the panes.
SwitchPane ==
    /\ ~busy /\ ~SuggestOpen
    /\ inPrompt' = ~inPrompt
    /\ IF inPrompt THEN Close ELSE UNCHANGED suggestion
    /\ Key /\ UNCHANGED <<text, cursor, typed, history>>

\* Enter on a slash command, known or not: dispatch handles it.
EnterCommand ==
    /\ ~busy /\ inPrompt /\ ~SuggestOpen /\ IsSlashLine(text)
    /\ Close /\ SetText(<<>>) /\ ByUser
    /\ Key /\ UNCHANGED <<history, inPrompt>>

\* Enter on a prompt; session.start refuses a blank one.
EnterPrompt ==
    /\ ~busy /\ inPrompt /\ ~SuggestOpen /\ ~IsSlashLine(text)
    /\ Len(entries) < MaxEntries
    /\ Close
    /\ IF Trim(text) = <<>>
       THEN UNCHANGED <<text, cursor, typed, history, busy>>
       ELSE Record(text) /\ SetText(<<>>) /\ ByUser /\ busy' = TRUE
    /\ armed' = FALSE
    /\ UNCHANGED inPrompt

\* Ctrl+C clears the prompt the first time; the second one is the exit.
CtrlC ==
    /\ ~busy /\ ~(text = <<>> /\ armed)
    /\ SetText(<<>>) /\ ByUser
    /\ Close /\ CancelNavigation
    /\ armed' = TRUE
    /\ UNCHANGED <<entries, inPrompt, busy>>

EscapePrompt ==
    /\ ~busy /\ ~SuggestOpen
    /\ IF inPrompt
       THEN SetText(<<>>) /\ ByUser /\ Close /\ CancelNavigation
       ELSE UNCHANGED <<text, cursor, typed, index, draft, suggestion>>
    /\ inPrompt' = TRUE
    /\ Key /\ UNCHANGED entries

BusyEnds ==
    /\ busy
    /\ busy' = FALSE
    /\ UNCHANGED <<text, cursor, typed, history, suggestion, armed, inPrompt>>

PromptNext ==
    \/ \E c \in Characters : Insert(c)
    \/ Erase \/ MoveCursor \/ ChooseSuggestion \/ ApplySuggestion
    \/ CloseSuggestion \/ Previous \/ NextEntry \/ SwitchPane \/ EnterCommand
    \/ EnterPrompt \/ CtrlC \/ EscapePrompt \/ BusyEnds

PromptSpec == PromptInit /\ [][PromptNext]_promptVars

-----------------------------------------------------------------------------
\* The types, with the bounds the code indexes by.
PromptTypeOK ==
    /\ {text, typed, draft} \cup Range(entries) \subseteq Seq(Characters)
    /\ cursor \in 0..Len(text)
    /\ index \in 0..Len(entries)
    /\ suggest.open => chosen \in suggest.matches
    /\ {armed, inPrompt, busy} \subseteq BOOLEAN
    /\ suggest.open => inPrompt /\ ~busy

(***************************************************************************)
(* Browsing the history costs the user nothing: the text he was writing is *)
(* the draft and the prompt shows the very entry of the index, or he is    *)
(* back at his text - whatever edits, completions, commands and submitted  *)
(* prompts came in between. Slash commands are no entries. And what an     *)
(* open list of suggestions would replace is a token of the present text,  *)
(* by a command that goes on from it.                                      *)
(***************************************************************************)
PromptIsKept ==
    /\ IF index = 0 THEN text = typed
                    ELSE text = entries[index] /\ draft = typed
    /\ \A e \in Range(entries) : ~IsSlashLine(e) /\ Trim(e) # <<>>
    /\ suggest.open => \E c \in 0..Len(text) : suggest = Evaluate(text, c)
=============================================================================
