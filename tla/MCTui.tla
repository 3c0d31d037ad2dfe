-------------------------------- MODULE MCTui --------------------------------
(***************************************************************************)
(* An instance of each part of the terminal UI: the event loop, the        *)
(* animator, the log pane and the prompt. They share no variable: what one *)
(* needs to know of another it models as its environment. It is therefore  *)
(* enough to let one of them, the part, move in each behaviour.            *)
(***************************************************************************)
EXTENDS TuiLoop, TuiAnimator, LogPane, PromptLine

VARIABLE part

tuiVars == <<part, loopVars, animatorVars, paneVars, promptVars>>

\* A command with its observation, and the next one; then a second session.
LogLengths   == <<4, 2>>
TaskEntries  == {"Command", "Observation"}
RestoredLogs == {<<"System">>}

\* Two commands, one the start of the other.
SomeCharacters == {"/", "n", " "}
SomeCommands   == << <<"n">>, <<"n", "n">> >>
WithArguments  == {<<"n">>}

Init ==
    /\ part \in {"loop", "animator", "pane", "prompt"}
    /\ LoopInit /\ AnimatorInit /\ PaneInit /\ PromptInit
    /\ part = "loop" \/ active = CHOOSE s \in Sessions : TRUE
    /\ part = "animator" \/ an = "waiting"

Moves(p, next, others) == part = p /\ next /\ UNCHANGED <<part, others>>

Next ==
    \/ Moves("loop", LoopNext, <<animatorVars, paneVars, promptVars>>)
    \/ Moves("animator", AnimatorNext, <<loopVars, paneVars, promptVars>>)
    \/ Moves("pane", PaneNext, <<loopVars, animatorVars, promptVars>>)
    \/ Moves("prompt", PromptNext, <<loopVars, animatorVars, paneVars>>)

\* A part at rest has no step it must take.
Spec == Init /\ [][Next]_tuiVars /\ LoopFairness /\ AnimatorFairness

\* The types of all parts, with the bounds the code indexes by.
TypeOK == LoopTypeOK /\ AnimatorTypeOK /\ PaneTypeOK /\ PromptTypeOK
=============================================================================
