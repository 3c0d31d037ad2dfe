--------------------------- MODULE ConversationLog ---------------------------
(***************************************************************************)
(* What a session promises, whatever the loop, its threads and its crashes *)
(* do: a durable conversation that only grows, one legal message at a      *)
(* time, and whose requests are run at most once, in order, never before   *)
(* the request is durable and never after a later message was stored.      *)
(* AgentLoop implements this module.                                       *)
(***************************************************************************)
EXTENDS Conversation

VARIABLES log,    \* the durable conversation
          ran     \* positions of log whose command was run, in order

logVars == <<log, ran>>

Started(i) == \E k \in 1 .. Len(ran) : ran[k] = i

Init == log = <<Seed>> /\ ran = <<>>

\* A refusal is only ever stored for a command that did not run.
Say(m) ==
    /\ MayFollow(m, log[Len(log)])
    /\ m = Observed("refusal") => ~Started(Len(log))
    /\ log' = Append(log, m)
    /\ UNCHANGED ran

Run ==
    /\ IsRequest(log[Len(log)])
    /\ ~Started(Len(log))
    /\ ran' = Append(ran, Len(log))
    /\ UNCHANGED log

Next == Run \/ \E m \in Message : Say(m)

Spec == Init /\ [][Next]_logVars
=============================================================================
