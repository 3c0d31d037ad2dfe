----------------------------- MODULE Conversation ----------------------------
(***************************************************************************)
(* The vocabulary of a session's conversation (history.hpp, message.hpp):  *)
(* the kinds of message a session stores and what the agent loop lets      *)
(* follow what. The text of a message is abstracted to the one thing the   *)
(* loop reads from it.                                                     *)
(***************************************************************************)
EXTENDS Integers, Sequences

\* What extract_run_command, is_task_completed and has_visible_text make of a
\* reply of the model: no text, no RUN: line, COMPLETE_TASK without or with a
\* conclusion, any other command.
Replies == {"empty", "prose", "bareComplete", "complete", "command"}

Kinds  == {"System", "UserPrompt", "Assistant", "Observation", "HostHint"}
Bodies == Replies \cup {"seed", "prompt", "result", "refusal", "hint"}

Message == [kind : Kinds, body : Bodies]

Seed         == [kind |-> "System",      body |-> "seed"]
UserPrompt   == [kind |-> "UserPrompt",  body |-> "prompt"]
HostHint     == [kind |-> "HostHint",    body |-> "hint"]
Assistant(r) == [kind |-> "Assistant",   body |-> r]
Observed(b)  == [kind |-> "Observation", body |-> b]

\* An Assistant message that makes the loop start a shell.
IsRequest(m) == m.kind = "Assistant" /\ m.body \in {"command", "complete"}

(***************************************************************************)
(* May message m be stored right after message p? An Observation answers a *)
(* command, a HostHint answers a reply without a usable command, the model *)
(* speaks once per turn, and a user prompt may follow anything: a run can  *)
(* end, or the process die, at any point.                                  *)
(***************************************************************************)
MayFollow(m, p) ==
    \/ m.kind = "UserPrompt"
    \/ m.kind = "Assistant" /\ m.body # "empty" /\ p.kind # "Assistant"
    \/ m.kind = "HostHint" /\ p.kind = "Assistant"
                           /\ p.body \in {"prose", "bareComplete"}
    \/ m.kind = "Observation" /\ p = Assistant("command")

\* A sequence of messages the loop can have written.
Grammatical(log) ==
    /\ Len(log) >= 1
    /\ log[1] = Seed
    /\ \A i \in 2 .. Len(log) : MayFollow(log[i], log[i - 1])
=============================================================================
