----------------------------- MODULE MCAgentLoop -----------------------------
(* Instances of AgentLoop for TLC. *)
EXTENDS AgentLoop

\* One command of each policy class.
SomeCommands == {[program |-> "other",  complex |-> FALSE],
                 [program |-> "other",  complex |-> TRUE],
                 [program |-> "denied", complex |-> TRUE]}

\* What the reviewers of the console, the TUI and the ACP client can say.
AnyReviewer == ConsoleAnswers(TRUE) \cup {"Stop"}
=============================================================================
