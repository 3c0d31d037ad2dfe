------------------------ MODULE CommandAuthorization ------------------------
(***************************************************************************)
(* What happens to a shell command the model asked for before it may run:  *)
(* the policy classifies it (command_policy.cpp) and authorize_command     *)
(* (command_authorization.cpp) turns the class into a decision, asking a   *)
(* reviewer when one is needed and present.                                *)
(*                                                                         *)
(* A command is abstracted to what the policy looks at: the class of its   *)
(* first token and whether it holds shell metacharacters.                  *)
(***************************************************************************)

Programs      == {"none", "denied", "wrapper", "other"}
CommandShapes == [program : Programs, complex : BOOLEAN]

Decisions == {"Approve", "Reject", "Stop"}

(***************************************************************************)
(* The order of the tests is the program's: a denied program is denied     *)
(* even when its command line is complex.                                  *)
(***************************************************************************)
EvaluatePolicy(c) ==
    IF c.program = "denied" THEN "Deny"
    ELSE IF c.complex \/ c.program \in {"none", "wrapper"}
         THEN "RequireReview" ELSE "Allow"

NeedsReview(c, reviewAll) == EvaluatePolicy(c) = "RequireReview" \/ reviewAll

(***************************************************************************)
(* The decisions authorize_command can return. answers is what the         *)
(* reviewer may say; no reviewer is the empty set.                         *)
(***************************************************************************)
AuthorizeCommand(c, reviewAll, answers) ==
    IF EvaluatePolicy(c) = "Deny" THEN {"Reject"}
    ELSE IF ~NeedsReview(c, reviewAll) THEN {"Approve"}
    ELSE IF answers = {} THEN {"Reject"} ELSE answers

\* review_console_command: y or n at a terminal, Reject without one or at EOF.
ConsoleAnswers(interactive) ==
    IF interactive THEN {"Approve", "Reject"} ELSE {"Reject"}
=============================================================================
