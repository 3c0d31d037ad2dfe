---------------------------- MODULE MCSessionStore ----------------------------
(* Instances of SessionStore for TLC. *)
EXTENDS SessionStore

CONSTANTS acp, tui, server, worker, user

\* agent-acp with its server thread and its worker, and a TUI or console
\* process, which calls the store from one thread at a time.
TwoProcesses == {acp, tui}
AllThreads   == {server, worker, user}
ProcessOf    == [t \in AllThreads |-> IF t = user THEN tui ELSE acp]
Prompters    == {worker, user}
Managers     == {server, user}
OnlyServer   == {server}
=============================================================================
