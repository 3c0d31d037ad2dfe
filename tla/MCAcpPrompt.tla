----------------------------- MODULE MCAcpPrompt -----------------------------
(* Instances of AcpPrompt for TLC. *)
EXTENDS AcpPrompt

CONSTANTS s1, s2

TwoSessions == {s1, s2}
OneSession  == {s1}

\* One command of each policy class.
SomeCommands == {[program |-> "other",   complex |-> FALSE],
                 [program |-> "wrapper", complex |-> FALSE],
                 [program |-> "denied",  complex |-> FALSE]}
=============================================================================
