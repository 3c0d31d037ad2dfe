---------------------------- MODULE MCTuiSession -----------------------------
(* Instances of TuiSession for TLC. *)
EXTENDS TuiSession

\* One command of each policy class.
SomeCommands == {[program |-> "other",   complex |-> FALSE],
                 [program |-> "wrapper", complex |-> FALSE],
                 [program |-> "denied",  complex |-> FALSE]}
=============================================================================
