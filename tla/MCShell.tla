------------------------------- MODULE MCShell -------------------------------
(* Instances of Shell for TLC. *)
EXTENDS Shell

CONSTANTS sh, helper

OneHelper == {helper}
=============================================================================
