----------------------------- MODULE MCAcpServer -----------------------------
(***************************************************************************)
(* An instance of the prompts of agent-acp and one of its sessions. What   *)
(* either needs to know of the other it models as its environment: it is   *)
(* enough to let one of them, the part, move in each behaviour.            *)
(***************************************************************************)
EXTENDS MCAcpPrompt, AcpServer

VARIABLE part

\* Three sessions in two workspaces; any of them may be the next new one.
ThreeIds   == 1..3
TwoFolders == <<"here", "here", "there">>

MCInit ==
    /\ part \in {"prompts", "sessions"}
    /\ Init /\ ServerInit

MCNext ==
    /\ UNCHANGED part
    /\ \/ part = "prompts" /\ Next /\ UNCHANGED serverVars
       \/ part = "sessions" /\ ServerNext /\ UNCHANGED vars

\* A part at rest has no step it must take.
MCSpec == MCInit /\ [][MCNext]_<<part, vars, serverVars>> /\ Fairness

\* The types of both parts.
MCTypeOK == TypeOK /\ ServerTypeOK
=============================================================================
