-------------------------------- MODULE Shell --------------------------------
(***************************************************************************)
(* One call of run_shell (shell.cpp): the worker thread that forks a shell *)
(* and reads its output, the processes of the command, the pipe between    *)
(* them and a stop request at any time.                                    *)
(*                                                                         *)
(* The kernel and the command are external. A command may do what shell    *)
(* commands do: write, start a process in the background, leave the        *)
(* process group, ignore SIGTERM, close its output and live on, exit or be *)
(* killed. A process that was sent a signal it does not ignore does        *)
(* nothing more and dies soon: uninterruptible sleep is left out, and so   *)
(* are writes to a pipe whose reader is gone.                              *)
(*                                                                         *)
(* Output is counted in units, of which a read takes up to ReadSize. EINTR *)
(* repeats a call and is no step.                                          *)
(***************************************************************************)
EXTENDS Integers

CONSTANTS
    Leader,       \* the shell, child of run_shell
    Helpers,      \* processes it may start
    MaxBytes,     \* kMaxBytes
    ReadSize,     \* the size of buf
    PipeSize,     \* what the kernel's pipe holds
    MaxWritten    \* bound: units the command writes

ASSUME ProcessesAssumption == Leader \notin Helpers
ASSUME SizesAssumption ==
    /\ MaxBytes \in Nat /\ MaxWritten \in Nat
    /\ ReadSize \in Nat \ {0} /\ PipeSize \in Nat \ {0}

Procs == {Leader} \cup Helpers

VARIABLES
    pc,         \* where run_shell is
    stop,       \* the StopToken's flag
    phase,      \* termination_requested, force_kill_at and force_killed
    output,     \* result.output, its length
    truncated,  \* result.truncated
    error,      \* result.error_message: the call it names, "none" if empty
    result,     \* result.termination
    writeEnd,   \* run_shell has its copy of the pipe's write end open
    buffer,     \* what is in the pipe
    written,    \* what the command has written so far
    life,       \* per process "none", "alive", "dead" (Leader: zombie), "reaped"
    group,      \* its process group: run_shell's, the command's "own", "left"
    holders,    \* the processes whose output is the pipe
    deaf,       \* the processes that ignore SIGTERM
    sent,       \* per process the strongest signal it was sent
    end         \* how Leader ended: exit code 0, another, or a signal

vars == <<pc, stop, phase, output, truncated, error, result, writeEnd, buffer,
          written, life, group, holders, deaf, sent, end>>

answer  == <<output, truncated, error, result>>
command == <<written, life, group, holders, deaf, end>>

Init ==
    /\ pc = "start" /\ stop = FALSE /\ phase = "calm"
    /\ output = 0 /\ truncated = FALSE /\ error = "none" /\ result = "Unknown"
    /\ writeEnd = FALSE /\ buffer = 0 /\ written = 0
    /\ life = [p \in Procs |-> "none"] /\ group = [p \in Procs |-> "caller"]
    /\ holders = {} /\ deaf = {} /\ sent = [p \in Procs |-> "none"]
    /\ end = "none"

-----------------------------------------------------------------------------
(***************************************************************************)
(* run_shell up to its loop.                                               *)
(***************************************************************************)
\* An empty command, or a stop before the start.
Refuse ==
    /\ pc = "start"
    /\ error' = "empty" \/ (stop /\ error' = "cancelled")
    /\ result' = "ExecutionError"
    /\ pc' = "done"
    /\ UNCHANGED <<stop, phase, output, truncated, writeEnd, buffer, command,
                   sent>>

ChecksToken ==
    /\ pc = "start" /\ ~stop
    /\ pc' = "forking"
    /\ UNCHANGED <<stop, phase, answer, writeEnd, buffer, command, sent>>

\* pipe, fcntl, open of /dev/null or fork fails.
StartFails ==
    /\ pc = "forking"
    /\ error' = "start" /\ result' = "ExecutionError" /\ pc' = "done"
    /\ UNCHANGED <<stop, phase, output, truncated, writeEnd, buffer, command,
                   sent>>

Fork ==
    /\ pc = "forking"
    /\ life' = [life EXCEPT ![Leader] = "alive"]
    /\ holders' = {Leader} /\ writeEnd' = TRUE
    /\ pc' = "forked"
    /\ UNCHANGED <<stop, phase, answer, buffer, written, group, deaf, sent, end>>

\* Mutant: the write end stays open.
ParentSetupKeepsEnd ==
    /\ pc = "forked"
    /\ group' = [group EXCEPT ![Leader] = "own"]
    /\ pc' = "loop"
    /\ UNCHANGED <<stop, phase, answer, writeEnd, buffer, written, life,
                   holders, deaf, sent, end>>

\* The write end is closed; setpgid, which the child may have done first. A
\* setpgid that fails for another reason cannot occur for a fresh child.
ParentSetup ==
    /\ pc = "forked"
    /\ writeEnd' = FALSE
    /\ group' = [group EXCEPT ![Leader] = "own"]
    /\ pc' = "loop"
    /\ UNCHANGED <<stop, phase, answer, buffer, written, life, holders, deaf,
                   sent, end>>

-----------------------------------------------------------------------------
(***************************************************************************)
(* The loop: signals, poll, read.                                          *)
(***************************************************************************)
Members == {p \in Procs : life[p] \in {"alive", "dead"} /\ group[p] = "own"}

\* Mutant: the signal goes to the shell only.
SignalLeader(s) == sent' = [sent EXCEPT ![Leader] = s]

\* signal_process_group: the command's group, or the child if there is none.
Signal(s) ==
    LET targets == IF Members = {} THEN {Leader} ELSE Members
    IN sent' = [p \in Procs |-> IF p \in targets /\ sent[p] # "KILL" THEN s
                                                                ELSE sent[p]]

\* Mutant: the force-kill time is set and never looked at.
SendSignalsNoKill ==
    /\ pc = "loop"
    /\ IF stop /\ phase = "calm" THEN Signal("TERM") /\ phase' = "term"
                                 ELSE UNCHANGED <<phase, sent>>
    /\ pc' = "poll"
    /\ UNCHANGED <<stop, answer, writeEnd, buffer, command>>

\* SIGTERM at the first look after the stop, SIGKILL once the grace is over.
SendSignals ==
    /\ pc = "loop"
    /\ \/ stop /\ phase = "calm" /\ Signal("TERM") /\ phase' = "term"
       \/ phase = "overdue" /\ Signal("KILL") /\ phase' = "killed"
       \/ ~(stop /\ phase = "calm") /\ phase # "overdue"
          /\ UNCHANGED <<phase, sent>>
    /\ pc' = "poll"
    /\ UNCHANGED <<stop, answer, writeEnd, buffer, command>>

\* kTerminationGrace after SIGTERM.
GraceEnds ==
    /\ phase = "term"
    /\ phase' = "overdue"
    /\ UNCHANGED <<pc, stop, answer, writeEnd, buffer, command, sent>>

Open == holders # {} \/ writeEnd

\* 50 ms without output.
PollTimesOut ==
    /\ pc = "poll" /\ buffer = 0 /\ Open
    /\ pc' = "loop"
    /\ UNCHANGED <<stop, phase, answer, writeEnd, buffer, command, sent>>

\* Mutant: the output that just fits is called truncated.
ReadsOffByOne ==
    /\ pc = "poll" /\ buffer > 0
    /\ \E n \in 1 .. ReadSize :
          /\ n <= buffer
          /\ buffer' = buffer - n
          /\ output' = IF truncated \/ output + n >= MaxBytes THEN MaxBytes
                                                              ELSE output + n
          /\ truncated' = (truncated \/ output + n >= MaxBytes)
    /\ pc' = "loop"
    /\ UNCHANGED <<stop, phase, error, result, writeEnd, command, sent>>

\* Mutant: the output is not cut to kMaxBytes.
ReadsWithoutResize ==
    /\ pc = "poll" /\ buffer > 0
    /\ \E n \in 1 .. ReadSize :
          /\ n <= buffer
          /\ buffer' = buffer - n
          /\ output' = IF truncated THEN output ELSE output + n
          /\ truncated' = (truncated \/ output + n > MaxBytes)
    /\ pc' = "loop"
    /\ UNCHANGED <<stop, phase, error, result, writeEnd, command, sent>>

\* A truncated output is still read, and thrown away.
Reads ==
    /\ pc = "poll" /\ buffer > 0
    /\ \E n \in 1 .. ReadSize :
          /\ n <= buffer
          /\ buffer' = buffer - n
          /\ output' = IF truncated \/ output + n > MaxBytes THEN MaxBytes
                                                             ELSE output + n
          /\ truncated' = (truncated \/ output + n > MaxBytes)
    /\ pc' = "loop"
    /\ UNCHANGED <<stop, phase, error, result, writeEnd, command, sent>>

\* End of file: everything was read and nobody holds the write end.
EndOfFile ==
    /\ pc = "poll" /\ buffer = 0 /\ ~Open
    /\ pc' = "wait"
    /\ UNCHANGED <<stop, phase, answer, writeEnd, buffer, command, sent>>

PipeFails ==
    /\ pc = "poll"
    /\ error' \in {"poll", "read"}
    /\ Signal("KILL")
    /\ pc' = "wait"
    /\ UNCHANGED <<stop, phase, output, truncated, result, writeEnd, buffer,
                   command>>

-----------------------------------------------------------------------------
(***************************************************************************)
(* waitpid, which blocks and no longer looks at the token; the result.     *)
(***************************************************************************)
Reap ==
    /\ pc = "wait" /\ life[Leader] = "dead"
    /\ life' = [life EXCEPT ![Leader] = "reaped"]
    /\ \/ /\ result' = IF end = "signal" THEN "Signaled" ELSE "Exited"
          /\ UNCHANGED error
       \/ result' = "ExecutionError" /\ error' = "waitpid"
    /\ pc' = "done"
    /\ UNCHANGED <<stop, phase, output, truncated, writeEnd, buffer, written,
                   group, holders, deaf, sent, end>>

\* format_process_result: what the model reads after the output.
Report ==
    CASE error # "none"                     -> "error"
      [] error = "none" /\ result = "Exited" ->
             IF end = "zero" THEN "nothing" ELSE "exit"
      [] error = "none" /\ result = "Signaled" -> "signal"
      [] error = "none" /\ result \in {"Unknown", "ExecutionError"} -> "unknown"

-----------------------------------------------------------------------------
(***************************************************************************)
(* The command's processes.                                                *)
(***************************************************************************)
Ignores(p) == sent[p] = "TERM" /\ p \in deaf

\* p runs: it exists, and no signal is about to end it.
Runs(p) == life[p] = "alive" /\ (sent[p] = "none" \/ Ignores(p))

\* The child's first call is setpgid, whatever the parent has done.
SetsGroup ==
    /\ Runs(Leader) /\ group[Leader] = "caller"
    /\ group' = [group EXCEPT ![Leader] = "own"]
    /\ UNCHANGED <<pc, stop, phase, answer, writeEnd, buffer, written, life,
                   holders, deaf, sent, end>>

Works(p) == Runs(p) /\ group[p] # "caller"

Writes(p) ==
    /\ Works(p) /\ p \in holders /\ pc \notin {"wait", "done"}
    /\ buffer < PipeSize /\ written < MaxWritten
    /\ buffer' = buffer + 1 /\ written' = written + 1
    /\ UNCHANGED <<pc, stop, phase, answer, writeEnd, life, group, holders,
                   deaf, sent, end>>

\* q is started by p, whose group, output and dispositions it inherits.
Spawns(p, q) ==
    /\ Works(p) /\ q \in Helpers /\ life[q] = "none"
    /\ life' = [life EXCEPT ![q] = "alive"]
    /\ group' = [group EXCEPT ![q] = group[p]]
    /\ holders' = IF p \in holders THEN holders \cup {q} ELSE holders
    /\ deaf' = IF p \in deaf THEN deaf \cup {q} ELSE deaf
    /\ UNCHANGED <<pc, stop, phase, answer, writeEnd, buffer, written, sent,
                   end>>

\* setsid, as daemons do.
LeavesGroup(p) ==
    /\ Works(p) /\ p # Leader
    /\ group' = [group EXCEPT ![p] = "left"]
    /\ UNCHANGED <<pc, stop, phase, answer, writeEnd, buffer, written, life,
                   holders, deaf, sent, end>>

\* trap '' TERM, nohup.
IgnoresTerm(p) ==
    /\ Works(p)
    /\ deaf' = deaf \cup {p}
    /\ UNCHANGED <<pc, stop, phase, answer, writeEnd, buffer, written, life,
                   group, holders, sent, end>>

\* exec >/dev/null 2>&1
ClosesOutput(p) ==
    /\ Works(p)
    /\ holders' = holders \ {p}
    /\ UNCHANGED <<pc, stop, phase, answer, writeEnd, buffer, written, life,
                   group, deaf, sent, end>>

Gone(p, how) ==
    /\ life' = [life EXCEPT ![p] = "dead"]
    /\ holders' = holders \ {p}
    /\ end' = IF p = Leader THEN how ELSE end
    /\ UNCHANGED <<pc, stop, phase, answer, writeEnd, buffer, written, group,
                   deaf, sent>>

Exits(p) == Works(p) /\ \E how \in {"zero", "nonzero", "signal"} : Gone(p, how)

Dies(p) ==
    /\ life[p] = "alive" /\ sent[p] # "none" /\ ~Ignores(p)
    /\ Gone(p, "signal")

RequestStop ==
    /\ pc # "done"
    /\ stop' = TRUE
    /\ UNCHANGED <<pc, phase, answer, writeEnd, buffer, command, sent>>

-----------------------------------------------------------------------------
RunShell ==
    \/ Refuse \/ ChecksToken \/ StartFails \/ Fork \/ ParentSetup
    \/ SendSignals \/ PollTimesOut \/ Reads \/ EndOfFile \/ PipeFails \/ Reap

Process(p) ==
    \/ Writes(p) \/ LeavesGroup(p) \/ IgnoresTerm(p) \/ ClosesOutput(p)
    \/ Exits(p) \/ Dies(p) \/ \E q \in Helpers : Spawns(p, q)

Returned == pc = "done" /\ UNCHANGED vars

Next == \/ RunShell \/ GraceEnds \/ SetsGroup \/ RequestStop \/ Returned
        \/ \E p \in Procs : Process(p)

\* The worker thread runs, the clock goes on, a signalled process dies. The
\* command is under no obligation.
Fairness ==
    /\ WF_vars(RunShell) /\ WF_vars(GraceEnds)
    /\ \A p \in Procs : WF_vars(Dies(p))

Spec     == Init /\ [][Next]_vars
FairSpec == Spec /\ Fairness

-----------------------------------------------------------------------------
Places == {"start", "forking", "forked", "loop", "poll", "wait", "done"}

\* The types of the variables.
TypeOK ==
    /\ pc \in Places /\ stop \in BOOLEAN
    /\ phase \in {"calm", "term", "overdue", "killed"}
    /\ output \in 0 .. MaxBytes /\ truncated \in BOOLEAN
    /\ error \in {"none", "empty", "cancelled", "start", "poll", "read", "waitpid"}
    /\ result \in {"Unknown", "Exited", "Signaled", "ExecutionError"}
    /\ writeEnd \in BOOLEAN
    /\ buffer \in 0 .. PipeSize /\ written \in Nat
    /\ life \in [Procs -> {"none", "alive", "dead", "reaped"}]
    /\ group \in [Procs -> {"caller", "own", "left"}]
    /\ holders \subseteq Procs /\ deaf \subseteq Procs
    /\ sent \in [Procs -> {"none", "TERM", "KILL"}]
    /\ end \in {"none", "zero", "nonzero", "signal"}

(***************************************************************************)
(* What run_shell has of the output is what was written, from its begin:   *)
(* all of it or the first kMaxBytes, and marked as truncated in the second *)
(* case only. Nothing written is lost between the pipe and the result.     *)
(***************************************************************************)
OutputIsPrefix ==
    LET received == written - buffer
    IN /\ output = IF received > MaxBytes THEN MaxBytes ELSE received
       /\ truncated <=> received > MaxBytes

(***************************************************************************)
(* When run_shell stops reading for no error, the output is complete: the  *)
(* pipe is empty and no process of the command, in the background or       *)
(* outside of the group, could still write to it.                          *)
(***************************************************************************)
OutputIsComplete ==
    pc = "wait" /\ error = "none" => buffer = 0 /\ holders = {}

\* The output of a run_shell that met no error is all that was written, or its
\* beginning with the mark that it is cut.
OutputIsFaithful == OutputIsPrefix /\ OutputIsComplete

(***************************************************************************)
(* An observation without an error, exit or signal line means that the     *)
(* shell ended with 0 and was reaped: a killed or failed command is never  *)
(* shown to the model as one that worked.                                  *)
(***************************************************************************)
FailureIsShown ==
    pc = "done" /\ Report = "nothing" => end = "zero" /\ life[Leader] = "reaped"

(***************************************************************************)
(* After SIGKILL nothing of the command that stayed in its group lives on, *)
(* whoever called setpgid first and whatever was started meanwhile.        *)
(***************************************************************************)
KillReachesAll ==
    phase = "killed" =>
        \A p \in Procs : life[p] = "alive" /\ group[p] # "left" => sent[p] = "KILL"

(***************************************************************************)
(* A stop request ends the call, except in two cases: a process that left  *)
(* the group keeps the output open for good (docs/troubleshooting.md:229), *)
(* or the output was closed and the shell lives on for good (StopIsHeard). *)
(***************************************************************************)
Escaped     == \E p \in holders : group[p] = "left"
ClosedEarly == pc = "wait" /\ life[Leader] = "alive"

StopEndsCall ==
    []<>(~Escaped /\ ~ClosedEarly) => (stop ~> pc = "done")

(***************************************************************************)
(* A command that writes more than is kept is not blocked for it: the pipe *)
(* is drained on. And run_shell notices the end of the command: it returns *)
(* when the shell is dead and nobody is left to write.                     *)
(***************************************************************************)
ReadsToTheEnd ==
    /\ buffer = PipeSize ~> buffer < PipeSize \/ pc \in {"wait", "done"}
    /\ life[Leader] = "dead" /\ holders = {} ~> pc = "done"

(***************************************************************************)
(* On cancellation the shell is sent SIGTERM and, when it is still there   *)
(* after a second, SIGKILL (docs/acp-integration.md:172): it does not      *)
(* outlive a stop request.                                                 *)
(***************************************************************************)
StopIsHeard == stop /\ life[Leader] = "alive" ~> life[Leader] # "alive"
=============================================================================
