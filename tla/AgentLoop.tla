------------------------------ MODULE AgentLoop ------------------------------
(***************************************************************************)
(* One session and the runs of the agent loop in it: AgentSession::submit  *)
(* (agent_session.cpp), append_history (history.hpp) and run               *)
(* (agent_loop.hpp), with the process dying and restarting around them.    *)
(*                                                                         *)
(* The loop is cut into actions at the points where it reads the stop      *)
(* token, blocks (model, reviewer, shell) or crosses into the store: those *)
(* are the places where a stop request or a crash can fall between two     *)
(* steps. pc names the place. The provider's reply, the reviewer's answer  *)
(* and the store's failures are choices of the environment.                *)
(*                                                                         *)
(* on_event does not throw here, as the TUI's and the console's do not;    *)
(* AcpPrompt models the observer whose writes fail. AgentSession::clear is *)
(* left out: nothing but the tests calls it.                               *)
(***************************************************************************)
EXTENDS Conversation, CommandAuthorization

CONSTANTS
    Commands,     \* the shapes of command the model may ask for
    ReviewAll,    \* the front end reviews every command
    Answers,      \* what the front end's reviewer may decide
    StepLimit,    \* agent_cfg.step_limit, 0 for none
    MaxHistory,   \* bound: no prompt is submitted to a longer conversation
    MaxReplies    \* bound: turns in a run the provider answers

ASSUME CommandsAssumption == Commands \subseteq CommandShapes /\ Commands # {}
ASSUME AnswersAssumption  == Answers \subseteq Decisions /\ ReviewAll \in BOOLEAN
ASSUME LimitsAssumption   ==
    /\ StepLimit \in Nat /\ MaxHistory \in Nat /\ MaxReplies \in Nat
    /\ StepLimit <= MaxReplies

VARIABLES
    pc,        \* where the loop is; "idle" between runs, "down" after a crash
    after,     \* where the loop goes on once the append in progress commits
    stop,      \* the StopToken's atomic flag
    step,      \* run's step counter
    last,      \* the last reply
    cmd,       \* the command in it
    history,   \* AgentSession::history_, in memory
    stored,    \* the session's rows in the store
    status,    \* AgentRunResult::status; "Error" for an exception
    events,    \* what on_event was called with in this run
    base,      \* Len(history) when the run's first turn started
    ran,       \* positions in history whose command a shell was started for
    late       \* queries sent and shells started after the stop request

vars == <<pc, after, stop, step, last, cmd, history, stored, status, events,
          base, ran, late>>

Blank == [program |-> "none", complex |-> FALSE]

Init ==
    /\ pc = "idle" /\ after = "top"
    /\ stop = FALSE /\ step = 0 /\ last = "empty" /\ cmd = Blank
    /\ history = <<Seed>> /\ stored = <<Seed>>
    /\ status = "None" /\ events = <<>>
    /\ base = 1 /\ ran = <<>> /\ late = 0

-----------------------------------------------------------------------------
(***************************************************************************)
(* Pieces of actions.                                                      *)
(***************************************************************************)
\* Mutant: the runs' StopToken is not connected to a StopSource.
TokenNeverSet == FALSE

ShouldStop == stop

Event(type, s) == [type |-> type, step |-> s]

\* on_event is called with types, in order, all of step s.
Emit(types, s) ==
    events' = events \o [i \in 1 .. Len(types) |-> Event(types[i], s)]

\* The loop breaks with this status, after emitting types and its own event.
Finish(verdict, types, s) ==
    /\ Emit(Append(types, verdict), s)
    /\ status' = verdict
    /\ pc' = "idle"

\* append_history: first the memory, then the store; goOn is where the loop
\* is when both have the message.
Push(m, goOn) ==
    /\ history' = Append(history, m)
    /\ pc' = "commit"
    /\ after' = goOn

\* An exception leaves run and submit.
Throw == status' = "Error" /\ pc' = "idle"

-----------------------------------------------------------------------------
(***************************************************************************)
(* A prompt, and the two ends of append_history.                           *)
(***************************************************************************)
Submit ==
    /\ pc = "idle"
    /\ Len(history) < MaxHistory
    /\ Push(UserPrompt, "top")
    /\ stop' = FALSE /\ step' = 0 /\ late' = 0
    /\ status' = "None" /\ events' = <<>>
    /\ base' = Len(history) + 1
    /\ UNCHANGED <<last, cmd, stored, ran>>

\* The store takes only the next sequence number of the session.
Commit ==
    /\ pc = "commit"
    /\ Len(history) - 1 = Len(stored)
    /\ stored' = Append(stored, history[Len(history)])
    /\ pc' = after
    /\ UNCHANGED <<after, stop, step, last, cmd, history, status, events,
                   base, ran, late>>

\* Mutant: the rollback of the in-memory message is forgotten.
CommitFailsWithoutRollback ==
    /\ pc = "commit"
    /\ Throw
    /\ UNCHANGED <<after, stop, step, last, cmd, history, stored, events, base,
                   ran, late>>

\* Mutant: the storage error is swallowed and the run goes on.
CommitFailureSwallowed ==
    /\ pc = "commit"
    /\ history' = SubSeq(history, 1, Len(history) - 1)
    /\ pc' = after
    /\ UNCHANGED <<after, stop, step, last, cmd, stored, status, events, base,
                   ran, late>>

\* The hook throws: the memory is rolled back and the exception goes on.
CommitFails ==
    /\ pc = "commit"
    /\ history' = SubSeq(history, 1, Len(history) - 1)
    /\ Throw
    /\ UNCHANGED <<after, stop, step, last, cmd, stored, events, base, ran,
                   late>>

-----------------------------------------------------------------------------
(***************************************************************************)
(* One turn of the loop.                                                   *)
(***************************************************************************)
\* Mutant: the limit is compared one too late.
StepLimitPassed == StepLimit > 0 /\ step > StepLimit

\* Mutant: the limit is read and never compared.
NoStepLimit == FALSE

StepLimitReached == StepLimit > 0 /\ step >= StepLimit

TopStops ==
    /\ pc = "top" /\ ShouldStop
    /\ Finish("Stopped", <<>>, step)
    /\ UNCHANGED <<after, stop, step, last, cmd, history, stored, base, ran,
                   late>>

TopAtLimit ==
    /\ pc = "top" /\ ~ShouldStop /\ StepLimitReached
    /\ Finish("StepLimitReached", <<>>, step)
    /\ UNCHANGED <<after, stop, step, last, cmd, history, stored, base, ran,
                   late>>

SendQuery ==
    /\ pc = "top" /\ ~ShouldStop /\ ~StepLimitReached
    /\ pc' = "query"
    /\ late' = IF stop THEN late + 1 ELSE late
    /\ UNCHANGED <<after, stop, step, last, cmd, history, stored, status,
                   events, base, ran>>

QueryReturns ==
    /\ pc = "query" /\ step < MaxReplies
    /\ \E r \in Replies, c \in Commands :
          /\ last' = r
          /\ cmd' = IF r = "command" THEN c ELSE Blank
    /\ pc' = "replied"
    /\ UNCHANGED <<after, stop, step, history, stored, status, events, base,
                   ran, late>>

\* The progress callback saw the token: OperationCancelled.
QueryCancelled ==
    /\ pc = "query" /\ stop
    /\ Finish("Stopped", <<>>, step)
    /\ UNCHANGED <<after, stop, step, last, cmd, history, stored, base, ran,
                   late>>

\* Any other exception of the provider: timeout, HTTP status, bad JSON.
QueryFails ==
    /\ pc = "query" /\ step < MaxReplies
    /\ Throw
    /\ UNCHANGED <<after, stop, step, last, cmd, history, stored, events,
                   base, ran, late>>

Replied ==
    /\ pc = "replied"
    /\ \/ /\ ShouldStop
          /\ Finish("Stopped", <<>>, step)
          /\ UNCHANGED <<after, history>>
       \/ /\ ~ShouldStop /\ last = "empty"
          /\ Finish("EmptyResponse", <<>>, step)
          /\ UNCHANGED <<after, history>>
       \/ /\ ~ShouldStop /\ last # "empty"
          /\ Push(Assistant(last), "parse")
          /\ UNCHANGED <<status, events>>
    /\ UNCHANGED <<stop, step, last, cmd, stored, base, ran, late>>

\* No RUN: line, or COMPLETE_TASK without a conclusion.
Nudge ==
    /\ pc = "parse" /\ last \in {"prose", "bareComplete"}
    /\ Emit(<<"Assistant">>, step)
    /\ Push(HostHint, "nudged")
    /\ UNCHANGED <<stop, step, last, cmd, stored, status, base, ran, late>>

Nudged ==
    /\ pc = "nudged"
    /\ Emit(<<"FormatError">>, step)
    /\ step' = step + 1
    /\ pc' = "top"
    /\ UNCHANGED <<after, stop, last, cmd, history, stored, status, base, ran,
                   late>>

\* COMPLETE_TASK with a conclusion goes to the shell without authorization.
StartCompletion ==
    /\ pc = "parse" /\ last = "complete"
    /\ \/ ShouldStop /\ Finish("Stopped", <<>>, step)
       \/ /\ ~ShouldStop
          /\ Emit(<<"CommandStarted">>, step)
          /\ pc' = "shell"
          /\ UNCHANGED status
    /\ UNCHANGED <<after, stop, step, last, cmd, history, stored, base, ran,
                   late>>

StartCommand ==
    /\ pc = "parse" /\ last = "command"
    /\ \/ ShouldStop /\ Finish("Stopped", <<"Assistant">>, step)
       \/ /\ ~ShouldStop
          /\ Emit(<<"Assistant">>, step)
          /\ pc' = "authorize"
          /\ UNCHANGED status
    /\ UNCHANGED <<after, stop, step, last, cmd, history, stored, base, ran,
                   late>>

\* request_authorization's own look at the token, then the authorizer.
RequestAuthorization ==
    /\ pc = "authorize"
    /\ \/ ShouldStop /\ Finish("Stopped", <<>>, step)
       \/ ~ShouldStop /\ pc' = "reviewing" /\ UNCHANGED <<status, events>>
    /\ UNCHANGED <<after, stop, step, last, cmd, history, stored, base, ran,
                   late>>

Decide(d) ==
    /\ pc = "reviewing"
    /\ d \in AuthorizeCommand(cmd, ReviewAll, Answers)
    /\ \/ /\ d = "Stop"
          /\ Finish("Stopped", <<>>, step)
          /\ UNCHANGED <<after, history>>
       \/ /\ d = "Reject"
          /\ Emit(<<"CommandRejected">>, step)
          /\ Push(Observed("refusal"), "rejected")
          /\ UNCHANGED status
       \/ /\ d = "Approve"
          /\ Emit(<<"CommandStarted">>, step)
          /\ pc' = "shell"
          /\ UNCHANGED <<after, status, history>>
    /\ UNCHANGED <<stop, step, last, cmd, stored, base, ran, late>>

\* Mutant: a rejected turn is not counted.
RejectedUncounted ==
    /\ pc = "rejected"
    /\ pc' = "top"
    /\ UNCHANGED <<after, stop, step, last, cmd, history, stored, status,
                   events, base, ran, late>>

Rejected ==
    /\ pc = "rejected"
    /\ step' = step + 1
    /\ pc' = "top"
    /\ UNCHANGED <<after, stop, last, cmd, history, stored, status, events,
                   base, ran, late>>

-----------------------------------------------------------------------------
(***************************************************************************)
(* run_shell, as far as the loop sees it: it looks at the token once, then *)
(* forks; a cancelled or failed start is an observation like any other.    *)
(***************************************************************************)
ShellChecks ==
    /\ pc = "shell"
    /\ pc' = IF ShouldStop THEN "shellDone" ELSE "forking"
    /\ UNCHANGED <<after, stop, step, last, cmd, history, stored, status,
                   events, base, ran, late>>

ShellForks ==
    /\ pc = "forking"
    /\ pc' = "running"
    /\ ran' = Append(ran, Len(history))
    /\ late' = IF stop THEN late + 1 ELSE late
    /\ UNCHANGED <<after, stop, step, last, cmd, history, stored, status,
                   events, base>>

ShellReturns ==
    /\ pc \in {"forking", "running"}   \* from "forking": pipe or fork failed
    /\ pc' = "shellDone"
    /\ UNCHANGED <<after, stop, step, last, cmd, history, stored, status,
                   events, base, ran, late>>

\* Mutant: the token is not read after the completion's shell.
CompletionIgnoresStop ==
    /\ pc = "shellDone" /\ last = "complete"
    /\ Finish("Completed", <<"CommandFinished">>, step)
    /\ UNCHANGED <<after, stop, step, last, cmd, history, stored, base, ran,
                   late>>

\* A stop that arrived during the shell wins over the completion.
CompletionDone ==
    /\ pc = "shellDone" /\ last = "complete"
    /\ Finish(IF ShouldStop THEN "Stopped" ELSE "Completed",
              <<"CommandFinished">>, step)
    /\ UNCHANGED <<after, stop, step, last, cmd, history, stored, base, ran,
                   late>>

CommandDone ==
    /\ pc = "shellDone" /\ last = "command"
    /\ Emit(<<"CommandFinished">>, step)
    /\ Push(Observed("result"), "observed")
    /\ UNCHANGED <<stop, step, last, cmd, stored, status, base, ran, late>>

\* The step is counted before the token is read again.
ObservationDone ==
    /\ pc = "observed"
    /\ step' = step + 1
    /\ \/ ShouldStop /\ Finish("Stopped", <<>>, step + 1)
       \/ ~ShouldStop /\ pc' = "top" /\ UNCHANGED <<status, events>>
    /\ UNCHANGED <<after, stop, last, cmd, history, stored, base, ran, late>>

-----------------------------------------------------------------------------
(***************************************************************************)
(* The environment: a stop request, the death of the process, a restart    *)
(* with --continue (SessionManager::continue_latest, AgentSession::        *)
(* restore).                                                               *)
(***************************************************************************)
RequestStop ==
    /\ pc \notin {"idle", "down"}
    /\ stop' = TRUE
    /\ UNCHANGED <<pc, after, step, last, cmd, history, stored, status,
                   events, base, ran, late>>

Crash ==
    /\ pc # "down"
    /\ pc' = "down"
    /\ history' = <<>>
    /\ stop' = FALSE /\ status' = "None" /\ events' = <<>>
    /\ UNCHANGED <<after, step, last, cmd, stored, base, ran, late>>

Restorable(rows) == rows # <<>> /\ rows[1].kind = "System"

\* Mutant: a restarted session picks up the request it was interrupted at.
RestartResumesRequest ==
    /\ pc = "down" /\ Restorable(stored)
    /\ pc' = IF IsRequest(stored[Len(stored)]) THEN "shell" ELSE "idle"
    /\ history' = stored
    /\ UNCHANGED <<after, stop, step, last, cmd, stored, status, events, base,
                   ran, late>>

Restart ==
    /\ pc = "down" /\ Restorable(stored)
    /\ pc' = "idle"
    /\ history' = stored
    /\ UNCHANGED <<after, stop, step, last, cmd, stored, status, events, base,
                   ran, late>>

-----------------------------------------------------------------------------
LoopStep ==
    \/ Commit \/ CommitFails
    \/ TopStops \/ TopAtLimit \/ SendQuery
    \/ QueryReturns \/ QueryCancelled \/ QueryFails \/ Replied
    \/ Nudge \/ Nudged \/ StartCompletion \/ StartCommand
    \/ RequestAuthorization \/ (\E d \in Decisions : Decide(d)) \/ Rejected
    \/ ShellChecks \/ ShellForks \/ ShellReturns
    \/ CompletionDone \/ CommandDone \/ ObservationDone

Next == Submit \/ LoopStep \/ RequestStop \/ Crash \/ Restart

\* The worker runs; the provider has a 60 s timeout; the reviewer answers and
\* the shell command ends. The last two are assumptions about people and
\* commands, which TuiSession and Shell look into.
Fairness == WF_vars(LoopStep)

Spec     == Init /\ [][Next]_vars
FairSpec == Spec /\ Fairness

-----------------------------------------------------------------------------
InShell    == {"shell", "forking", "running", "shellDone"}
Locations  == {"idle", "down", "commit", "top", "query", "replied", "parse",
               "nudged", "authorize", "reviewing", "rejected", "observed"}
              \cup InShell
Verdicts   == {"Stopped", "StepLimitReached", "EmptyResponse", "Completed"}
EventTypes == Verdicts \cup {"Assistant", "FormatError", "CommandStarted",
                             "CommandFinished", "CommandRejected"}

\* The types of the variables; the step counter never passes the limit.
TypeOK ==
    /\ pc \in Locations
    /\ after \in {"top", "parse", "nudged", "rejected", "observed"}
    /\ stop \in BOOLEAN
    /\ step \in Nat /\ base \in Nat /\ late \in Nat
    /\ StepLimit > 0 => step <= StepLimit
    /\ last \in Replies /\ cmd \in CommandShapes
    /\ history \in Seq(Message) /\ stored \in Seq(Message)
    /\ status \in Verdicts \cup {"None", "Error"}
    /\ events \in Seq([type : EventTypes, step : Nat])
    /\ ran \in Seq(Nat)

(***************************************************************************)
(* Memory and store agree whenever no append is in progress, and during    *)
(* one the memory is exactly one message ahead: append_history's rollback  *)
(* leaves no message the next append's sequence number would trip over.    *)
(***************************************************************************)
MemoryMatchesStore ==
    /\ pc \notin {"commit", "down"} => history = stored
    /\ pc = "commit" => /\ Len(history) = Len(stored) + 1
                        /\ SubSeq(history, 1, Len(stored)) = stored

(***************************************************************************)
(* The durable conversation is one the loop's protocol allows, after any   *)
(* mix of failed appends, stops, crashes and restarts: the model is never  *)
(* shown an observation or a hint that does not answer its last message.   *)
(***************************************************************************)
StoredIsGrammatical == Grammatical(stored)

(***************************************************************************)
(* Write-ahead: a shell is only started for a request that is already      *)
(* durable, and no request is run twice or out of order, also when the     *)
(* process dies between the run and its observation and is restarted.      *)
(***************************************************************************)
RunsOnceAndDurably ==
    /\ \A i \in 1 .. Len(ran) :
          ran[i] \in 1 .. Len(stored) /\ IsRequest(stored[ran[i]])
    /\ \A i, j \in 1 .. Len(ran) : i < j => ran[i] < ran[j]

\* The conversation never tells the model that a command that did run was
\* rejected: every run position is followed by no refusal.
RefusedNeverRan ==
    \A i \in 1 .. Len(ran) :
        ran[i] < Len(stored) => stored[ran[i] + 1] # Observed("refusal")

\* No shell is started for a command the policy denies, whatever the reviewer
\* says (authorize_command under run's own checks).
DeniedNeverStarts ==
    pc \in InShell /\ last = "command" => EvaluatePolicy(cmd) # "Deny"

(***************************************************************************)
(* Every turn costs exactly one message of the model and one of the host,  *)
(* so step counts turns exactly, and the step limit bounds how far one     *)
(* prompt can extend the conversation.                                     *)
(***************************************************************************)
StepsCountTurns ==
    /\ pc \in {"top", "query", "replied"} => Len(history) = base + 2 * step
    /\ StepLimit > 0 /\ pc \notin {"idle", "down"} =>
          Len(history) <= base + 2 * StepLimit
    /\ status = "StepLimitReached" => Len(stored) = base + 2 * StepLimit

\* After a stop request the run sends no query, and starts at most the one
\* shell it had already decided to fork.
StopBoundsWork == late <= 1

(***************************************************************************)
(* What on_event sees of a run: every CommandStarted is directly followed  *)
(* by its CommandFinished, except the one in progress; at most one verdict *)
(* is emitted, it is the last event, and it is the status run returns. The *)
(* log view and the ACP tool calls pair events on this.                    *)
(***************************************************************************)
EventsPaired ==
    \A i \in 1 .. Len(events) :
        /\ events[i].type = "CommandStarted" =>
              IF i = Len(events) THEN pc \in InShell
              ELSE events[i + 1] = Event("CommandFinished", events[i].step)
        /\ events[i].type = "CommandFinished" =>
              i > 1 /\ events[i - 1].type = "CommandStarted"
        /\ events[i].type \in Verdicts =>
              i = Len(events) /\ pc = "idle" /\ status = events[i].type

(***************************************************************************)
(* A run reports what happened: Completed only when no stop was requested  *)
(* before its last shell returned and a stored request to complete was     *)
(* answered, Stopped only after a stop request or a reviewer's Stop, the   *)
(* limit only at the limit.                                                *)
(***************************************************************************)
VerdictIsTrue ==
    [][ /\ status' = "Completed" /\ status # "Completed" =>
              ~stop /\ stored[Len(stored)] = Assistant("complete")
        /\ status' = "Stopped" /\ status # "Stopped" =>
              stop \/ (pc = "reviewing" /\ "Stop" \in Answers)
        /\ status' = "StepLimitReached" /\ status # "StepLimitReached" =>
              step = StepLimit /\ step > 0 ]_vars

\* What the front end is told of a run, by events and by its result, is what
\* happened in it.
ReportIsTrue == []EventsPaired /\ VerdictIsTrue

\* The session implements its promise: ConversationLog, of the durable rows.
Log == INSTANCE ConversationLog WITH log <- stored
ImplementsLog == Log!Spec

\* Every run ends, by verdict, error or crash, when there is a step limit.
RunEnds == pc = "top" ~> pc \in {"idle", "down"}
=============================================================================
