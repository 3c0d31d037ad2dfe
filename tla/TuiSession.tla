----------------------------- MODULE TuiSession ------------------------------
(***************************************************************************)
(* The TUI's task controller: TuiSession (tui_session.cpp) and the status  *)
(* part of TuiState (tui_state.cpp), with the UI thread that calls it and  *)
(* the worker thread that runs the agent loop.                             *)
(*                                                                         *)
(* A critical section of mutex_ is one action, except where the worker     *)
(* keeps the mutex over several steps: between the predicate of            *)
(* approval_cv_.wait and going to sleep, and between waking up and         *)
(* resolving. There wk is "sleep" or "resolve" and the UI thread's         *)
(* sections are blocked. The stop token and the notifications take no      *)
(* mutex: they can fall into those windows.                                *)
(*                                                                         *)
(* The runner is the agent loop of AgentLoop, reduced to what TuiSession   *)
(* sees of it: events, authorization requests and how it returns. Of the   *)
(* loop's consecutive looks at the token one is kept.                      *)
(***************************************************************************)
EXTENDS Integers, CommandAuthorization

CONSTANTS
    Commands,      \* the shapes of command the model may ask for
    MaxRequests    \* bound: commands requested in a behaviour

ASSUME CommandsAssumption == Commands \subseteq CommandShapes /\ Commands # {}
ASSUME BoundAssumption    == MaxRequests \in Nat

VARIABLES
    ui,          \* UI thread: "ready", or inside a call that takes steps
    wk,          \* worker thread; "none" when joined, "exited" when joinable
    token,       \* the current StopSource's flag
    status,      \* TuiState::status_
    activity,    \* TuiState::activity_
    pending,     \* TuiState::pending_command_: its request number, 0 if empty
    mode,        \* command_mode_
    decision,    \* approval_decision_
    decidedFor,  \* the request on display when the decision was submitted
    req,         \* number of the last authorization request
    cmd,         \* its command
    verdict,     \* the CommandDecision on its way back to the loop
    result       \* AgentRunResult::status on its way back to TuiSession

vars == <<ui, wk, token, status, activity, pending, mode, decision,
          decidedFor, req, cmd, verdict, result>>

display  == <<status, activity, pending>>
approval == <<decision, decidedFor>>
request  == <<req, cmd, verdict>>

Blank == [program |-> "none", complex |-> FALSE]

Init ==
    /\ ui = "ready" /\ wk = "none" /\ token = FALSE
    /\ status = "Ready" /\ activity = "Idle" /\ pending = 0
    /\ mode = "Review"
    /\ decision = "None" /\ decidedFor = 0
    /\ req = 0 /\ cmd = Blank /\ verdict = "None" /\ result = "None"

-----------------------------------------------------------------------------
\* The worker does not hold mutex_ between two of its steps.
MutexFree == wk \notin {"sleep", "resolve"}

Running == status \in {"Running", "Stopping"}

Joinable == wk \in {"none", "exited"}

\* approval_cv_.notify_one and notify_all: there is one thread to wake.
Notify == wk' = IF wk = "waiting" THEN "evaluate" ELSE wk

\* TuiState::apply_event, its effect on the status line.
ApplyEvent(type) ==
    /\ activity' = CASE type = "CommandStarted" -> "RunningCommand"
                     [] type \in {"FormatError", "CommandFinished",
                                  "CommandRejected"} -> "Thinking"
                     [] OTHER -> activity
    /\ status' = IF status # "Stopping" /\ type \in {"CommandStarted",
                       "CommandFinished", "CommandRejected"}
                 THEN "Running" ELSE status
    /\ UNCHANGED pending

-----------------------------------------------------------------------------
(***************************************************************************)
(* The UI thread. start: not while running; join the last worker, begin    *)
(* the task with a fresh stop source, create the worker.                   *)
(***************************************************************************)
StartCalled ==
    /\ ui = "ready" /\ MutexFree /\ ~Running
    /\ ui' = "starting"
    /\ UNCHANGED <<wk, token, display, mode, approval, request, result>>

Start ==
    /\ ui = "starting" /\ Joinable
    /\ status' = "Running" /\ activity' = "Thinking" /\ pending' = 0
    /\ decision' = "None"
    /\ token' = FALSE
    /\ wk' = "loop" /\ ui' = "ready"
    /\ UNCHANGED <<mode, decidedFor, request, result>>

\* The thread cannot be created: the task fails, the exception goes on.
StartFails ==
    /\ ui = "starting" /\ Joinable
    /\ status' = "Error" /\ activity' = "Idle" /\ pending' = 0
    /\ decision' = "None"
    /\ token' = FALSE
    /\ wk' = "none" /\ ui' = "ready"
    /\ UNCHANGED <<mode, decidedFor, request, result>>

\* Mutant: the task counts as stopped as soon as the stop is requested.
StopEndsBusy ==
    /\ ui = "ready" /\ MutexFree /\ Running
    /\ status' = "Stopped"
    /\ ui' = "stopToken"
    /\ UNCHANGED <<wk, token, activity, pending, mode, approval, request,
                   result>>

\* Mutant: a second stop request is ignored.
StopOnlyOnce ==
    /\ ui = "ready" /\ MutexFree /\ status = "Running"
    /\ status' = "Stopping"
    /\ ui' = "stopToken"
    /\ UNCHANGED <<wk, token, activity, pending, mode, approval, request,
                   result>>

\* request_stop, in its three steps: the status, the token, the notification.
StopCalled ==
    /\ ui = "ready" /\ MutexFree /\ Running
    /\ status' = "Stopping"
    /\ ui' = "stopToken"
    /\ UNCHANGED <<wk, token, activity, pending, mode, approval, request,
                   result>>

SetToken ==
    /\ ui \in {"stopToken", "quitToken"}
    /\ token' = TRUE
    /\ ui' = IF ui = "stopToken" THEN "stopNotify" ELSE "quitNotify"
    /\ UNCHANGED <<wk, display, mode, approval, request, result>>

NotifyStop ==
    /\ ui \in {"stopNotify", "quitNotify"}
    /\ Notify
    /\ ui' = IF ui = "stopNotify" THEN "ready" ELSE "quitJoin"
    /\ UNCHANGED <<token, display, mode, approval, request, result>>

\* Mutant: a decision is taken whatever is on display.
SubmitDecisionAnytime(d) ==
    /\ ui = "ready" /\ MutexFree
    /\ decision = "None"
    /\ decision' = d /\ decidedFor' = pending
    /\ ui' = "decideNotify"
    /\ UNCHANGED <<wk, token, display, mode, request, result>>

\* approve_command and reject_command (submit_command_decision).
SubmitDecision(d) ==
    /\ ui = "ready" /\ MutexFree
    /\ pending # 0 /\ decision = "None"
    /\ decision' = d /\ decidedFor' = pending
    /\ ui' = "decideNotify"
    /\ UNCHANGED <<wk, token, display, mode, request, result>>

\* Mutant: the decision is stored, but nobody is notified.
DecisionUnnotified ==
    /\ ui = "decideNotify"
    /\ ui' = "ready"
    /\ UNCHANGED <<wk, token, display, mode, approval, request, result>>

NotifyDecision ==
    /\ ui = "decideNotify"
    /\ Notify
    /\ ui' = "ready"
    /\ UNCHANGED <<token, display, mode, approval, request, result>>

\* Mutant: the mode can be switched while a task runs.
ToggleModeAnytime ==
    /\ ui = "ready" /\ MutexFree
    /\ mode' = IF mode = "Auto" THEN "Review" ELSE "Auto"
    /\ UNCHANGED <<ui, wk, token, display, approval, request, result>>

ToggleMode ==
    /\ ui = "ready" /\ MutexFree /\ ~Running
    /\ mode' = IF mode = "Auto" THEN "Review" ELSE "Auto"
    /\ UNCHANGED <<ui, wk, token, display, approval, request, result>>

\* load_session: the view of another session, after the last worker is joined.
LoadCalled ==
    /\ ui = "ready" /\ MutexFree /\ ~Running
    /\ ui' = "loading"
    /\ UNCHANGED <<wk, token, display, mode, approval, request, result>>

LoadSession ==
    /\ ui = "loading" /\ Joinable
    /\ decision' = "None"
    /\ status' = "Ready" /\ activity' = "Idle" /\ pending' = 0
    /\ wk' = "none" /\ ui' = "ready"
    /\ UNCHANGED <<token, mode, decidedFor, request, result>>

\* stop_and_join: the end of tui::run and the destructor. With a task running
\* only an exception of the UI loop or a signal to it leads here.
QuitCalled ==
    /\ ui = "ready"
    /\ ui' = "quitToken"
    /\ UNCHANGED <<wk, token, display, mode, approval, request, result>>

QuitJoins ==
    /\ ui = "quitJoin" /\ Joinable
    /\ wk' = "none" /\ ui' = "gone"
    /\ UNCHANGED <<token, display, mode, approval, request, result>>

-----------------------------------------------------------------------------
(***************************************************************************)
(* The worker in the runner: the top of the loop, the model, the shell.    *)
(***************************************************************************)
\* The runner returns, after its event for the verdict (which only logs).
Return(r) == wk' = "return" /\ result' = r

LoopTop ==
    /\ wk = "loop"
    /\ \/ token /\ Return("Stopped")
       \/ ~token /\ Return("StepLimitReached")
       \/ ~token /\ wk' = "query" /\ UNCHANGED result
    /\ UNCHANGED <<ui, token, display, mode, approval, request>>

QueryEnds ==
    /\ wk = "query"
    /\ \/ token /\ Return("Stopped")
       \/ ~token /\ Return("EmptyResponse")
       \/ wk' = "throw" /\ UNCHANGED result
    /\ UNCHANGED <<ui, token, display, mode, approval, request>>

\* A reply without a usable command.
Nudge ==
    /\ wk = "query" /\ ~token
    /\ ApplyEvent("FormatError")
    /\ wk' = "loop"
    /\ UNCHANGED <<ui, token, mode, approval, request, result>>

\* COMPLETE_TASK: run without authorization.
CompletionStarts ==
    /\ wk = "query" /\ ~token
    /\ ApplyEvent("CommandStarted")
    /\ wk' = "completing"
    /\ UNCHANGED <<ui, token, mode, approval, request, result>>

CompletionEnds ==
    /\ wk = "completing"
    /\ ApplyEvent("CommandFinished")
    /\ Return(IF token THEN "Stopped" ELSE "Completed")
    /\ UNCHANGED <<ui, token, mode, approval, request>>

RequestCommand ==
    /\ wk = "query" /\ ~token /\ req < MaxRequests
    /\ req' = req + 1
    /\ cmd' \in Commands
    /\ wk' = "authorize"
    /\ UNCHANGED <<ui, token, display, mode, approval, verdict, result>>

\* What the loop makes of the authorizer's decision.
ActOnVerdict ==
    /\ wk = "act"
    /\ \/ /\ verdict = "Stop"
          /\ Return("Stopped") /\ UNCHANGED display
       \/ /\ verdict = "Reject"
          /\ ApplyEvent("CommandRejected") /\ wk' = "loop" /\ UNCHANGED result
       \/ /\ verdict = "Approve"
          /\ ApplyEvent("CommandStarted") /\ wk' = "command" /\ UNCHANGED result
    /\ UNCHANGED <<ui, token, mode, approval, request>>

CommandEnds ==
    /\ wk = "command"
    /\ ApplyEvent("CommandFinished")
    /\ wk' = "loop"
    /\ UNCHANGED <<ui, token, mode, approval, request, result>>

\* The store refuses an append: the exception leaves the runner.
AppendFails ==
    /\ wk \in {"loop", "query"}
    /\ wk' = "throw"
    /\ UNCHANGED <<ui, token, display, mode, approval, request, result>>

-----------------------------------------------------------------------------
(***************************************************************************)
(* The worker in authorize_command and review_command.                     *)
(***************************************************************************)
Decide(d) == verdict' = d /\ wk' = "authorized" /\ UNCHANGED <<req, cmd>>

Authorize ==
    /\ wk = "authorize"
    /\ IF token THEN Decide("Stop")
                ELSE wk' = "policy" /\ UNCHANGED request
    /\ UNCHANGED <<ui, token, display, mode, approval, result>>

\* The mode is read, the policy evaluated, the reviewer called if needed.
ApplyPolicy ==
    /\ wk = "policy"
    /\ IF EvaluatePolicy(cmd) # "Deny" /\ NeedsReview(cmd, mode = "Review")
       THEN wk' = "review" /\ UNCHANGED request
       ELSE \E d \in AuthorizeCommand(cmd, mode = "Review", {}) : Decide(d)
    /\ UNCHANGED <<ui, token, display, mode, approval, result>>

\* begin_command_approval shows the request unless a stop was called.
BeginReview ==
    /\ wk = "review"
    /\ IF token THEN Decide("Stop") /\ UNCHANGED <<display, decision>>
       ELSE /\ decision' = "None"
            /\ IF status = "Running"
               THEN activity' = "AwaitingApproval" /\ pending' = req
               ELSE UNCHANGED <<activity, pending>>
            /\ wk' = "evaluate"
            /\ UNCHANGED <<status, request>>
    /\ UNCHANGED <<ui, token, mode, decidedFor, result>>

\* The predicate of approval_cv_.wait, under the mutex.
EvaluatePredicate ==
    /\ wk = "evaluate"
    /\ wk' = IF decision # "None" \/ token THEN "resolve" ELSE "sleep"
    /\ UNCHANGED <<ui, token, display, mode, approval, request, result>>

Sleep ==
    /\ wk = "sleep"
    /\ wk' = "waiting"
    /\ UNCHANGED <<ui, token, display, mode, approval, request, result>>

\* A condition variable may wake up by itself; nothing makes it.
SpuriousWakeup ==
    /\ wk = "waiting"
    /\ wk' = "evaluate"
    /\ UNCHANGED <<ui, token, display, mode, approval, request, result>>

Resolve ==
    /\ wk = "resolve"
    /\ Decide(IF token THEN "Stop" ELSE decision)
    /\ decision' = "None"
    /\ pending' = 0
    /\ activity' = IF pending # 0 /\ status = "Running" THEN "Thinking"
                                                        ELSE activity
    /\ UNCHANGED <<ui, token, status, mode, decidedFor, result>>

\* authorize_command looks at the token once more on its way out.
Authorized ==
    /\ wk = "authorized"
    /\ verdict' = IF token THEN "Stop" ELSE verdict
    /\ wk' = "act"
    /\ UNCHANGED <<ui, token, display, mode, approval, req, cmd, result>>

-----------------------------------------------------------------------------
(***************************************************************************)
(* The worker after the runner: only now does the task stop being busy.    *)
(***************************************************************************)
\* Mutant: a completed run is shown under its own name.
StatusOfRaw(r) == r

StatusOf(r) == IF r = "Completed" THEN "Ready" ELSE r

ApplyResult ==
    /\ wk = "return"
    /\ status' = StatusOf(result) /\ activity' = "Idle" /\ pending' = 0
    /\ wk' = "exited"
    /\ UNCHANGED <<ui, token, mode, approval, request, result>>

FailTask ==
    /\ wk = "throw"
    /\ status' = "Error" /\ activity' = "Idle" /\ pending' = 0
    /\ wk' = "exited"
    /\ UNCHANGED <<ui, token, mode, approval, request, result>>

-----------------------------------------------------------------------------
UserAct ==
    \/ StartCalled \/ StopCalled \/ ToggleMode \/ LoadCalled \/ QuitCalled
    \/ \E d \in {"Approve", "Reject"} : SubmitDecision(d)

\* What a call of the UI thread still has to do once it was made.
UiContinues ==
    \/ Start \/ StartFails \/ SetToken \/ NotifyStop \/ NotifyDecision
    \/ LoadSession \/ QuitJoins

WorkerStep ==
    \/ LoopTop \/ QueryEnds \/ Nudge \/ CompletionStarts \/ CompletionEnds
    \/ RequestCommand \/ ActOnVerdict \/ CommandEnds \/ AppendFails
    \/ Authorize \/ ApplyPolicy \/ BeginReview \/ EvaluatePredicate \/ Sleep
    \/ Resolve \/ Authorized \/ ApplyResult \/ FailTask

Exited == ui = "gone" /\ UNCHANGED vars

Next == UserAct \/ UiContinues \/ WorkerStep \/ SpuriousWakeup \/ Exited

\* Both threads are scheduled. The model answers within its timeout and
\* commands end; the user is under no obligation.
Fairness == WF_vars(UiContinues) /\ WF_vars(WorkerStep)

Spec     == Init /\ [][Next]_vars
FairSpec == Spec /\ Fairness

-----------------------------------------------------------------------------
Waiting  == {"evaluate", "sleep", "waiting", "resolve"}
WkStates == {"none", "exited", "loop", "query", "completing", "command",
             "act", "authorize", "policy", "review", "authorized", "return",
             "throw"} \cup Waiting
Quitting == {"quitToken", "quitNotify", "quitJoin", "gone"}
UiStates == {"ready", "starting", "stopToken", "stopNotify", "decideNotify",
             "loading"} \cup Quitting
Results  == {"Completed", "Stopped", "StepLimitReached", "EmptyResponse"}

\* The types of the variables.
TypeOK ==
    /\ ui \in UiStates /\ wk \in WkStates /\ token \in BOOLEAN
    /\ status \in {"Ready", "Running", "Stopping", "Error"} \cup
                  (Results \ {"Completed"})
    /\ activity \in {"Idle", "Thinking", "AwaitingApproval", "RunningCommand"}
    /\ pending \in 0 .. MaxRequests /\ req \in 0 .. MaxRequests
    /\ decidedFor \in 0 .. MaxRequests
    /\ mode \in {"Auto", "Review"}
    /\ decision \in {"None", "Approve", "Reject"}
    /\ verdict \in Decisions \cup {"None"}
    /\ cmd \in CommandShapes
    /\ result \in Results \cup {"None"}

(***************************************************************************)
(* The session is busy exactly while the worker can still touch it: start, *)
(* /new, /resume, load_session and the mode switch are gated on running(), *)
(* and none of them may overlap the runner.                                *)
(***************************************************************************)
BusyWhileRunnerLives == Running <=> ~Joinable

(***************************************************************************)
(* When the approval prompt is up, the worker waits for this very request; *)
(* and a decision the user made on one request is never used for another,  *)
(* not after a stop, an error, a session switch or a new task.             *)
(***************************************************************************)
DecisionForThisRequest ==
    /\ pending # 0 => wk \in Waiting /\ pending = req
    /\ decision # "None" /\ wk \in Waiting => decidedFor = req

(***************************************************************************)
(* What runs was let through: a command in the shell is one the policy     *)
(* allows in the mode on display, or one the user approved while it was on *)
(* display; a denied command never runs.                                   *)
(***************************************************************************)
RunsOnlyApproved ==
    wk = "command" =>
        /\ EvaluatePolicy(cmd) # "Deny"
        /\ NeedsReview(cmd, mode = "Review") => decidedFor = req

\* The status line tells what the worker does (status_text, activity_text).
DisplayMatchesWorker ==
    status = "Running" =>
        /\ activity = "AwaitingApproval" <=> pending # 0
        /\ activity = "RunningCommand" <=> wk \in {"command", "completing"}
        /\ activity # "Idle"

\* Once Stopping is on display only the runner's return takes it away, and a
\* review that was pending ends in Stop, not in the user's late answer.
StoppingIsFinal ==
    [][ /\ status = "Stopping" /\ status' # "Stopping" => wk \in {"return", "throw"}
        /\ wk = "resolve" /\ wk' # "resolve" /\ token => verdict' = "Stop" ]_vars

\* What the status line says of the task, and what is gated on it, is true at
\* every moment.
StatusIsTrue == [](BusyWhileRunnerLives /\ DisplayMatchesWorker) /\ StoppingIsFinal

\* A decision that was accepted wakes the worker up: none is lost.
DecisionIsTaken == decision # "None" ~> decision = "None"

(***************************************************************************)
(* A stop request wakes the worker out of an approval wait                 *)
(* (docs/session-and-tui.md:135, docs/modules.md:415).                     *)
(***************************************************************************)
StopWakesReview == token /\ ui = "ready" ~> wk \notin Waiting

\* A user who presses the stop key again and again gets the task to end.
PressingStopEndsTask ==
    SF_vars(StopCalled) => (status = "Stopping" ~> ~Running \/ ui \in Quitting)
=============================================================================
