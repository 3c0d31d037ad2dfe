------------------------------- MODULE TuiLoop -------------------------------
(***************************************************************************)
(* The event loop of the TUI (tui.cpp): the UI thread with its key         *)
(* handlers and its frames, the refresh events by which the worker reaches *)
(* it, the slash commands that switch the session (slash_context.cpp,      *)
(* slash_builtins.cpp), and the way out.                                   *)
(*                                                                         *)
(* The worker is TuiSession's, reduced to what the UI thread sees of it:   *)
(* it changes what there is to display, asks for approvals, ends, and      *)
(* after each of these notifies. FTXUI is external: it handles one event   *)
(* after the other and then draws; ExitLoopClosure posts the exit, so that *)
(* events may still be handled before it.                                  *)
(***************************************************************************)
EXTENDS Integers

CONSTANTS
    Sessions,     \* session ids
    MaxRequests   \* bound: approvals asked for in a behaviour

ASSUME SessionsAssumption == Sessions # {}
ASSUME RequestsAssumption == MaxRequests \in Nat

VARIABLES
    ui,             \* the UI thread: "poll", or inside a handler or the exit
    dirty,          \* an event was handled since the last frame
    exiting,        \* the exit of the loop is posted
    exitAfterStop,  \* exit_after_stop
    refreshFlag,    \* refresh_event_queued
    refreshEvent,   \* a refresh event is in FTXUI's queue
    status,         \* TuiState::status_: "Idle" stands for all that are over
    pending,        \* the request awaiting approval, 0 if none
    decision,       \* approval_decision_
    req,            \* the number of the last request
    wk,             \* the worker; joinable when "ended" and done notifying
    note,           \* its notification: "no", "exchange", "post"
    lost,           \* history: the last notification's PostEvent threw
    active,         \* the session manager's active session
    view,           \* the session whose log TuiState holds
    warned,         \* history: the user was told that a switch went wrong
    fresh           \* history: the screen shows the present state

exit     == <<exiting, exitAfterStop>>
refresh  == <<refreshFlag, refreshEvent>>
approval == <<pending, decision, req>>
worker   == <<wk, note, lost>>
manager  == <<active, view, warned>>

loopVars == <<ui, dirty, exit, refresh, status, approval, worker, manager,
              fresh>>

\* After the first frame, with the restored session on display.
LoopInit ==
    /\ ui = "poll" /\ dirty = FALSE /\ exiting = FALSE /\ exitAfterStop = FALSE
    /\ refreshFlag = FALSE /\ refreshEvent = FALSE
    /\ status = "Idle" /\ pending = 0 /\ decision = "None" /\ req = 0
    /\ wk = "none" /\ note = "no" /\ lost = FALSE
    /\ active \in Sessions /\ view = active /\ warned = FALSE
    /\ fresh = TRUE

Leaving == {"leaving", "joinWorker"}

LoopTypeOK ==
    /\ ui \in {"poll", "refresh", "stopping", "quitting", "deciding",
               "loading", "starting", "gone"} \cup Leaving
    /\ {dirty, exiting, exitAfterStop, refreshFlag, refreshEvent, lost, warned,
        fresh} \subseteq BOOLEAN
    /\ status \in {"Idle", "Running", "Stopping"}
    /\ pending \in 0..req /\ req \in 0..MaxRequests
    /\ decision \in {"None", "Approve", "Reject"}
    /\ wk \in {"none", "submit", "work", "review", "ended"}
    /\ note \in {"no", "exchange", "post"}
    /\ {active, view} \subseteq Sessions
    /\ refreshFlag <=> refreshEvent \/ note = "post"
    /\ ~(refreshEvent /\ note = "post")

-----------------------------------------------------------------------------
Running  == status # "Idle"
Busy     == {"submit", "work", "review"}
Joinable == wk \in {"none", "ended"} /\ note = "no"

\* TuiSession::notify on the UI thread; the frame comes after the handler.
UiNotifies ==
    /\ refreshFlag' = TRUE
    /\ refreshEvent' = (refreshEvent \/ ~refreshFlag)
    /\ lost' = FALSE

\* The end of a handler.
Handled == ui' = "poll" /\ dirty' = TRUE

(***************************************************************************)
(* The UI thread. A frame: snapshot() and what is drawn from it.           *)
(***************************************************************************)
Draw ==
    /\ ui = "poll" /\ dirty
    /\ dirty' = FALSE /\ fresh' = TRUE
    /\ UNCHANGED <<ui, exit, refresh, status, approval, worker, manager>>

\* The refresh event: the flag first, then the look at the task.
TakeRefresh ==
    /\ ui = "poll" /\ refreshEvent
    /\ refreshEvent' = FALSE /\ refreshFlag' = FALSE
    /\ ui' = "refresh"
    /\ UNCHANGED <<dirty, exit, status, approval, worker, manager, fresh>>

\* Mutant: looks only whether a stop was asked for, and forgets it.
RefreshOnce ==
    /\ ui = "refresh"
    /\ Handled
    /\ exiting' = (exiting \/ (exitAfterStop /\ ~Running))
    /\ exitAfterStop' = FALSE
    /\ UNCHANGED <<refresh, status, approval, worker, manager, fresh>>

Refresh ==
    /\ ui = "refresh"
    /\ Handled
    /\ exiting' = (exiting \/ (exitAfterStop /\ ~Running))
    /\ UNCHANGED <<exitAfterStop, refresh, status, approval, worker, manager,
                   fresh>>

\* Every event that only changes what is on the screen: a key or a frame of
\* the animator that scrolls, the text of the prompt, the size of the terminal.
OtherEvent ==
    /\ ui = "poll"
    /\ Handled
    /\ UNCHANGED <<exit, refresh, status, approval, worker, manager, fresh>>

\* Ctrl+Q and Ctrl+D; without a task the exit is posted.
QuitKey ==
    /\ ui = "poll"
    /\ IF Running
       THEN ui' = "quitting" /\ UNCHANGED <<dirty, exiting>>
       ELSE Handled /\ exiting' = TRUE
    /\ UNCHANGED <<exitAfterStop, refresh, status, approval, worker, manager,
                   fresh>>

\* Ctrl+C and Escape during a task.
StopKey ==
    /\ ui = "poll" /\ Running
    /\ ui' = "stopping"
    /\ UNCHANGED <<dirty, exit, refresh, status, approval, worker, manager,
                   fresh>>

\* TuiSession::request_stop, refused if the task ended meanwhile.
RequestStop ==
    /\ ui \in {"stopping", "quitting"}
    /\ Handled
    /\ exitAfterStop' = (exitAfterStop \/ ui = "quitting")
    /\ IF Running
       THEN /\ status' = "Stopping"
            /\ fresh' = (fresh /\ status = "Stopping")
            /\ UiNotifies
       ELSE UNCHANGED <<status, fresh, refresh, lost>>
    /\ UNCHANGED <<exiting, approval, wk, note, manager>>

\* y and n: awaiting_command_approval() ...
DecisionKey ==
    /\ ui = "poll" /\ pending # 0
    /\ ui' = "deciding"
    /\ UNCHANGED <<dirty, exit, refresh, status, approval, worker, manager,
                   fresh>>

\* ... and then approve_command() or reject_command().
Decide ==
    /\ ui = "deciding"
    /\ Handled
    /\ IF pending # 0 /\ decision = "None"
       THEN decision' \in {"Approve", "Reject"}
       ELSE UNCHANGED decision
    /\ UNCHANGED <<exit, refresh, status, pending, req, worker, manager,
                   fresh>>

\* Enter on a prompt: start_task, outside of a running task.
StartKey ==
    /\ ui = "poll" /\ ~Running
    /\ ui' = "starting"
    /\ UNCHANGED <<dirty, exit, refresh, status, approval, worker, manager,
                   fresh>>

\* TuiSession::start returns once the last worker is joined.
Start ==
    /\ ui = "starting" /\ Joinable
    /\ Handled
    /\ status' = "Running" /\ decision' = "None"
    /\ wk' = "submit"
    /\ exitAfterStop' = FALSE
    /\ fresh' = FALSE
    /\ UiNotifies
    /\ UNCHANGED <<exiting, pending, req, note, manager>>

\* No thread to be had: the exception ends the loop.
StartThrows ==
    /\ ui = "starting" /\ Joinable
    /\ ui' = "leaving"
    /\ decision' = "None" /\ wk' = "none"
    /\ fresh' = FALSE
    /\ UiNotifies
    /\ UNCHANGED <<dirty, exit, status, pending, req, note, manager>>

\* Mutant: a session can be switched under a running task.
SwitchAnytime(s) ==
    /\ ui = "poll"
    /\ active' = s
    /\ ui' = "loading"
    /\ UNCHANGED <<dirty, exit, refresh, status, approval, worker, view, warned,
                   fresh>>

\* /new and /resume: the manager's session first ...
Switch(s) ==
    /\ ui = "poll" /\ ~Running
    /\ active' = s
    /\ ui' = "loading"
    /\ UNCHANGED <<dirty, exit, refresh, status, approval, worker, view, warned,
                   fresh>>

\* ... then the view, once the last worker is joined ...
LoadView ==
    /\ ui = "loading" /\ Joinable
    /\ Handled
    /\ view' = active /\ warned' = FALSE
    /\ decision' = "None" /\ wk' = "none"
    /\ fresh' = FALSE
    /\ UiNotifies
    /\ UNCHANGED <<exit, status, pending, req, note, active>>

\* ... unless its snapshot cannot be read: then there is only a notice.
SnapshotFails ==
    /\ ui = "loading"
    /\ Handled
    /\ warned' = TRUE /\ fresh' = FALSE
    /\ UiNotifies
    /\ UNCHANGED <<exit, status, approval, wk, note, active, view>>

\* Every other slash command, or one that fails at once: a notice. Also the
\* switch of the command mode.
Notice ==
    /\ ui = "poll" /\ ~Running
    /\ Handled
    /\ fresh' = FALSE
    /\ UiNotifies
    /\ UNCHANGED <<exit, status, approval, wk, note, manager>>

-----------------------------------------------------------------------------
(***************************************************************************)
(* The way out of tui::run: the animator first, then the worker.           *)
(***************************************************************************)
LoopEnds ==
    /\ ui = "poll" /\ exiting
    /\ ui' = "leaving"
    /\ UNCHANGED <<dirty, exit, refresh, status, approval, worker, manager,
                   fresh>>

\* The animator is joined first, if it ends: where it missed its notification
\* (TuiAnimator) this step is never taken. Then the worker, which is told to
\* stop.
JoinAnimator ==
    /\ ui = "leaving"
    /\ ui' = "joinWorker"
    /\ UNCHANGED <<dirty, exit, refresh, status, approval, worker, manager, fresh>>

JoinWorker ==
    /\ ui = "joinWorker" /\ Joinable
    /\ ui' = "gone" /\ wk' = "none"
    /\ UNCHANGED <<dirty, exit, refresh, status, approval, note, lost,
                   manager, fresh>>

Gone == ui = "gone" /\ UNCHANGED loopVars

-----------------------------------------------------------------------------
(***************************************************************************)
(* The worker, and the notification of what it did.                        *)
(***************************************************************************)
StopRequested == status = "Stopping" \/ ui = "joinWorker"

\* SessionManager::submit, on whatever session is active by then.
WorkerSubmits ==
    /\ wk = "submit"
    /\ wk' = "work"
    /\ UNCHANGED <<ui, dirty, exit, refresh, status, approval, note, lost,
                   manager, fresh>>

\* An event of the loop changed what there is to display.
WorkerReports ==
    /\ wk = "work" /\ note = "no"
    /\ note' = "exchange" /\ fresh' = FALSE
    /\ UNCHANGED <<ui, dirty, exit, refresh, status, approval, wk, lost,
                   manager>>

\* review_command: the request on display, then the wait.
WorkerAsks ==
    /\ wk = "work" /\ note = "no" /\ status = "Running" /\ req < MaxRequests
    /\ req' = req + 1 /\ pending' = req + 1 /\ decision' = "None"
    /\ wk' = "review" /\ note' = "exchange" /\ fresh' = FALSE
    /\ UNCHANGED <<ui, dirty, exit, refresh, status, lost, manager>>

WorkerResolves ==
    /\ wk = "review" /\ note = "no"
    /\ decision # "None" \/ StopRequested
    /\ pending' = 0 /\ decision' = "None"
    /\ wk' = "work" /\ note' = "exchange" /\ fresh' = FALSE
    /\ UNCHANGED <<ui, dirty, exit, refresh, status, req, lost, manager>>

\* apply_result and fail_task.
WorkerEnds ==
    /\ wk = "work" /\ note = "no"
    /\ status' = "Idle" /\ wk' = "ended"
    /\ note' = "exchange" /\ fresh' = FALSE
    /\ UNCHANGED <<ui, dirty, exit, refresh, approval, lost, manager>>

\* post_refresh on the worker's thread: refresh_event_queued.exchange(true).
ExchangeRefresh ==
    /\ note = "exchange"
    /\ refreshFlag' = TRUE
    /\ note' = IF refreshFlag THEN "no" ELSE "post"
    /\ lost' = FALSE
    /\ UNCHANGED <<ui, dirty, exit, refreshEvent, status, approval, wk,
                   manager, fresh>>

PostRefresh ==
    /\ note = "post"
    /\ refreshEvent' = TRUE /\ note' = "no"
    /\ UNCHANGED <<ui, dirty, exit, refreshFlag, status, approval, wk, lost,
                   manager, fresh>>

\* Mutant: the flag stays set when PostEvent throws.
PostRefreshFailsForGood ==
    /\ note = "post"
    /\ lost' = TRUE /\ note' = "no"
    /\ UNCHANGED <<ui, dirty, exit, refresh, status, approval, wk, manager,
                   fresh>>

\* PostEvent throws: the flag is reset, notify() swallows the exception.
PostRefreshFails ==
    /\ note = "post"
    /\ refreshFlag' = FALSE /\ lost' = TRUE /\ note' = "no"
    /\ UNCHANGED <<ui, dirty, exit, refreshEvent, status, approval, wk,
                   manager, fresh>>

-----------------------------------------------------------------------------
UserKey ==
    \/ OtherEvent \/ QuitKey \/ StopKey \/ DecisionKey \/ StartKey \/ Notice
    \/ \E s \in Sessions : Switch(s)

\* What the UI thread does by itself inside a handler and on its way out.
UiContinues ==
    \/ Refresh \/ RequestStop \/ Decide \/ Start \/ StartThrows \/ LoadView
    \/ SnapshotFails \/ JoinWorker

WorkerNotifies == ExchangeRefresh \/ PostRefresh \/ PostRefreshFails

WorkerStep ==
    \/ WorkerSubmits \/ WorkerReports \/ WorkerAsks \/ WorkerResolves
    \/ WorkerEnds \/ WorkerNotifies

LoopNext ==
    \/ Draw \/ TakeRefresh \/ UserKey \/ UiContinues \/ LoopEnds
    \/ JoinAnimator \/ WorkerStep \/ Gone

\* The threads are scheduled. The queue is first in, first out: an event in it
\* is handled, however many follow, and the loop draws when it is empty. The
\* user and the model are under no obligation, and neither is the animator.
LoopFairness ==
    /\ WF_loopVars(UiContinues)
    /\ SF_loopVars(TakeRefresh) /\ SF_loopVars(LoopEnds) /\ SF_loopVars(Draw)
    /\ WF_loopVars(WorkerNotifies)

LoopSpec == LoopInit /\ [][LoopNext]_loopVars /\ LoopFairness

-----------------------------------------------------------------------------
(***************************************************************************)
(* A prompt goes to the session whose log the user sees, or to another one *)
(* after he was told that the switch to it failed half way; that session   *)
(* stays the active one as long as the task runs.                          *)
(***************************************************************************)
PromptReachesItsSession ==
    [][ /\ wk' \in Busy => active' = view' \/ warned'
        /\ wk \in Busy => active' = active ]_loopVars

(***************************************************************************)
(* However the refresh events are coalesced, what the worker did last gets *)
(* on the screen, unless PostEvent threw and nothing was posted since, or  *)
(* the loop is over.                                                       *)
(***************************************************************************)
LastStateIsDrawn ==
    ~fresh ~> (fresh \/ lost \/ ui \in Leaving \cup {"gone"})

(***************************************************************************)
(* Ctrl+Q ends the program: at once without a task, and else when the task *)
(* has stopped, unless another one was started first or the notification   *)
(* was lost. It takes a task that heeds its stop token, and an animator    *)
(* that ends when told to: one that missed its notification does not, and  *)
(* the exit hangs (ExitJoinsAnimator in TuiAnimator).                      *)
(***************************************************************************)
TaskHeedsStop ==
    SF_loopVars(StopRequested /\ (WorkerSubmits \/ WorkerResolves \/ WorkerEnds))

AnimatorEnds == WF_loopVars(JoinAnimator)

QuitEnds ==
    TaskHeedsStop /\ AnimatorEnds =>
        /\ exiting ~> ui = "gone"
        /\ exitAfterStop ~> exiting \/ lost
                            \/ ui \in {"starting", "gone"} \cup Leaving
=============================================================================
