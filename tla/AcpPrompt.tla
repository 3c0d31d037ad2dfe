------------------------------ MODULE AcpPrompt ------------------------------
(***************************************************************************)
(* Prompts over ACP: AcpPromptController (acp_prompt_controller.cpp), the  *)
(* handlers of AcpServer that reach it (acp_server.cpp) and the registry   *)
(* of active sessions (acp_session_registry.cpp).                          *)
(*                                                                         *)
(* Two threads: the server thread reads one client message after another   *)
(* and handles each to its end; the worker runs one prompt. They share the *)
(* PromptState. permission_mutex is held by the worker from the predicate  *)
(* of wait_for to its sleep, and from its waking up to the return: there   *)
(* wk is "sleep" or "resolve". cancel sets the stop flag and notifies      *)
(* without that mutex, handle_response stores under it.                    *)
(*                                                                         *)
(* The runner is the loop of AgentLoop, reduced to what the controller     *)
(* sees of it. One state stands for all PromptStates: a worker is joined   *)
(* before the next one is made. A permission request bears the number of   *)
(* the tool call it is about: a tool call has at most one.                 *)
(***************************************************************************)
EXTENDS Integers, Sequences, FiniteSets, CommandAuthorization

CONSTANTS
    Sessions,     \* the sessions of the store
    Commands,     \* the shapes of command the model may ask for
    Capacity,     \* context_.active_session_limit
    MaxPrompts,   \* bound: session/prompt requests in a behaviour
    MaxTools,     \* bound: tool calls in a behaviour
    MaxOpens      \* bound: session/new, load and resume in a behaviour

ASSUME SessionsAssumption == Sessions # {}
ASSUME CommandsAssumption == Commands \subseteq CommandShapes /\ Commands # {}
ASSUME BoundsAssumption ==
    /\ MaxPrompts \in Nat /\ MaxTools \in Nat /\ MaxOpens \in Nat
    /\ Capacity \in Nat \ {0}

VARIABLES
    srv,        \* server thread: "ready" to read, or inside a handler
    broken,     \* the output stream fails: every later write throws
    open,       \* per session the number of its AgentSession object, 0 if none
    opens,      \* objects made so far
    prompts,    \* session/prompt requests so far
    replied,    \* per request the responses written to it
    active,     \* active_: the prompt it points to, 0 if empty
    cur,        \* the prompt of the last worker: the PromptState's request_id
    sess,       \* its session
    object,     \* the AgentSession object it holds
    wk,         \* worker: "none" when joined, "exited" when finished
    token,      \* stop_source
    awaiting,   \* permission_request_id, 0 if empty
    answer,     \* permission_response
    asked,      \* tool call of the last permission request written
    allowed,    \* tool calls for which the client answered allow-once
    tool,       \* the last tool call
    tools,      \* tool_calls: per tool call its status, "None" if absent
    view,       \* per tool call the statuses the client was told
    cmd,        \* the command of the last tool call
    verdict,    \* the CommandDecision on its way back to the loop
    result      \* AgentRunResult::status on its way back to run_prompt

vars == <<srv, broken, open, opens, prompts, replied, active, cur, sess,
          object, wk, token, awaiting, answer, asked, allowed, tool, tools,
          view, cmd, verdict, result>>

registry == <<open, opens>>
requests == <<prompts, replied>>
prompt   == <<cur, sess, object>>
waiting  == <<awaiting, answer>>
calls    == <<tool, tools, view, cmd>>
server   == <<srv, registry, active, prompt, asked, allowed>>

ToolIds   == 1 .. MaxTools
PromptIds == 1 .. MaxPrompts
Blank     == [program |-> "none", complex |-> FALSE]

Init ==
    /\ srv = "ready" /\ broken = FALSE
    /\ open = [s \in Sessions |-> 0] /\ opens = 0
    /\ prompts = 0 /\ replied = [p \in PromptIds |-> <<>>]
    /\ active = 0 /\ cur = 0 /\ object = 0 /\ sess = CHOOSE s \in Sessions : TRUE
    /\ wk = "none" /\ token = FALSE
    /\ awaiting = 0 /\ answer = "None" /\ asked = 0 /\ allowed = {}
    /\ tool = 0 /\ tools = [t \in ToolIds |-> "None"]
    /\ view = [t \in ToolIds |-> <<>>]
    /\ cmd = Blank /\ verdict = "None" /\ result = "None"

-----------------------------------------------------------------------------
\* state->finished: the worker's last store, after which it only returns.
Finished == wk = "exited"

Joinable == wk \in {"none", "exited"}

MutexFree == wk \notin {"sleep", "resolve"}

Notify == wk' = IF wk = "waiting" THEN "evaluate" ELSE wk

\* is_running: the client cannot touch the session of a prompt at work.
IsRunning(s) == active # 0 /\ sess = s /\ ~Finished

\* A response to request p, written whole or not at all (write_mutex_).
Reply(p, r) == ~broken /\ replied' = [replied EXCEPT ![p] = Append(@, r)]

\* The handler writes its answer; a write that fails ends run().
Answered == srv' = IF broken THEN "leave" ELSE "ready"

-----------------------------------------------------------------------------
(***************************************************************************)
(* The server thread: the registry.                                        *)
(***************************************************************************)
\* Mutant: the session of a prompt at work is replaced.
OpenAnytime(s) ==
    /\ srv = "ready" /\ opens < MaxOpens
    /\ open[s] # 0 \/ Cardinality({x \in Sessions : open[x] # 0}) < Capacity
    /\ opens' = opens + 1
    /\ open' = [open EXCEPT ![s] = opens + 1]
    /\ Answered
    /\ UNCHANGED <<broken, requests, active, prompt, wk, token, waiting,
                   asked, allowed, calls, verdict, result>>

\* session/new, session/load, session/resume: a new object under the id.
\* A refusal (busy, capacity, unknown session) changes nothing.
OpenSession(s) ==
    /\ srv = "ready" /\ opens < MaxOpens
    /\ ~IsRunning(s)
    /\ open[s] # 0 \/ Cardinality({x \in Sessions : open[x] # 0}) < Capacity
    /\ opens' = opens + 1
    /\ open' = [open EXCEPT ![s] = opens + 1]
    /\ Answered
    /\ UNCHANGED <<broken, requests, active, prompt, wk, token, waiting,
                   asked, allowed, calls, verdict, result>>

\* session/close: cancel_and_wait when the prompt is the session's own.
CloseSession(s) ==
    /\ srv = "ready"
    /\ IF active # 0 /\ sess = s
       THEN /\ active' = 0 /\ token' = TRUE /\ srv' = "closeNotify"
            /\ UNCHANGED open
       ELSE /\ open' = [open EXCEPT ![s] = 0] /\ Answered
            /\ UNCHANGED <<active, token>>
    /\ UNCHANGED <<broken, opens, requests, prompt, wk, waiting, asked,
                   allowed, calls, verdict, result>>

Closed ==
    /\ srv = "closeJoin" /\ Joinable
    /\ wk' = "none"
    /\ open' = [open EXCEPT ![sess] = 0]
    /\ Answered
    /\ UNCHANGED <<broken, opens, requests, active, prompt, token, waiting,
                   asked, allowed, calls, verdict, result>>

(***************************************************************************)
(* The server thread: prompts, cancellation, permission responses.         *)
(***************************************************************************)
\* The session is not active, or another prompt has the controller.
PromptRefused(s) ==
    /\ srv = "ready" /\ prompts < MaxPrompts
    /\ prompts' = prompts + 1
    /\ \/ open[s] = 0 /\ Reply(prompts + 1, "invalid")
       \/ open[s] # 0 /\ active # 0 /\ ~Finished /\ Reply(prompts + 1, "busy")
    /\ UNCHANGED <<broken, server, wk, token, waiting, calls, verdict, result>>

\* start: reap_finished, then a fresh PromptState and its worker.
PromptStarts(s) ==
    /\ srv = "ready" /\ prompts < MaxPrompts
    /\ open[s] # 0 /\ (active = 0 \/ Finished)
    /\ prompts' = prompts + 1
    /\ active' = prompts + 1 /\ cur' = prompts + 1
    /\ sess' = s /\ object' = open[s]
    /\ token' = FALSE /\ awaiting' = 0 /\ answer' = "None"
    /\ tools' = [t \in ToolIds |-> "None"]
    /\ wk' = "loop"
    /\ UNCHANGED <<srv, broken, registry, replied, asked, allowed, tool, view,
                   cmd, verdict, result>>

\* The thread cannot be created: active_ is reset, dispatch reports an error.
PromptStartFails(s) ==
    /\ srv = "ready" /\ prompts < MaxPrompts
    /\ open[s] # 0 /\ (active = 0 \/ Finished)
    /\ prompts' = prompts + 1 /\ Reply(prompts + 1, "error")
    /\ active' = 0 /\ wk' = "none"
    /\ UNCHANGED <<srv, broken, registry, prompt, asked, allowed, token,
                   waiting, calls, verdict, result>>

\* Mutant: the stop request is made to a copy of the flag.
CancelOnlyNotifies(s) ==
    /\ srv = "ready" /\ active # 0 /\ sess = s
    /\ srv' = "cancelNotify"
    /\ UNCHANGED <<broken, registry, requests, active, prompt, wk, token,
                   waiting, asked, allowed, calls, verdict, result>>

\* session/cancel: for the session of the active prompt only.
Cancel(s) ==
    /\ srv = "ready" /\ active # 0 /\ sess = s
    /\ token' = TRUE
    /\ srv' = "cancelNotify"
    /\ UNCHANGED <<broken, registry, requests, active, prompt, wk, waiting,
                   asked, allowed, calls, verdict, result>>

\* Mutant: a response is taken whatever request it answers.
HandleAnyResponse(t, a) ==
    /\ srv = "ready" /\ MutexFree
    /\ t \in 1 .. asked
    /\ allowed' = IF a = "Allow" THEN allowed \cup {t} ELSE allowed
    /\ IF active # 0 /\ awaiting # 0
       THEN answer' = a /\ srv' = "answerNotify"
       ELSE UNCHANGED <<answer, srv>>
    /\ UNCHANGED <<broken, registry, requests, active, prompt, wk, token,
                   awaiting, asked, calls, verdict, result>>

\* The client answers a request it has seen, once more or too late included.
\* "Malformed" has a result that is no object; "Invalid" is an error response
\* or a result without one of the outcomes that were offered.
HandleResponse(t, a) ==
    /\ srv = "ready" /\ MutexFree
    /\ t \in 1 .. asked
    /\ allowed' = IF a = "Allow" THEN allowed \cup {t} ELSE allowed
    /\ IF active # 0 /\ awaiting = t
       THEN answer' = a /\ srv' = "answerNotify"
       ELSE UNCHANGED <<answer, srv>>
    /\ UNCHANGED <<broken, registry, requests, active, prompt, wk, token,
                   awaiting, asked, calls, verdict, result>>

\* Mutant: the response is stored, but the worker is not notified.
AnswerUnnotified ==
    /\ srv \in {"cancelNotify", "answerNotify", "closeNotify", "leaveNotify"}
    /\ IF srv = "answerNotify" THEN UNCHANGED wk ELSE Notify
    /\ srv' = CASE srv = "closeNotify" -> "closeJoin"
                [] srv = "leaveNotify" -> "leaveJoin"
                [] OTHER -> "ready"
    /\ UNCHANGED <<broken, registry, requests, active, prompt, token, waiting,
                   asked, allowed, calls, verdict, result>>

\* permission_cv.notify_all, and on to what the handler does next.
NotifyWorker ==
    /\ srv \in {"cancelNotify", "answerNotify", "closeNotify", "leaveNotify"}
    /\ Notify
    /\ srv' = CASE srv = "closeNotify" -> "closeJoin"
                [] srv = "leaveNotify" -> "leaveJoin"
                [] OTHER -> "ready"
    /\ UNCHANGED <<broken, registry, requests, active, prompt, token, waiting,
                   asked, allowed, calls, verdict, result>>

\* stop_and_join: at the end of the input, or from the destructor when an
\* answer of the server thread could not be written.
Leave ==
    /\ srv = "ready" \/ srv = "leave"
    /\ active' = 0
    /\ token' = (token \/ active # 0)
    /\ srv' = IF active # 0 THEN "leaveNotify" ELSE "leaveJoin"
    /\ UNCHANGED <<broken, registry, requests, prompt, wk, waiting, asked,
                   allowed, calls, verdict, result>>

Left ==
    /\ srv = "leaveJoin" /\ Joinable
    /\ wk' = "none" /\ srv' = "gone"
    /\ UNCHANGED <<broken, registry, requests, active, prompt, token, waiting,
                   asked, allowed, calls, verdict, result>>

\* The client closes its end of the output.
StreamBreaks ==
    /\ ~broken /\ srv # "gone"
    /\ broken' = TRUE
    /\ UNCHANGED <<server, requests, wk, token, waiting, calls, verdict, result>>

-----------------------------------------------------------------------------
(***************************************************************************)
(* The worker in the runner. Its writes fail on a broken stream; those     *)
(* that carry a cut-off title or the output of a command can also fail     *)
(* alone, because the JSON library refuses text that is not UTF-8. Any     *)
(* failure is an exception that leaves the runner.                         *)
(***************************************************************************)
Return(r) == wk' = "finalize" /\ result' = r

\* Tool call t is told to be s.
Tell(t, s) == ~broken /\ view' = [view EXCEPT ![t] = Append(@, s)]

Mark(t, s) == tools' = [tools EXCEPT ![t] = s]

LoopTop ==
    /\ wk = "loop"
    /\ \/ token /\ Return("Stopped")
       \/ ~token /\ Return("StepLimitReached")
       \/ ~token /\ wk' = "query" /\ UNCHANGED result
    /\ UNCHANGED <<broken, server, requests, token, waiting, calls, verdict>>

\* The model gave nothing, or the query was cancelled.
QueryEnds ==
    /\ wk = "query"
    /\ IF token THEN Return("Stopped") ELSE Return("EmptyResponse")
    /\ UNCHANGED <<broken, server, requests, token, waiting, calls, verdict>>

\* A reply of the model that asks for no tool call: a nudge, or COMPLETE_TASK.
ReplyWithoutTool ==
    /\ wk = "query" /\ ~token
    /\ wk' \in {"loop", "completing"}
    /\ UNCHANGED <<broken, server, requests, token, waiting, calls, verdict,
                   result>>

Completes ==
    /\ wk = "completing"
    /\ Return(IF token THEN "Stopped" ELSE "Completed")
    /\ UNCHANGED <<broken, server, requests, token, waiting, calls, verdict>>

RequestCommand ==
    /\ wk = "query" /\ ~token /\ tool < MaxTools
    /\ cmd' \in Commands
    /\ wk' = "authorize"
    /\ UNCHANGED <<broken, server, requests, token, waiting, tool, tools, view,
                   verdict, result>>

\* The provider, the store or a write throws.
RunnerThrows ==
    /\ \/ wk \in {"loop", "query", "completing", "command"}
       \/ broken /\ wk = "act" /\ verdict # "Stop"
    /\ wk' = "catch"
    /\ UNCHANGED <<broken, server, requests, token, waiting, calls, verdict,
                   result>>

(***************************************************************************)
(* authorize_command: a tool call, then the policy, then the client.       *)
(***************************************************************************)
Authorize ==
    /\ wk = "authorize"
    /\ IF token
       THEN verdict' = "Stop" /\ wk' = "act" /\ UNCHANGED <<tool, tools, view>>
       ELSE /\ tool' = tool + 1 /\ Mark(tool + 1, "Pending")
            /\ \/ Tell(tool + 1, "pending") /\ wk' = "policy"
               \/ wk' = "catch" /\ UNCHANGED view
            /\ UNCHANGED verdict
    /\ UNCHANGED <<broken, server, requests, token, waiting, cmd, result>>

ApplyPolicy ==
    /\ wk = "policy"
    /\ IF EvaluatePolicy(cmd) # "Deny" /\ NeedsReview(cmd, FALSE)
       THEN wk' = "request" /\ UNCHANGED verdict
       ELSE wk' = "act" /\ verdict' \in AuthorizeCommand(cmd, FALSE, {})
    /\ UNCHANGED <<broken, server, requests, token, waiting, calls, result>>

\* request_permission: the request id is set before the request is written.
RequestPermission ==
    /\ wk = "request"
    /\ awaiting' = tool /\ answer' = "None"
    /\ wk' = "send"
    /\ UNCHANGED <<broken, server, requests, token, calls, verdict, result>>

SendRequest ==
    /\ wk = "send"
    /\ IF broken THEN wk' = "catch" /\ UNCHANGED asked
                 ELSE wk' = "evaluate" /\ asked' = tool
    /\ UNCHANGED <<srv, broken, registry, requests, active, prompt, allowed,
                   token, waiting, calls, verdict, result>>

\* The predicate of permission_cv.wait_for, under the mutex.
EvaluatePredicate ==
    /\ wk = "evaluate"
    /\ wk' = IF answer # "None" \/ token THEN "resolve" ELSE "sleep"
    /\ UNCHANGED <<broken, server, requests, token, waiting, calls, verdict,
                   result>>

Sleep ==
    /\ wk = "sleep"
    /\ wk' = "waiting"
    /\ UNCHANGED <<broken, server, requests, token, waiting, calls, verdict,
                   result>>

SpuriousWakeup ==
    /\ wk = "waiting"
    /\ wk' = "evaluate"
    /\ UNCHANGED <<broken, server, requests, token, waiting, calls, verdict,
                   result>>

\* permission_timeout_ has passed: the predicate is looked at a last time.
TimesOut ==
    /\ wk = "waiting"
    /\ IF answer # "None" \/ token
       THEN wk' = "resolve" /\ UNCHANGED <<waiting, verdict>>
       ELSE /\ verdict' = "Stop" /\ wk' = "act"
            /\ awaiting' = 0 /\ UNCHANGED answer
    /\ UNCHANGED <<broken, server, requests, token, calls, result>>

DecisionOf(a) == CASE a = "Allow" -> "Approve"
                   [] a = "Cancelled" -> "Stop"
                   [] OTHER -> "Reject"

\* A stop comes first. To look for the outcome in a malformed response throws.
Resolve ==
    /\ wk = "resolve"
    /\ \/ token /\ verdict' = "Stop" /\ wk' = "act"
       \/ ~token /\ answer # "Malformed"
          /\ verdict' = DecisionOf(answer) /\ wk' = "act"
       \/ ~token /\ answer = "Malformed"
          /\ wk' = "catch" /\ UNCHANGED verdict
    /\ awaiting' = 0 /\ answer' = "None"
    /\ UNCHANGED <<broken, server, requests, token, calls, result>>

(***************************************************************************)
(* What the loop makes of the verdict, and the end of the command.         *)
(***************************************************************************)
ActOnVerdict ==
    /\ wk = "act"
    /\ \/ /\ verdict = "Stop" /\ Return("Stopped")
          /\ UNCHANGED <<tools, view>>
       \/ /\ verdict = "Reject" /\ Tell(tool, "failed") /\ Mark(tool, "Terminal")
          /\ wk' = "loop" /\ UNCHANGED result
       \/ /\ verdict = "Approve"
          /\ Tell(tool, "in_progress") /\ Mark(tool, "InProgress")
          /\ wk' = "command" /\ UNCHANGED result
    /\ UNCHANGED <<broken, server, requests, token, waiting, tool, cmd, verdict>>

CommandEnds ==
    /\ wk = "command"
    /\ \E s \in {"completed", "failed"} : Tell(tool, s)
    /\ Mark(tool, "Terminal")
    /\ wk' = "loop"
    /\ UNCHANGED <<broken, server, requests, token, waiting, tool, cmd,
                   verdict, result>>

-----------------------------------------------------------------------------
(***************************************************************************)
(* The worker in run_prompt, after the runner.                             *)
(***************************************************************************)
Unfinished == {t \in ToolIds : tools[t] \in {"Pending", "InProgress"}}

\* finalize_unfinished_tools, one tool call of it.
FinalizeTool(t) ==
    /\ wk \in {"finalize", "catch"} /\ t \in Unfinished
    /\ Tell(t, "failed") /\ Mark(t, "Terminal")
    /\ UNCHANGED <<broken, server, requests, wk, token, waiting, tool, cmd,
                   verdict, result>>

\* Mutant: the loop's status is sent as it is.
StopReasonRaw(r) == r

StopReason(r) == CASE r = "Completed" -> "end_turn"
                   [] r = "Stopped" -> "cancelled"
                   [] r = "StepLimitReached" -> "max_turn_requests"
                   [] OTHER -> "refusal"

\* Mutant: the response overtakes the updates of the unfinished tool calls.
SendResultFirst ==
    /\ wk = "finalize"
    /\ Reply(cur, StopReason(result))
    /\ wk' = "respond"
    /\ UNCHANGED <<broken, server, prompts, token, waiting, calls, verdict,
                   result>>

SendResult ==
    /\ wk = "finalize" /\ Unfinished = {}
    /\ Reply(cur, StopReason(result))
    /\ wk' = "respond"
    /\ UNCHANGED <<broken, server, prompts, token, waiting, calls, verdict,
                   result>>

\* A write of the regular end fails: on to the handler.
EndThrows ==
    /\ wk = "finalize" /\ broken
    /\ wk' = "catch"
    /\ UNCHANGED <<broken, server, requests, token, waiting, calls, verdict,
                   result>>

\* Mutant: the handler only logs.
CatchOnlyLogs ==
    /\ wk = "catch"
    /\ Unfinished = {} \/ broken
    /\ wk' = "respond"
    /\ UNCHANGED <<broken, server, requests, token, waiting, calls, verdict,
                   result>>

\* The catch block; when its own writes fail there is no response.
SendError ==
    /\ wk = "catch"
    /\ \/ Unfinished = {} /\ Reply(cur, "error")
       \/ broken /\ UNCHANGED replied
    /\ wk' = "respond"
    /\ UNCHANGED <<broken, server, prompts, token, waiting, calls, verdict,
                   result>>

\* state->finished.store(true).
Finish ==
    /\ wk = "respond"
    /\ wk' = "exited"
    /\ UNCHANGED <<broken, server, requests, token, waiting, calls, verdict,
                   result>>

-----------------------------------------------------------------------------
Answers == {"Allow", "Reject", "Cancelled", "Invalid", "Malformed"}

ClientMessage ==
    \/ \E s \in Sessions : \/ OpenSession(s) \/ CloseSession(s) \/ Cancel(s)
                           \/ PromptRefused(s) \/ PromptStarts(s)
                           \/ PromptStartFails(s)
    \/ \E t \in ToolIds, a \in Answers : HandleResponse(t, a)
    \/ Leave

ServerContinues == NotifyWorker \/ Closed \/ Left \/ (srv = "leave" /\ Leave)

WorkerStep ==
    \/ LoopTop \/ QueryEnds \/ ReplyWithoutTool \/ Completes
    \/ RequestCommand \/ RunnerThrows \/ Authorize \/ ApplyPolicy \/ RequestPermission
    \/ SendRequest \/ EvaluatePredicate \/ Sleep \/ Resolve \/ ActOnVerdict
    \/ CommandEnds \/ SendResult \/ EndThrows \/ SendError \/ Finish
    \/ \E t \in ToolIds : FinalizeTool(t)

Exited == srv = "gone" /\ UNCHANGED vars

Next == \/ ClientMessage \/ ServerContinues \/ StreamBreaks
        \/ WorkerStep \/ SpuriousWakeup \/ TimesOut \/ Exited

\* Both threads are scheduled, the model and the shell answer; the client is
\* under no obligation. Where the permission timeout is needed the property
\* says so.
Fairness == WF_vars(ServerContinues) /\ WF_vars(WorkerStep)

Spec     == Init /\ [][Next]_vars
FairSpec == Spec /\ Fairness

-----------------------------------------------------------------------------
Waiting  == {"evaluate", "sleep", "waiting", "resolve"}
WkStates == {"none", "exited", "loop", "query", "completing", "authorize",
             "policy", "request", "send", "act", "command", "finalize",
             "catch", "respond"} \cup Waiting
SrvStates == {"ready", "cancelNotify", "answerNotify", "closeNotify",
              "closeJoin", "leave", "leaveNotify", "leaveJoin", "gone"}
Settled   == {"completed", "failed"}
Responses == {"end_turn", "cancelled", "max_turn_requests", "refusal",
              "error", "busy", "invalid"}

\* The types of the variables.
TypeOK ==
    /\ srv \in SrvStates /\ broken \in BOOLEAN
    /\ open \in [Sessions -> 0 .. MaxOpens] /\ opens \in 0 .. MaxOpens
    /\ prompts \in 0 .. MaxPrompts
    /\ replied \in [PromptIds -> Seq(Responses)]
    /\ active \in 0 .. MaxPrompts /\ cur \in 0 .. MaxPrompts
    /\ sess \in Sessions /\ object \in 0 .. MaxOpens
    /\ wk \in WkStates /\ token \in BOOLEAN
    /\ awaiting \in 0 .. MaxTools /\ answer \in Answers \cup {"None"}
    /\ asked \in 0 .. MaxTools /\ allowed \subseteq ToolIds
    /\ tool \in 0 .. MaxTools
    /\ tools \in [ToolIds -> {"None", "Pending", "InProgress", "Terminal"}]
    /\ view \in [ToolIds -> Seq({"pending", "in_progress"} \cup Settled)]
    /\ cmd \in CommandShapes /\ verdict \in Decisions \cup {"None"}
    /\ result \in {"None", "Completed", "Stopped", "StepLimitReached",
                   "EmptyResponse"}

(***************************************************************************)
(* Every session/prompt gets one response: none gets two, and only the one *)
(* at work is without, whether the others ended, failed or were refused.   *)
(***************************************************************************)
OneResponsePerPrompt ==
    /\ \A p \in PromptIds : Len(replied[p]) <= 1
    /\ ~broken => \A p \in 1 .. prompts :
                    p # cur \/ Joinable => Len(replied[p]) = 1

(***************************************************************************)
(* The client is told of one end of a tool call and of nothing after it,   *)
(* and of the end of all before the prompt's response, on every path:      *)
(* cancellation, timeout, error (docs/acp-integration.md:166-168), and the *)
(* exception of a malformed permission response while its call is pending. *)
(***************************************************************************)
ToolCallsSettleFirst ==
    /\ \A t \in ToolIds : \A i \in 1 .. Len(view[t]) - 1 :
           /\ view[t][i] \notin Settled
           /\ view[t][i + 1] = "completed" => view[t][i] = "in_progress"
    /\ cur # 0 /\ ~broken /\ (replied[cur] # <<>> \/ Joinable) =>
           \A t \in 1 .. tool :
               view[t] # <<>> /\ view[t][Len(view[t])] \in Settled

(***************************************************************************)
(* A command runs when the policy allows it, or the client answered        *)
(* allow-once to the request about this very tool call, whatever late or   *)
(* repeated responses to other requests arrive (handle_response).          *)
(***************************************************************************)
OnlyPermittedRuns ==
    wk = "command" =>
        /\ EvaluatePolicy(cmd) # "Deny"
        /\ NeedsReview(cmd, FALSE) => tool \in allowed

\* The registry holds the object the worker appends to: no load, resume or
\* close puts another view of the session beside it.
SessionObjectIsStable == ~Joinable => open[sess] = object

(***************************************************************************)
(* Cancellation ends the prompt, also one that would loop for ever, within *)
(* the permission timeout. And session/close and the shutdown, which join  *)
(* the worker on the one thread that could hand it a response, return.     *)
(***************************************************************************)
CancelEndsPrompt ==
    WF_vars(TimesOut) =>
        /\ srv = "cancelNotify" ~> Joinable
        /\ srv \in {"closeJoin", "leaveJoin"} ~> srv \in {"ready", "gone"}

\* A matching response reaches the worker without the help of the timeout.
ResponseReachesWorker == answer # "None" ~> answer = "None"

(***************************************************************************)
(* Server busy means that a prompt is running: waiting for the response of *)
(* the current one is enough (docs/troubleshooting.md:276).                *)
(***************************************************************************)
BusyMeansRunning ==
    [][\A p \in PromptIds : replied[p] = <<>> /\ replied'[p] = <<"busy">> =>
                                replied[active] = <<>>]_vars
=============================================================================
