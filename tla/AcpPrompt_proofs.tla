--------------------------- MODULE AcpPrompt_proofs ---------------------------
(***************************************************************************)
(* Theorems about AcpPrompt, for any number of sessions, prompts, tool     *)
(* calls and session objects, and every set of commands. They need no      *)
(* fairness.                                                               *)
(***************************************************************************)
EXTENDS AcpPrompt, SequenceTheorems, TLAPS

\* The worker is in the runner or in the end of run_prompt: its prompt has no
\* response yet.
Unanswered == wk \notin {"none", "exited", "respond"}

-----------------------------------------------------------------------------
(***************************************************************************)
(* Types. The next tool call has a number because the command was asked    *)
(* for below the bound, and the worker's prompt and tool call have theirs  *)
(* because they were made before.                                          *)
(***************************************************************************)
Deciding == {"policy", "request", "send"} \cup Waiting

NumbersAreMade ==
    /\ wk = "authorize" => tool < MaxTools
    /\ wk \in Deciding \cup {"command"} => tool # 0
    /\ wk = "act" /\ verdict # "Stop" => tool # 0
    /\ active # 0 => active = cur
    /\ cur <= prompts
    /\ wk # "none" => cur # 0

TypeInv == TypeOK /\ NumbersAreMade

LEMMA TypeInit == Init => TypeInv
<1> SUFFICES ASSUME Init PROVE TypeInv
  OBVIOUS
<1>1. /\ MaxPrompts \in Nat /\ MaxTools \in Nat /\ MaxOpens \in Nat
      /\ sess \in Sessions
  BY BoundsAssumption, SessionsAssumption DEF Init
<1>2. broken \in BOOLEAN /\ token \in BOOLEAN /\ cmd \in CommandShapes
  BY DEF Init, CommandShapes, Programs, Blank
<1>3. /\ open \in [Sessions -> 0 .. MaxOpens]
      /\ replied \in [PromptIds -> Seq(Responses)]
      /\ tools \in [ToolIds -> {"None", "Pending", "InProgress", "Terminal"}]
      /\ view \in [ToolIds -> Seq({"pending", "in_progress"} \cup Settled)]
  BY <1>1 DEF Init
<1>4. TypeOK
  BY <1>1, <1>2, <1>3 DEF Init, TypeOK, SrvStates, WkStates
<1> QED
  BY <1>1, <1>4 DEF Init, TypeInv, NumbersAreMade, Deciding, Waiting

\* A response or an update written to the client is at the end of its own.
LEMMA ReplyType ==
    ASSUME TypeOK, NEW p, NEW r \in Responses, Reply(p, r)
    PROVE  replied' \in [PromptIds -> Seq(Responses)]
<1>1. CASE p \in PromptIds
  <2>1. Append(replied[p], r) \in Seq(Responses)
    BY <1>1 DEF TypeOK
  <2> QED
    BY <1>1, <2>1 DEF TypeOK, Reply
<1>2. CASE p \notin PromptIds
  BY <1>2 DEF TypeOK, Reply
<1> QED
  BY <1>1, <1>2

LEMMA TellType ==
    ASSUME TypeOK, NEW t,
           NEW u \in {"pending", "in_progress"} \cup Settled, Tell(t, u)
    PROVE  view' \in [ToolIds -> Seq({"pending", "in_progress"} \cup Settled)]
<1>1. CASE t \in ToolIds
  <2>1. Append(view[t], u) \in Seq({"pending", "in_progress"} \cup Settled)
    BY <1>1 DEF TypeOK
  <2> QED
    BY <1>1, <2>1 DEF TypeOK, Tell
<1>2. CASE t \notin ToolIds
  BY <1>2 DEF TypeOK, Tell
<1> QED
  BY <1>1, <1>2

LEMMA MarkType ==
    ASSUME TypeOK, NEW t, NEW u \in {"Pending", "InProgress", "Terminal"},
           Mark(t, u)
    PROVE  tools' \in [ToolIds -> {"None", "Pending", "InProgress", "Terminal"}]
  BY DEF TypeOK, Mark

LEMMA ClientTypes == TypeInv /\ ClientMessage => TypeInv'
<1> SUFFICES ASSUME TypeInv, ClientMessage PROVE TypeInv'
  OBVIOUS
<1>0. /\ MaxPrompts \in Nat /\ MaxTools \in Nat /\ MaxOpens \in Nat
  BY BoundsAssumption
<1> USE DEF TypeInv, TypeOK, NumbersAreMade, SrvStates, WkStates, Deciding,
            Waiting, server, registry, requests, prompt, waiting, calls
<1>1. ASSUME NEW s \in Sessions, OpenSession(s) PROVE TypeInv'
  BY <1>0, <1>1 DEF OpenSession, Answered
<1>2. ASSUME NEW s \in Sessions, CloseSession(s) PROVE TypeInv'
  <2>1. token' \in BOOLEAN
    BY <1>2 DEF CloseSession
  <2>2. open' \in [Sessions -> 0 .. MaxOpens]
    BY <1>0, <1>2 DEF CloseSession
  <2>3. srv' \in SrvStates /\ active' \in 0 .. MaxPrompts
    BY <1>0, <1>2 DEF CloseSession, Answered
  <2>4. active' # 0 => active' = cur'
    BY <1>0, <1>2 DEF CloseSession
  <2> QED
    BY <1>0, <1>2, <2>1, <2>2, <2>3, <2>4 DEF CloseSession
<1>3. ASSUME NEW s \in Sessions, Cancel(s) PROVE TypeInv'
  BY <1>3 DEF Cancel
<1>4. ASSUME NEW s \in Sessions, PromptRefused(s) PROVE TypeInv'
  <2>1. replied' \in [PromptIds -> Seq(Responses)]
    BY <1>4, ReplyType DEF PromptRefused, Responses
  <2> QED
    BY <1>0, <1>4, <2>1 DEF PromptRefused
<1>5. ASSUME NEW s \in Sessions, PromptStarts(s) PROVE TypeInv'
  <2>1. token' \in BOOLEAN
    BY <1>5 DEF PromptStarts
  <2> QED
    BY <1>0, <1>5, <2>1 DEF PromptStarts
<1>6. ASSUME NEW s \in Sessions, PromptStartFails(s) PROVE TypeInv'
  <2>1. replied' \in [PromptIds -> Seq(Responses)]
    BY <1>6, ReplyType DEF PromptStartFails, Responses
  <2> QED
    BY <1>0, <1>6, <2>1 DEF PromptStartFails
<1>7. ASSUME NEW t \in ToolIds, NEW a \in Answers, HandleResponse(t, a)
      PROVE  TypeInv'
  BY <1>0, <1>7 DEF HandleResponse, ToolIds
<1>8. CASE Leave
  <2>1. token' \in BOOLEAN
    BY <1>8 DEF Leave
  <2> QED
    BY <1>0, <1>8, <2>1 DEF Leave
<1> QED
  BY <1>1, <1>2, <1>3, <1>4, <1>5, <1>6, <1>7, <1>8 DEF ClientMessage

LEMMA ServerTypes ==
    TypeInv /\ (ServerContinues \/ StreamBreaks) => TypeInv'
<1> SUFFICES ASSUME TypeInv, ServerContinues \/ StreamBreaks PROVE TypeInv'
  OBVIOUS
<1>0. /\ MaxPrompts \in Nat /\ MaxTools \in Nat /\ MaxOpens \in Nat
  BY BoundsAssumption
<1> USE DEF TypeInv, TypeOK, NumbersAreMade, SrvStates, WkStates, Deciding,
            Waiting, server, registry, requests, prompt, waiting, calls
<1>1. CASE NotifyWorker
  BY <1>0, <1>1 DEF NotifyWorker, Notify
<1>2. CASE Closed
  BY <1>0, <1>2 DEF Closed, Answered
<1>3. CASE Left
  BY <1>0, <1>3 DEF Left
<1>4. CASE StreamBreaks
  <2>1. broken' \in BOOLEAN
    BY <1>4 DEF StreamBreaks
  <2> QED
    BY <1>0, <1>4, <2>1 DEF StreamBreaks
<1>5. CASE Leave
  BY <1>5, ClientTypes DEF ClientMessage
<1> QED
  BY <1>1, <1>2, <1>3, <1>4, <1>5 DEF ServerContinues

LEMMA WorkerTypes ==
    TypeInv /\ (WorkerStep \/ SpuriousWakeup \/ TimesOut) => TypeInv'
<1> SUFFICES ASSUME TypeInv, WorkerStep \/ SpuriousWakeup \/ TimesOut
             PROVE  TypeInv'
  OBVIOUS
<1>0. /\ MaxPrompts \in Nat /\ MaxTools \in Nat /\ MaxOpens \in Nat
  BY BoundsAssumption
<1> USE DEF TypeInv, TypeOK, NumbersAreMade, WkStates, Deciding, Waiting,
            server, registry, requests, prompt, waiting, calls, Return,
            Decisions
<1>1. CASE LoopTop
  BY <1>1 DEF LoopTop
<1>2. CASE QueryEnds
  BY <1>2 DEF QueryEnds
<1>3. CASE ReplyWithoutTool
  BY <1>3 DEF ReplyWithoutTool
<1>4. CASE Completes
  BY <1>4 DEF Completes
<1>5. CASE RequestCommand
  BY <1>5, CommandsAssumption DEF RequestCommand
<1>6. CASE RunnerThrows
  BY <1>6 DEF RunnerThrows
<1>7. CASE Authorize
  <2>1. CASE token
    BY <1>7, <2>1 DEF Authorize
  <2>2. CASE ~token
    <3>1. tools' \in [ToolIds -> {"None", "Pending", "InProgress", "Terminal"}]
      BY <1>7, <2>2, MarkType DEF Authorize
    <3>2. view' \in [ToolIds -> Seq({"pending", "in_progress"} \cup Settled)]
      BY <1>7, <2>2, TellType DEF Authorize
    <3>3. tool' \in 0 .. MaxTools /\ tool' # 0
      BY <1>0, <1>7, <2>2 DEF Authorize
    <3> QED
      BY <1>7, <2>2, <3>1, <3>2, <3>3 DEF Authorize
  <2> QED
    BY <2>1, <2>2
<1>8. CASE ApplyPolicy
  BY <1>8 DEF ApplyPolicy, AuthorizeCommand
<1>9. CASE RequestPermission
  BY <1>9 DEF RequestPermission
<1>10. CASE SendRequest
  BY <1>10 DEF SendRequest
<1>11. CASE EvaluatePredicate
  BY <1>11 DEF EvaluatePredicate
<1>12. CASE Sleep
  BY <1>12 DEF Sleep
<1>13. CASE Resolve
  BY <1>0, <1>13 DEF Resolve, DecisionOf
<1>14. CASE ActOnVerdict
  <2>1. tools' \in [ToolIds -> {"None", "Pending", "InProgress", "Terminal"}]
    BY <1>14, MarkType DEF ActOnVerdict
  <2>2. view' \in [ToolIds -> Seq({"pending", "in_progress"} \cup Settled)]
    BY <1>14, TellType DEF ActOnVerdict, Settled
  <2> QED
    BY <1>14, <2>1, <2>2 DEF ActOnVerdict
<1>15. CASE CommandEnds
  <2>1. tools' \in [ToolIds -> {"None", "Pending", "InProgress", "Terminal"}]
    BY <1>15, MarkType DEF CommandEnds
  <2>2. view' \in [ToolIds -> Seq({"pending", "in_progress"} \cup Settled)]
    BY <1>15, TellType DEF CommandEnds, Settled
  <2> QED
    BY <1>15, <2>1, <2>2 DEF CommandEnds
<1>16. CASE SendResult
  <2>1. replied' \in [PromptIds -> Seq(Responses)]
    BY <1>16, ReplyType DEF SendResult, StopReason, Responses
  <2> QED
    BY <1>16, <2>1 DEF SendResult
<1>17. CASE EndThrows
  BY <1>17 DEF EndThrows
<1>18. CASE SendError
  <2>1. replied' \in [PromptIds -> Seq(Responses)]
    BY <1>18, ReplyType DEF SendError, Responses
  <2> QED
    BY <1>18, <2>1 DEF SendError
<1>19. CASE Finish
  BY <1>19 DEF Finish
<1>20. ASSUME NEW t \in ToolIds, FinalizeTool(t) PROVE TypeInv'
  <2>1. tools' \in [ToolIds -> {"None", "Pending", "InProgress", "Terminal"}]
    BY <1>20, MarkType DEF FinalizeTool
  <2>2. view' \in [ToolIds -> Seq({"pending", "in_progress"} \cup Settled)]
    BY <1>20, TellType DEF FinalizeTool, Settled
  <2> QED
    BY <1>20, <2>1, <2>2 DEF FinalizeTool
<1>21. CASE SpuriousWakeup
  BY <1>21 DEF SpuriousWakeup
<1>22. CASE TimesOut
  BY <1>0, <1>22 DEF TimesOut
<1> QED
  BY <1>1, <1>2, <1>3, <1>4, <1>5, <1>6, <1>7, <1>8, <1>9, <1>10, <1>11,
     <1>12, <1>13, <1>14, <1>15, <1>16, <1>17, <1>18, <1>19, <1>20, <1>21,
     <1>22 DEF WorkerStep

LEMMA TypeNext == TypeInv /\ [Next]_vars => TypeInv'
<1> SUFFICES ASSUME TypeInv, [Next]_vars PROVE TypeInv'
  OBVIOUS
<1>1. CASE UNCHANGED vars
  BY <1>1 DEF vars, TypeInv, TypeOK, NumbersAreMade, Deciding, Waiting
<1> QED
  BY <1>1, ClientTypes, ServerTypes, WorkerTypes DEF Next, Exited

\* The variables have their types: no number of a prompt, a tool call or a
\* session object is ever one that was not made.
THEOREM TypeCorrect == Spec => []TypeOK
<1>1. TypeInv => TypeOK
  BY DEF TypeInv
<1> QED
  BY <1>1, TypeInit, TypeNext, PTL DEF Spec

-----------------------------------------------------------------------------
(***************************************************************************)
(* The controller's slot: it is empty only when no worker runs, except     *)
(* while the server thread waits for the one it just took out.             *)
(***************************************************************************)
SlotHoldsWorker ==
    ~Joinable => \/ active # 0
                 \/ srv \in {"closeNotify", "closeJoin", "leaveNotify",
                             "leaveJoin"}

\* What each place of the worker knows of its prompt's response.
ResponsesMatchPlace ==
    /\ \A p \in PromptIds : Len(replied[p]) <= 1
    /\ \A p \in PromptIds : p > prompts => replied[p] = <<>>
    /\ Unanswered => replied[cur] = <<>>
    /\ ~broken => \A p \in 1 .. prompts :
                    p # cur \/ ~Unanswered => Len(replied[p]) = 1

-----------------------------------------------------------------------------
(***************************************************************************)
(* What the client can have been told of a tool call.                      *)
(***************************************************************************)
Announced == <<"pending">>
Started   == <<"pending", "in_progress">>
Ended     == { <<"failed">>, <<"pending", "failed">>,
               <<"pending", "in_progress", "completed">>,
               <<"pending", "in_progress", "failed">> }
Stories   == {<<>>, Announced, Started} \cup Ended

\* The status tool_calls has and what the client was told. A prompt that lost
\* its client leaves tool calls behind that were not ended.
CallMatchesView(t) ==
    /\ view[t] \in Stories
    /\ tools[t] = "Pending"    => view[t] \in {<<>>, Announced}
    /\ tools[t] = "InProgress" => view[t] = Started
    /\ tools[t] = "Terminal"   => view[t] \in Ended
    /\ t <= tool /\ tools[t] = "None" => view[t] \in Ended \/ broken
    /\ t > tool  => view[t] = <<>> /\ tools[t] = "None"

CallsMatchPlace ==
    /\ \A t \in ToolIds : CallMatchesView(t)
    /\ wk \in Deciding => tools[tool] = "Pending" /\ view[tool] = Announced
    /\ wk = "act" /\ verdict # "Stop" =>
           tools[tool] = "Pending" /\ view[tool] = Announced
    /\ wk = "command" => tools[tool] = "InProgress"
    /\ ~Unanswered /\ ~broken => Unfinished = {}

-----------------------------------------------------------------------------
(***************************************************************************)
(* Permission: an answer that is stored was given to the request that is   *)
(* awaited, and this one is about the tool call at hand.                   *)
(***************************************************************************)
LetThrough ==
    /\ EvaluatePolicy(cmd) # "Deny"
    /\ NeedsReview(cmd, FALSE) => tool \in allowed

ApprovalsAreTrue ==
    /\ answer = "Allow" => awaiting \in allowed
    /\ wk \in {"send"} \cup Waiting => awaiting = tool
    /\ wk \in {"request", "send"} \cup Waiting => EvaluatePolicy(cmd) # "Deny"
    /\ wk = "act" /\ verdict = "Approve" => LetThrough
    /\ wk = "command" => LetThrough

IInv ==
    /\ TypeInv
    /\ SlotHoldsWorker
    /\ SessionObjectIsStable
    /\ ResponsesMatchPlace
    /\ CallsMatchPlace
    /\ ApprovalsAreTrue

-----------------------------------------------------------------------------
(***************************************************************************)
(* What the steps of a thread leave alone.                                 *)
(***************************************************************************)
WorkerMoves == WorkerStep \/ SpuriousWakeup \/ TimesOut

ServerMoves == ClientMessage \/ ServerContinues \/ StreamBreaks

\* A worker in the runner stays there and writes no response.
LEMMA RunnerFrame ==
    ASSUME WorkerMoves, ~SendResult, ~SendError, ~Finish
    PROVE  /\ Unanswered /\ Unanswered'
           /\ UNCHANGED <<srv, broken, registry, requests, active, prompt,
                          token, allowed>>
<1> USE DEF Unanswered, server, requests, registry, prompt, Return
<1>1. CASE LoopTop \/ QueryEnds \/ ReplyWithoutTool \/ Completes
           \/ RequestCommand \/ RunnerThrows \/ Authorize \/ ApplyPolicy
  BY <1>1 DEF LoopTop, QueryEnds, ReplyWithoutTool, Completes, RequestCommand,
     RunnerThrows, Authorize, ApplyPolicy
<1>2. CASE RequestPermission \/ SendRequest \/ EvaluatePredicate \/ Sleep
           \/ Resolve \/ SpuriousWakeup \/ TimesOut
  BY <1>2 DEF RequestPermission, SendRequest, EvaluatePredicate, Sleep,
     Resolve, SpuriousWakeup, TimesOut
<1>3. CASE ActOnVerdict \/ CommandEnds \/ EndThrows
  BY <1>3 DEF ActOnVerdict, CommandEnds, EndThrows
<1>4. ASSUME NEW t \in ToolIds, FinalizeTool(t)
      PROVE  /\ Unanswered /\ Unanswered'
             /\ UNCHANGED <<srv, broken, registry, requests, active, prompt,
                            token, allowed>>
  BY <1>4 DEF FinalizeTool
<1> QED
  BY <1>1, <1>2, <1>3, <1>4 DEF WorkerMoves, WorkerStep

\* The end of a prompt: its response, then the flag.
LEMMA EndFrame ==
    ASSUME SendResult \/ SendError \/ Finish
    PROVE  /\ wk \notin {"none", "exited"} /\ ~Unanswered'
           /\ wk' \in {"respond", "exited"}
           /\ UNCHANGED <<server, broken, prompts, token, waiting, calls>>
  BY DEF SendResult, SendError, Finish, Unanswered, requests

\* The server thread starts a worker, joins one or wakes it up. The stream
\* may break, and is not mended.
LEMMA ServerFrame ==
    ASSUME ServerMoves
    PROVE  /\ UNCHANGED <<tool, view, cmd, verdict>>
           /\ broken => broken'
           /\ \/ \E s \in Sessions : PromptStarts(s)
              \/ /\ UNCHANGED <<tools, prompt, awaiting>>
                 /\ \/ wk' = wk
                    \/ wk = "waiting" /\ wk' = "evaluate"
                    \/ Joinable /\ wk' = "none"
                    \/ wk' = "none" /\ (active = 0 \/ Finished) /\ srv = "ready"
<1> USE DEF server, registry, requests, prompt, waiting, calls
<1>1. ASSUME NEW s \in Sessions, OpenSession(s) \/ CloseSession(s) \/ Cancel(s)
      PROVE  UNCHANGED <<tool, view, cmd, verdict, tools, prompt, awaiting,
                         broken, wk>>
  BY <1>1 DEF OpenSession, CloseSession, Cancel
<1>2. ASSUME NEW s \in Sessions, PromptRefused(s)
      PROVE  UNCHANGED <<tool, view, cmd, verdict, tools, prompt, awaiting,
                         broken, wk>>
  BY <1>2 DEF PromptRefused
<1>3. ASSUME NEW s \in Sessions, PromptStarts(s)
      PROVE  UNCHANGED <<tool, view, cmd, verdict, broken>>
  BY <1>3 DEF PromptStarts
<1>4. ASSUME NEW s \in Sessions, PromptStartFails(s)
      PROVE  /\ UNCHANGED <<tool, view, cmd, verdict, tools, prompt, awaiting,
                            broken>>
             /\ wk' = "none" /\ (active = 0 \/ Finished) /\ srv = "ready"
  BY <1>4 DEF PromptStartFails
<1>5. ASSUME NEW t \in ToolIds, NEW a \in Answers, HandleResponse(t, a)
      PROVE  UNCHANGED <<tool, view, cmd, verdict, tools, prompt, awaiting,
                         broken, wk>>
  BY <1>5 DEF HandleResponse
<1>6. CASE Leave \/ StreamBreaks
  BY <1>6 DEF Leave, StreamBreaks
<1>7. CASE NotifyWorker
  BY <1>7 DEF NotifyWorker, Notify
<1>8. CASE Closed \/ Left
  BY <1>8 DEF Closed, Left
<1> QED
  BY <1>1, <1>2, <1>3, <1>4, <1>5, <1>6, <1>7, <1>8
     DEF ServerMoves, ClientMessage, ServerContinues

-----------------------------------------------------------------------------
(***************************************************************************)
(* The slot and the session object.                                        *)
(***************************************************************************)
SlotInv == SlotHoldsWorker /\ SessionObjectIsStable

LEMMA SlotNext == TypeInv /\ SlotInv /\ [Next]_vars => SlotInv'
<1> SUFFICES ASSUME TypeInv, SlotInv, [Next]_vars PROVE SlotInv'
  OBVIOUS
<1> USE DEF SlotInv, SlotHoldsWorker, SessionObjectIsStable, Joinable, server,
            registry, requests, prompt
<1>1. CASE WorkerMoves
  <2>1. CASE SendResult \/ SendError \/ Finish
    BY <2>1, EndFrame
  <2>2. CASE ~(SendResult \/ SendError \/ Finish)
    BY <1>1, <2>2, RunnerFrame DEF Unanswered
  <2> QED
    BY <2>1, <2>2
<1>2. ASSUME NEW s \in Sessions, OpenSession(s) PROVE SlotInv'
  <2>1. ~Joinable => s # sess
    BY <1>2 DEF OpenSession, IsRunning, Finished
  <2> QED
    BY <1>2, <2>1 DEF OpenSession, Answered, TypeInv, TypeOK
<1>3. ASSUME NEW s \in Sessions, CloseSession(s) PROVE SlotInv'
  BY <1>3 DEF CloseSession, Answered, TypeInv, TypeOK
<1>4. ASSUME NEW s \in Sessions, Cancel(s) \/ PromptRefused(s) PROVE SlotInv'
  BY <1>4 DEF Cancel, PromptRefused
<1>5. ASSUME NEW s \in Sessions, PromptStarts(s) PROVE SlotInv'
  <2>1. prompts' # 0
    BY <1>5, BoundsAssumption DEF PromptStarts, TypeInv, TypeOK
  <2> QED
    BY <1>5, <2>1 DEF PromptStarts
<1>6. ASSUME NEW s \in Sessions, PromptStartFails(s) PROVE SlotInv'
  BY <1>6 DEF PromptStartFails
<1>7. ASSUME NEW t \in ToolIds, NEW a \in Answers, HandleResponse(t, a)
      PROVE  SlotInv'
  BY <1>7 DEF HandleResponse
<1>8. CASE Leave
  BY <1>8 DEF Leave
<1>9. CASE NotifyWorker
  BY <1>9 DEF NotifyWorker, Notify
<1>10. CASE Closed \/ Left
  BY <1>10 DEF Closed, Left
<1>11. CASE StreamBreaks
  BY <1>11 DEF StreamBreaks
<1>12. CASE UNCHANGED vars
  BY <1>12 DEF vars
<1> QED
  BY <1>1, <1>2, <1>3, <1>4, <1>5, <1>6, <1>7, <1>8, <1>9, <1>10, <1>11,
     <1>12 DEF Next, Exited, WorkerMoves, ClientMessage, ServerContinues

\* A prompt that can be started, refused or joined has no predecessor at work.
LEMMA FreeSlotIsJoinable ==
    SlotInv /\ srv = "ready" /\ (active = 0 \/ Finished) => Joinable
  BY DEF SlotInv, SlotHoldsWorker, Joinable, Finished

-----------------------------------------------------------------------------
(***************************************************************************)
(* The responses.                                                          *)
(***************************************************************************)
\* A response to a request that had none is its only one.
LEMMA FirstReply ==
    ASSUME TypeOK, NEW p \in PromptIds, NEW r \in Responses, Reply(p, r),
           replied[p] = <<>>, \A q \in PromptIds : Len(replied[q]) <= 1
    PROVE  /\ Len(replied'[p]) = 1
           /\ \A q \in PromptIds : q # p => replied'[q] = replied[q]
           /\ \A q \in PromptIds : Len(replied'[q]) <= 1
<1>1. replied'[p] = Append(<<>>, r)
  BY DEF Reply, TypeOK
<1>2. Len(replied'[p]) = 1
  BY <1>1
<1>3. \A q \in PromptIds : q # p => replied'[q] = replied[q]
  BY DEF Reply, TypeOK
<1>4. ASSUME NEW q \in PromptIds PROVE Len(replied'[q]) <= 1
  <2>1. CASE q = p
    <3> DEFINE n == Len(replied'[q])
    <3>1. n = 1
      BY <1>2, <2>1
    <3> HIDE DEF n
    <3>2. n <= 1
      BY <3>1
    <3> QED
      BY <3>2 DEF n
  <2>2. CASE q # p
    <3>1. replied'[q] = replied[q]
      BY <1>3, <2>2
    <3> QED
      BY <3>1
  <2> QED
    BY <2>1, <2>2
<1> QED
  BY <1>2, <1>3, <1>4

LEMMA ResponsesNext ==
    TypeInv /\ TypeInv' /\ SlotInv /\ ResponsesMatchPlace /\ [Next]_vars
        => ResponsesMatchPlace'
<1> SUFFICES ASSUME TypeInv, TypeInv', SlotInv, ResponsesMatchPlace,
                    [Next]_vars
             PROVE  ResponsesMatchPlace'
  OBVIOUS
<1>0. /\ MaxPrompts \in Nat /\ prompts \in 0 .. MaxPrompts
      /\ prompts' \in 0 .. MaxPrompts
      /\ cur \in 0 .. MaxPrompts /\ cur <= prompts
      /\ TypeOK
  BY BoundsAssumption DEF TypeInv, TypeOK, NumbersAreMade
<1>k. ASSUME UNCHANGED <<prompts, replied, cur>>, broken => broken',
             Unanswered' <=> Unanswered
      PROVE  ResponsesMatchPlace'
  BY <1>k DEF ResponsesMatchPlace
<1>1. CASE WorkerMoves
  <2>1. CASE SendResult \/ SendError
    <3>1. Unanswered /\ cur \in PromptIds /\ cur \in 1 .. prompts
      BY <1>0, <2>1
         DEF SendResult, SendError, Unanswered, TypeInv, NumbersAreMade,
             PromptIds
    <3>2. UNCHANGED <<prompts, cur, broken>> /\ ~Unanswered'
      BY <2>1, EndFrame DEF server, prompt
    <3>3. CASE replied' = replied /\ broken
      BY <3>1, <3>2, <3>3 DEF ResponsesMatchPlace
    <3>4. CASE \E r \in Responses : Reply(cur, r)
      <4>1. /\ Len(replied'[cur]) = 1
            /\ \A q \in PromptIds : q # cur => replied'[q] = replied[q]
            /\ \A q \in PromptIds : Len(replied'[q]) <= 1
        BY <1>0, <3>1, <3>4, FirstReply DEF ResponsesMatchPlace
      <4>2. \A q \in 1 .. prompts : q \in PromptIds
        BY <1>0 DEF PromptIds
      <4>3. ASSUME NEW q \in PromptIds, q > prompts' PROVE replied'[q] = <<>>
        <5>1. q # cur /\ q > prompts
          BY <1>0, <3>2, <4>3
        <5> QED
          BY <4>1, <5>1 DEF ResponsesMatchPlace
      <4>4. ~broken' => \A q \in 1 .. prompts' : Len(replied'[q]) = 1
        BY <1>0, <3>1, <3>2, <4>1, <4>2 DEF ResponsesMatchPlace
      <4> QED
        BY <3>2, <4>1, <4>3, <4>4 DEF ResponsesMatchPlace
    <3> QED
      BY <2>1, <3>3, <3>4
         DEF SendResult, SendError, StopReason, Responses
  <2>2. CASE Finish
    BY <1>k, <2>2
       DEF Finish, Unanswered, server, prompt, requests
  <2>3. CASE ~(SendResult \/ SendError \/ Finish)
    BY <1>1, <1>k, <2>3, RunnerFrame DEF requests, prompt
  <2> QED
    BY <2>1, <2>2, <2>3
<1>2. ASSUME NEW s \in Sessions, PromptRefused(s) \/ PromptStartFails(s)
      PROVE  ResponsesMatchPlace'
  <2>1. /\ prompts + 1 \in PromptIds /\ prompts' = prompts + 1
        /\ \E r \in Responses : Reply(prompts + 1, r)
    BY <1>0, <1>2 DEF PromptRefused, PromptStartFails, PromptIds, Responses
  <2>2. replied[prompts + 1] = <<>>
    BY <1>0, <2>1 DEF ResponsesMatchPlace
  <2>3. /\ Len(replied'[prompts + 1]) = 1
        /\ \A q \in PromptIds : q # prompts + 1 => replied'[q] = replied[q]
        /\ \A q \in PromptIds : Len(replied'[q]) <= 1
    BY <1>0, <2>1, <2>2, FirstReply DEF ResponsesMatchPlace
  <2>4. UNCHANGED <<broken, cur>> /\ (Unanswered' <=> Unanswered)
    <3>1. CASE PromptRefused(s)
      BY <3>1 DEF PromptRefused, Unanswered, server, prompt
    <3>2. CASE PromptStartFails(s)
      <4>1. Joinable
        BY <3>2, FreeSlotIsJoinable DEF PromptStartFails
      <4> QED
        BY <3>2, <4>1 DEF PromptStartFails, Unanswered, Joinable, prompt
    <3> QED
      BY <1>2, <3>1, <3>2
  <2>5. \A q \in 1 .. prompts' : q \in PromptIds /\
            (q # prompts + 1 => q \in 1 .. prompts)
    BY <1>0, <2>1 DEF PromptIds
  <2>6. Unanswered => cur # prompts + 1 /\ cur \in PromptIds
    BY <1>0 DEF TypeInv, NumbersAreMade, Unanswered, PromptIds
  <2>7. \A q \in PromptIds : q > prompts' => q > prompts /\ q # prompts + 1
    BY <1>0, <2>1 DEF PromptIds
  <2>8. \A q \in PromptIds : q > prompts' => replied'[q] = <<>>
    BY <2>3, <2>7 DEF ResponsesMatchPlace
  <2>9. Unanswered' => replied'[cur'] = <<>>
    BY <2>3, <2>4, <2>6 DEF ResponsesMatchPlace
  <2>10. ~broken' => \A q \in 1 .. prompts' :
                        q # cur' \/ ~Unanswered' => Len(replied'[q]) = 1
    BY <2>3, <2>4, <2>5 DEF ResponsesMatchPlace
  <2> QED
    BY <2>3, <2>8, <2>9, <2>10 DEF ResponsesMatchPlace
<1>3. ASSUME NEW s \in Sessions, PromptStarts(s) PROVE ResponsesMatchPlace'
  <2>1. ~Unanswered
    BY <1>3, FreeSlotIsJoinable DEF PromptStarts, Unanswered, Joinable
  <2>2. /\ prompts' = prompts + 1 /\ cur' = prompts + 1
        /\ UNCHANGED <<broken, replied>>
        /\ prompts + 1 \in PromptIds
    BY <1>0, <1>3 DEF PromptStarts, PromptIds
  <2>3. replied[prompts + 1] = <<>>
    BY <1>0, <2>2 DEF ResponsesMatchPlace
  <2>4. \A q \in 1 .. prompts' : q # cur' => q \in 1 .. prompts
    BY <1>0, <2>2
  <2>5. \A q \in PromptIds : q > prompts' => q > prompts
    BY <1>0, <2>2 DEF PromptIds
  <2>6. Unanswered'
    BY <1>3 DEF PromptStarts, Unanswered
  <2> QED
    BY <2>1, <2>2, <2>3, <2>4, <2>5, <2>6 DEF ResponsesMatchPlace
<1>4. ASSUME NEW s \in Sessions, OpenSession(s) \/ CloseSession(s) \/ Cancel(s)
      PROVE  ResponsesMatchPlace'
  BY <1>k, <1>4 DEF OpenSession, CloseSession, Cancel, Unanswered, requests,
     prompt
<1>5. ASSUME NEW t \in ToolIds, NEW a \in Answers, HandleResponse(t, a)
      PROVE  ResponsesMatchPlace'
  BY <1>k, <1>5 DEF HandleResponse, Unanswered, requests, prompt
<1>6. CASE Leave \/ StreamBreaks
  BY <1>k, <1>6 DEF Leave, StreamBreaks, Unanswered, requests, prompt, server
<1>7. CASE NotifyWorker
  BY <1>k, <1>7 DEF NotifyWorker, Notify, Unanswered, requests, prompt
<1>8. CASE Closed \/ Left
  BY <1>k, <1>8 DEF Closed, Left, Joinable, Unanswered, requests, prompt
<1>9. CASE UNCHANGED vars
  BY <1>k, <1>9 DEF vars, Unanswered
<1> QED
  BY <1>1, <1>2, <1>3, <1>4, <1>5, <1>6, <1>7, <1>8, <1>9
     DEF Next, Exited, WorkerMoves, ClientMessage, ServerContinues

-----------------------------------------------------------------------------
(***************************************************************************)
(* The tool calls.                                                         *)
(***************************************************************************)
\* Appending, element by element.
LEMMA AppendIs ==
    ASSUME NEW S, NEW u \in Seq(S), NEW b \in S, NEW v \in Seq(S),
           Len(v) = Len(u) + 1, v[Len(u) + 1] = b,
           \A i \in 1 .. Len(u) : v[i] = u[i]
    PROVE  Append(u, b) = v
<1>1. /\ Append(u, b) \in Seq(S) /\ Len(Append(u, b)) = Len(u) + 1
      /\ \A i \in 1 .. Len(u) : Append(u, b)[i] = u[i]
      /\ Append(u, b)[Len(u) + 1] = b
  BY AppendProperties
<1>2. Len(u) \in Nat
  OBVIOUS
<1>3. \A i \in 1 .. Len(Append(u, b)) : Append(u, b)[i] = v[i]
  BY <1>1, <1>2
<1> QED
  BY <1>1, <1>3, SeqEqual

LEMMA AppendToOne ==
    ASSUME NEW a, NEW b PROVE Append(<<a>>, b) = <<a, b>>
<1> DEFINE S == {a, b}
           u == <<a>>
           v == <<a, b>>
<1>1. /\ u \in Seq(S) /\ b \in S /\ v \in Seq(S)
      /\ Len(u) = 1 /\ Len(v) = 2 /\ v[1] = u[1] /\ v[2] = b
  OBVIOUS
<1> HIDE DEF S, u, v
<1>2. /\ \A i \in 1 .. Len(u) : v[i] = u[i]
      /\ Len(v) = Len(u) + 1 /\ v[Len(u) + 1] = b
  BY <1>1
<1>3. Append(u, b) = v
  BY <1>1, <1>2, AppendIs
<1> QED
  BY <1>3 DEF u, v

LEMMA AppendToTwo ==
    ASSUME NEW a, NEW b, NEW c PROVE Append(<<a, b>>, c) = <<a, b, c>>
<1> DEFINE S == {a, b, c}
           u == <<a, b>>
           v == <<a, b, c>>
<1>1. /\ u \in Seq(S) /\ c \in S /\ v \in Seq(S)
      /\ Len(u) = 2 /\ Len(v) = 3
      /\ v[1] = u[1] /\ v[2] = u[2] /\ v[3] = c
  OBVIOUS
<1> HIDE DEF S, u, v
<1>2. /\ \A i \in 1 .. Len(u) : v[i] = u[i]
      /\ Len(v) = Len(u) + 1 /\ v[Len(u) + 1] = c
  BY <1>1
<1>3. Append(u, c) = v
  BY <1>1, <1>2, AppendIs
<1> QED
  BY <1>3 DEF u, v

\* The updates the program writes lengthen a story to another one.
LEMMA StoriesGrow ==
    /\ Append(<<>>, "pending") = Announced
    /\ Append(Announced, "in_progress") = Started
    /\ Append(<<>>, "failed") \in Ended
    /\ Append(Announced, "failed") \in Ended
    /\ Append(Started, "failed") \in Ended
    /\ Append(Started, "completed") \in Ended
<1>1. \A a : Append(<<>>, a) = <<a>>
  OBVIOUS
<1> QED
  BY <1>1, AppendToOne, AppendToTwo DEF Announced, Started, Ended

\* An update of one tool call is one of no other.
LEMMA TellAndMark ==
    ASSUME TypeOK, NEW t \in ToolIds, NEW told, NEW mark,
           Tell(t, told), Mark(t, mark)
    PROVE  /\ view'[t] = Append(view[t], told) /\ tools'[t] = mark
           /\ \A u \in ToolIds : u # t => view'[u] = view[u]
                                          /\ tools'[u] = tools[u]
  BY DEF TypeOK, Tell, Mark

LEMMA CallKept ==
    ASSUME NEW t \in ToolIds, CallMatchesView(t), tool' = tool,
           broken => broken', view'[t] = view[t], tools'[t] = tools[t]
    PROVE  CallMatchesView(t)'
  BY DEF CallMatchesView

\* A tool call that is told its end has one, and one that runs was announced.
LEMMA CallEnds ==
    ASSUME TypeOK, NEW t \in ToolIds, t <= tool, CallMatchesView(t),
           tool' = tool,
           tools[t] \in {"Pending", "InProgress"},
           NEW told \in Settled,
           told = "completed" => tools[t] = "InProgress",
           view'[t] = Append(view[t], told), tools'[t] = "Terminal"
    PROVE  CallMatchesView(t)'
<1>1. view[t] \in {<<>>, Announced, Started}
      /\ (told = "completed" => view[t] = Started)
  BY DEF CallMatchesView
<1>2. view'[t] \in Ended
  BY <1>1, StoriesGrow DEF Settled
<1>3. t \in Nat /\ tool \in Nat
  BY BoundsAssumption DEF ToolIds, TypeOK
<1> QED
  BY <1>2, <1>3 DEF CallMatchesView, Stories

LEMMA CallsOfServer ==
    ASSUME TypeInv, SlotInv, CallsMatchPlace, ServerMoves
    PROVE  CallsMatchPlace'
<1> USE DEF Joinable, Unanswered, Deciding, Waiting
<1>0. UNCHANGED <<tool, view, cmd, verdict>> /\ (broken => broken')
  BY ServerFrame
<1>1. CASE \E s \in Sessions : PromptStarts(s)
  <2>1. PICK s \in Sessions : PromptStarts(s)
    BY <1>1
  <2>2. ~Unanswered
    BY <2>1, FreeSlotIsJoinable DEF PromptStarts
  <2>3. /\ \A t \in ToolIds : tools'[t] = "None"
        /\ wk' = "loop" /\ broken' = broken
    BY <2>1 DEF PromptStarts
  <2>4. ASSUME NEW t \in ToolIds PROVE CallMatchesView(t)'
    <3>1. CallMatchesView(t)
      BY DEF CallsMatchPlace
    <3>2. tools[t] \in {"None", "Terminal"} \/ broken
      <4>1. broken \/ tools[t] \notin {"Pending", "InProgress"}
        BY <2>2 DEF CallsMatchPlace, Unfinished
      <4> QED
        BY <4>1 DEF TypeInv, TypeOK
    <3> QED
      BY <1>0, <2>3, <3>1, <3>2 DEF CallMatchesView
  <2> QED
    BY <2>3, <2>4 DEF CallsMatchPlace
<1>2. CASE ~ \E s \in Sessions : PromptStarts(s)
  <2>1. /\ UNCHANGED <<tools, prompt, awaiting>>
        /\ \/ wk' = wk
           \/ wk = "waiting" /\ wk' = "evaluate"
           \/ Joinable /\ wk' = "none"
           \/ wk' = "none" /\ (active = 0 \/ Finished) /\ srv = "ready"
    BY <1>2, ServerFrame
  <2>2. \A t \in ToolIds : CallMatchesView(t)'
    BY <1>0, <2>1, CallKept DEF CallsMatchPlace
  <2>3. \/ wk' = wk
        \/ wk = "waiting" /\ wk' = "evaluate"
        \/ ~Unanswered /\ wk' = "none"
    BY <2>1, FreeSlotIsJoinable
  <2>4. (~Unanswered /\ ~broken => Unfinished = {})'
    BY <1>0, <2>1, <2>3 DEF CallsMatchPlace, Unfinished
  <2> QED
    BY <1>0, <2>1, <2>2, <2>3, <2>4 DEF CallsMatchPlace
<1> QED
  BY <1>1, <1>2

LEMMA CallsOfWorker ==
    ASSUME TypeInv, TypeInv', CallsMatchPlace, WorkerMoves
    PROVE  CallsMatchPlace'
<1>0. /\ MaxTools \in Nat /\ tool \in 0 .. MaxTools /\ TypeOK
  BY BoundsAssumption DEF TypeInv, TypeOK
<1>k. ASSUME UNCHANGED <<tool, tools, view, broken>>
      PROVE  /\ \A t \in ToolIds : CallMatchesView(t)'
             /\ Unfinished' = Unfinished
  BY <1>k, CallKept DEF CallsMatchPlace, Unfinished
<1>1. CASE SendResult \/ SendError \/ Finish
  <2>1. /\ UNCHANGED <<tool, tools, view, broken>>
        /\ wk' \in {"respond", "exited"}
    BY <1>1, EndFrame DEF calls
  <2>2. ~broken => Unfinished = {}
    BY <1>1 DEF SendResult, SendError, Finish, CallsMatchPlace, Unanswered
  <2> QED
    BY <1>k, <2>1, <2>2 DEF CallsMatchPlace, Deciding, Waiting
<1>2. CASE Authorize
  <2>1. CASE token
    BY <1>k, <1>2, <2>1 DEF Authorize, CallsMatchPlace, Deciding, Waiting,
       Unanswered
  <2>2. CASE ~token
    <3> DEFINE new == tool + 1
    <3>1. new \in ToolIds
      BY <1>0, <1>2 DEF Authorize, TypeInv, NumbersAreMade, ToolIds
    <3>2. view[new] = <<>>
      BY <1>0, <3>1 DEF CallsMatchPlace, CallMatchesView
    <3>3. /\ tool' = new /\ broken' = broken
          /\ tools'[new] = "Pending"
          /\ \A t \in ToolIds : t # new => tools'[t] = tools[t]
      BY <1>0, <1>2, <2>2, <3>1 DEF Authorize, Mark, TypeOK
    <3>4. /\ \A t \in ToolIds : t # new => view'[t] = view[t]
          /\ \/ view'[new] = Announced /\ wk' = "policy"
             \/ view'[new] = <<>> /\ wk' = "catch"
      BY <1>0, <1>2, <2>2, <3>1, <3>2, StoriesGrow DEF Authorize, Tell, TypeOK
    <3>5. ASSUME NEW t \in ToolIds PROVE CallMatchesView(t)'
      <4>1. t \in Nat /\ (t # new => (t <= tool <=> t <= tool'))
        BY <1>0, <3>3 DEF ToolIds
      <4>2. CASE t = new
        BY <1>0, <3>3, <3>4, <4>2 DEF CallMatchesView, Stories
      <4>3. CASE t # new
        <5>1. CallMatchesView(t)
          BY DEF CallsMatchPlace
        <5>2. t > tool' => t > tool
          BY <1>0, <3>3, <4>1, <4>3
        <5> QED
          BY <3>3, <3>4, <4>1, <4>3, <5>1, <5>2 DEF CallMatchesView
      <4> QED
        BY <4>2, <4>3
    <3> QED
      BY <3>3, <3>4, <3>5 DEF CallsMatchPlace, Deciding, Waiting, Unanswered
  <2> QED
    BY <2>1, <2>2
<1>3. CASE ActOnVerdict
  <2>1. CASE verdict = "Stop"
    BY <1>k, <1>3, <2>1 DEF ActOnVerdict, Return, CallsMatchPlace, Deciding,
       Waiting, Unanswered
  <2>2. CASE verdict # "Stop"
    <3>1. /\ wk = "act" /\ tool' = tool /\ broken' = broken
          /\ \/ /\ Tell(tool, "failed") /\ Mark(tool, "Terminal")
                /\ wk' = "loop"
             \/ /\ Tell(tool, "in_progress") /\ Mark(tool, "InProgress")
                /\ wk' = "command"
      BY <1>3, <2>2 DEF ActOnVerdict
    <3>2. /\ tool \in ToolIds
          /\ tools[tool] = "Pending" /\ view[tool] = Announced
      BY <1>0, <2>2, <3>1
         DEF TypeInv, NumbersAreMade, ToolIds, CallsMatchPlace
    <3>3. CallMatchesView(tool)
      BY <3>2 DEF CallsMatchPlace
    <3>4. CallMatchesView(tool)'
      <4>1. CASE Tell(tool, "failed") /\ Mark(tool, "Terminal")
        <5>1. view'[tool] = Append(view[tool], "failed")
              /\ tools'[tool] = "Terminal"
          BY <1>0, <3>2, <4>1, TellAndMark
        <5> QED
          BY <1>0, <3>1, <3>2, <3>3, <5>1, CallEnds DEF Settled
      <4>2. CASE Tell(tool, "in_progress") /\ Mark(tool, "InProgress")
        <5>1. view'[tool] = Started /\ tools'[tool] = "InProgress"
          BY <1>0, <3>2, <4>2, TellAndMark, StoriesGrow
        <5> QED
          BY <1>0, <3>1, <5>1 DEF CallMatchesView, Stories
      <4> QED
        BY <3>1, <4>1, <4>2
    <3>5. \A t \in ToolIds : t # tool => CallMatchesView(t)'
      BY <1>0, <3>1, <3>2, TellAndMark, CallKept DEF CallsMatchPlace
    <3>6. wk' = "command" => tools'[tool] = "InProgress"
      BY <1>0, <3>1, <3>2, TellAndMark
    <3> QED
      BY <3>1, <3>4, <3>5, <3>6 DEF CallsMatchPlace, Deciding, Waiting,
         Unanswered
  <2> QED
    BY <2>1, <2>2
<1>4. CASE CommandEnds
  <2>1. PICK u \in {"completed", "failed"} : Tell(tool, u)
    BY <1>4 DEF CommandEnds
  <2>2. /\ wk = "command" /\ tool' = tool /\ broken' = broken
        /\ Mark(tool, "Terminal") /\ wk' = "loop"
    BY <1>4 DEF CommandEnds
  <2>3. tool \in ToolIds /\ tools[tool] = "InProgress"
    BY <1>0, <2>2 DEF TypeInv, NumbersAreMade, ToolIds, CallsMatchPlace
  <2>4. /\ view'[tool] = Append(view[tool], u) /\ tools'[tool] = "Terminal"
        /\ \A t \in ToolIds : t # tool => view'[t] = view[t]
                                          /\ tools'[t] = tools[t]
    BY <1>0, <2>1, <2>2, <2>3, TellAndMark
  <2>5. CallMatchesView(tool)'
    BY <1>0, <2>2, <2>3, <2>4, CallEnds DEF Settled, CallsMatchPlace
  <2>6. \A t \in ToolIds : t # tool => CallMatchesView(t)'
    BY <2>2, <2>4, CallKept DEF CallsMatchPlace
  <2> QED
    BY <2>2, <2>5, <2>6 DEF CallsMatchPlace, Deciding, Waiting, Unanswered
<1>5. ASSUME NEW t \in ToolIds, FinalizeTool(t) PROVE CallsMatchPlace'
  <2>1. /\ wk \in {"finalize", "catch"} /\ wk' = wk /\ tool' = tool
        /\ broken' = broken /\ Tell(t, "failed") /\ Mark(t, "Terminal")
        /\ tools[t] \in {"Pending", "InProgress"}
    BY <1>5 DEF FinalizeTool, Unfinished
  <2>2. /\ view'[t] = Append(view[t], "failed") /\ tools'[t] = "Terminal"
        /\ \A u \in ToolIds : u # t => view'[u] = view[u]
                                       /\ tools'[u] = tools[u]
    BY <1>0, <2>1, TellAndMark
  <2>3. t <= tool
    BY <1>0, <2>1 DEF CallsMatchPlace, CallMatchesView, ToolIds
  <2>4. CallMatchesView(t)'
    BY <1>0, <2>1, <2>2, <2>3, CallEnds DEF Settled, CallsMatchPlace
  <2>5. \A u \in ToolIds : u # t => CallMatchesView(u)'
    BY <2>1, <2>2, CallKept DEF CallsMatchPlace
  <2> QED
    BY <2>1, <2>4, <2>5 DEF CallsMatchPlace, Deciding, Waiting, Unanswered
<1>6. CASE LoopTop \/ QueryEnds \/ ReplyWithoutTool \/ Completes
           \/ RequestCommand \/ RunnerThrows \/ EndThrows
  <2>1. /\ UNCHANGED <<tool, tools, view, broken>> /\ wk' # wk
        /\ wk' \in {"finalize", "query", "loop", "completing", "authorize",
                    "catch"}
    BY <1>6 DEF LoopTop, QueryEnds, ReplyWithoutTool, Completes,
       RequestCommand, RunnerThrows, EndThrows, Return, calls
  <2> QED
    BY <1>k, <2>1 DEF CallsMatchPlace, Deciding, Waiting, Unanswered
<1>7. CASE ApplyPolicy \/ RequestPermission \/ SendRequest
           \/ EvaluatePredicate \/ Sleep \/ Resolve \/ SpuriousWakeup \/ TimesOut
  <2>1. /\ UNCHANGED <<tool, tools, view, broken>>
        /\ wk \in Deciding
        /\ wk' \in Deciding \cup {"act", "catch"}
    BY <1>7 DEF ApplyPolicy, RequestPermission, SendRequest,
       EvaluatePredicate, Sleep, Resolve, SpuriousWakeup, TimesOut, calls,
       Deciding, Waiting
  <2> QED
    BY <1>k, <2>1 DEF CallsMatchPlace, Deciding, Waiting, Unanswered
<1> QED
  BY <1>1, <1>2, <1>3, <1>4, <1>5, <1>6, <1>7 DEF WorkerMoves, WorkerStep

-----------------------------------------------------------------------------
(***************************************************************************)
(* The permission.                                                         *)
(***************************************************************************)
LEMMA ApprovalsOfServer ==
    ASSUME TypeInv, ApprovalsAreTrue, ServerMoves
    PROVE  ApprovalsAreTrue'
<1> USE DEF ApprovalsAreTrue, LetThrough, NeedsReview, Waiting
<1>0. /\ UNCHANGED <<tool, cmd, verdict>>
      /\ \/ \E s \in Sessions : PromptStarts(s)
         \/ awaiting' = awaiting
            /\ \/ wk' = wk
               \/ wk = "waiting" /\ wk' = "evaluate"
               \/ wk' = "none"
  BY ServerFrame
<1>1. CASE \E s \in Sessions : PromptStarts(s)
  BY <1>1 DEF PromptStarts
<1>2. ASSUME NEW t \in ToolIds, NEW a \in Answers, HandleResponse(t, a)
      PROVE  ApprovalsAreTrue'
  <2>1. allowed \subseteq allowed' /\ (a = "Allow" => t \in allowed')
    BY <1>2 DEF HandleResponse
  <2>2. UNCHANGED <<awaiting, tool, cmd, verdict, wk>>
    BY <1>2 DEF HandleResponse, calls
  <2>3. answer' = answer \/ (answer' = a /\ awaiting = t)
    BY <1>2 DEF HandleResponse
  <2> QED
    BY <2>1, <2>2, <2>3
<1>3. CASE UNCHANGED <<answer, awaiting, allowed>>
           /\ ~ \E s \in Sessions : PromptStarts(s)
  BY <1>0, <1>3
<1>4. ASSUME NEW s \in Sessions, OpenSession(s) \/ CloseSession(s) \/ Cancel(s)
      PROVE  UNCHANGED <<answer, awaiting, allowed>>
  BY <1>4 DEF OpenSession, CloseSession, Cancel, waiting
<1>5. ASSUME NEW s \in Sessions, PromptRefused(s) \/ PromptStartFails(s)
      PROVE  UNCHANGED <<answer, awaiting, allowed>>
  BY <1>5 DEF PromptRefused, PromptStartFails, waiting, server
<1>6. CASE Leave \/ StreamBreaks \/ NotifyWorker \/ Closed \/ Left
  <2>1. UNCHANGED <<answer, awaiting, allowed>>
    BY <1>6 DEF Leave, StreamBreaks, NotifyWorker, Closed, Left, waiting,
       server
  <2> QED
    BY <1>1, <1>3, <2>1
<1> QED
  BY <1>1, <1>2, <1>3, <1>4, <1>5, <1>6
     DEF ServerMoves, ClientMessage, ServerContinues

LEMMA ApprovalsOfWorker ==
    ASSUME TypeInv, ApprovalsAreTrue, WorkerMoves
    PROVE  ApprovalsAreTrue'
<1> USE DEF ApprovalsAreTrue, LetThrough, NeedsReview, Waiting, server, waiting,
            calls
<1>1. CASE LoopTop \/ QueryEnds \/ ReplyWithoutTool \/ Completes
           \/ RequestCommand \/ RunnerThrows \/ Authorize
  BY <1>1 DEF LoopTop, QueryEnds, ReplyWithoutTool, Completes, RequestCommand,
     RunnerThrows, Authorize, Return
<1>2. CASE ApplyPolicy
  BY <1>2 DEF ApplyPolicy, AuthorizeCommand
<1>3. CASE RequestPermission \/ SendRequest \/ EvaluatePredicate \/ Sleep
           \/ SpuriousWakeup
  BY <1>3 DEF RequestPermission, SendRequest, EvaluatePredicate, Sleep,
     SpuriousWakeup
<1>4. CASE TimesOut
  BY <1>4 DEF TimesOut
<1>5. CASE Resolve
  BY <1>5 DEF Resolve, DecisionOf
<1>6. CASE ActOnVerdict
  BY <1>6 DEF ActOnVerdict, Return
<1>7. CASE CommandEnds \/ SendResult \/ EndThrows \/ SendError \/ Finish
  BY <1>7 DEF CommandEnds, SendResult, EndThrows, SendError, Finish
<1>8. ASSUME NEW t \in ToolIds, FinalizeTool(t) PROVE ApprovalsAreTrue'
  BY <1>8 DEF FinalizeTool
<1> QED
  BY <1>1, <1>2, <1>3, <1>4, <1>5, <1>6, <1>7, <1>8
     DEF WorkerMoves, WorkerStep

-----------------------------------------------------------------------------
(***************************************************************************)
(* The invariant as a whole.                                               *)
(***************************************************************************)
LEMMA InvInit == Init => IInv
<1> SUFFICES ASSUME Init PROVE IInv
  OBVIOUS
<1>1. TypeInv
  BY TypeInit
<1>2. SlotHoldsWorker /\ SessionObjectIsStable
  BY DEF Init, SlotHoldsWorker, SessionObjectIsStable, Joinable
<1>3. ResponsesMatchPlace
  BY DEF Init, ResponsesMatchPlace, Unanswered
<1>4. CallsMatchPlace
  <2>1. \A t \in ToolIds : t > tool
    BY BoundsAssumption DEF Init, ToolIds
  <2>2. \A t \in ToolIds : CallMatchesView(t)
    BY <2>1, BoundsAssumption DEF Init, CallMatchesView, Stories, ToolIds
  <2> QED
    BY <2>2 DEF Init, CallsMatchPlace, Deciding, Waiting, Unfinished
<1>5. ApprovalsAreTrue
  BY DEF Init, ApprovalsAreTrue, Waiting
<1> QED
  BY <1>1, <1>2, <1>3, <1>4, <1>5 DEF IInv

LEMMA InvNext == IInv /\ [Next]_vars => IInv'
<1> SUFFICES ASSUME IInv, [Next]_vars PROVE IInv'
  OBVIOUS
<1>1. TypeInv /\ SlotInv
  BY DEF IInv, SlotInv
<1>2. TypeInv' /\ SlotInv'
  BY <1>1, TypeNext, SlotNext
<1>3. ResponsesMatchPlace'
  BY <1>1, <1>2, ResponsesNext DEF IInv
<1>4. CASE WorkerMoves \/ ServerMoves
  BY <1>1, <1>2, <1>3, <1>4, CallsOfServer, CallsOfWorker, ApprovalsOfServer,
     ApprovalsOfWorker DEF IInv, SlotInv
<1>5. CASE UNCHANGED vars
  BY <1>2, <1>3, <1>5 DEF vars, IInv, SlotInv, CallsMatchPlace,
     CallMatchesView, Unfinished, Unanswered, Deciding, Waiting,
     ApprovalsAreTrue, LetThrough
<1> QED
  BY <1>4, <1>5 DEF Next, Exited, WorkerMoves, ServerMoves

LEMMA Invariance == Spec => []IInv
  BY InvInit, InvNext, PTL DEF Spec

-----------------------------------------------------------------------------
\* Every session/prompt gets one response, on whichever of the paths it ends.
THEOREM PromptsAreAnsweredOnce == Spec => []OneResponsePerPrompt
<1>1. IInv => OneResponsePerPrompt
  BY DEF IInv, ResponsesMatchPlace, Joinable, Unanswered, OneResponsePerPrompt
<1> QED
  BY <1>1, Invariance, PTL

\* Every story has at most one end, at its own end.
LEMMA StoriesEndOnce ==
    ASSUME NEW v \in Stories
    PROVE  /\ \A i \in 1 .. Len(v) - 1 :
                  /\ v[i] \notin Settled
                  /\ v[i + 1] = "completed" => v[i] = "in_progress"
           /\ v \in Ended => v # <<>> /\ v[Len(v)] \in Settled
<1> DEFINE Goal == /\ \A i \in 1 .. Len(v) - 1 :
                         /\ v[i] \notin Settled
                         /\ v[i + 1] = "completed" => v[i] = "in_progress"
                   /\ v \in Ended => v # <<>> /\ v[Len(v)] \in Settled
<1>1. CASE v = <<>>
  BY <1>1 DEF Ended
<1>2. ASSUME NEW a \in {"pending", "failed"}, v = <<a>> PROVE Goal
  <2>1. Len(v) = 1 /\ v[1] = a /\ v # <<>>
    BY <1>2
  <2>2. v \in Ended => a = "failed"
    BY <1>2 DEF Ended
  <2> QED
    BY <2>1, <2>2 DEF Settled
<1>3. ASSUME NEW a \in {"in_progress", "failed"}, v = <<"pending", a>>
      PROVE  Goal
  <2>1. Len(v) = 2 /\ v[1] = "pending" /\ v[2] = a /\ v # <<>>
    BY <1>3
  <2>2. v \in Ended => a = "failed"
    BY <1>3 DEF Ended
  <2>3. \A i \in 1 .. Len(v) - 1 : i = 1 /\ i + 1 = 2
    BY <2>1
  <2> QED
    BY <2>1, <2>2, <2>3 DEF Settled
<1>4. ASSUME NEW a \in Settled, v = <<"pending", "in_progress", a>>
      PROVE  Goal
  <2>1. /\ Len(v) = 3 /\ v # <<>>
        /\ v[1] = "pending" /\ v[2] = "in_progress" /\ v[3] = a
    BY <1>4
  <2>2. \A i \in 1 .. Len(v) - 1 : (i = 1 /\ i + 1 = 2) \/ (i = 2 /\ i + 1 = 3)
    BY <2>1
  <2> QED
    BY <2>1, <2>2 DEF Settled
<1> QED
  BY <1>1, <1>2, <1>3, <1>4 DEF Stories, Announced, Started, Ended, Settled

\* The client hears of one end of a tool call, of nothing after it, and of all
\* ends before the prompt's response.
THEOREM ToolCallsEnd == Spec => []ToolCallsSettleFirst
<1>1. IInv => ToolCallsSettleFirst
  <2> SUFFICES ASSUME IInv PROVE ToolCallsSettleFirst
    OBVIOUS
  <2>0. /\ MaxTools \in Nat /\ tool \in 0 .. MaxTools /\ TypeOK
        /\ cur <= prompts
    BY BoundsAssumption DEF IInv, TypeInv, TypeOK, NumbersAreMade
  <2>1. \A t \in ToolIds : view[t] \in Stories
    BY DEF IInv, CallsMatchPlace, CallMatchesView
  <2>2. ASSUME cur # 0, ~broken, replied[cur] # <<>> \/ Joinable,
               NEW t \in 1 .. tool
        PROVE  view[t] # <<>> /\ view[t][Len(view[t])] \in Settled
    <3>1. t \in ToolIds /\ t <= tool
      BY <2>0 DEF ToolIds
    <3>2. Unfinished = {}
      BY <2>2 DEF IInv, ResponsesMatchPlace, CallsMatchPlace, Joinable,
         Unanswered
    <3>3. tools[t] \in {"None", "Terminal"}
      BY <2>0, <3>1, <3>2 DEF Unfinished, TypeOK
    <3>4. view[t] \in Ended
      BY <2>2, <3>1, <3>3 DEF IInv, CallsMatchPlace, CallMatchesView
    <3> QED
      BY <2>1, <3>1, <3>4, StoriesEndOnce
  <2> QED
    BY <2>1, <2>2, StoriesEndOnce DEF ToolCallsSettleFirst
<1> QED
  BY <1>1, Invariance, PTL

\* A command in the shell is one the policy allows, or one the client allowed
\* in its answer to the request about this tool call.
THEOREM CommandsArePermitted == Spec => []OnlyPermittedRuns
<1>1. IInv => OnlyPermittedRuns
  BY DEF IInv, ApprovalsAreTrue, LetThrough, OnlyPermittedRuns
<1> QED
  BY <1>1, Invariance, PTL

\* While a prompt runs, the registry holds the session object it appends to.
THEOREM ObjectIsNotReplaced == Spec => []SessionObjectIsStable
<1>1. IInv => SessionObjectIsStable
  BY DEF IInv
<1> QED
  BY <1>1, Invariance, PTL
===============================================================================
