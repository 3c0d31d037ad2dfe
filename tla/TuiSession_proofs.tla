-------------------------- MODULE TuiSession_proofs --------------------------
(***************************************************************************)
(* Theorems about TuiSession, for every set of commands and any number of  *)
(* requests. They need no fairness.                                        *)
(***************************************************************************)
EXTENDS TuiSession, TLAPS

-----------------------------------------------------------------------------
(***************************************************************************)
(* Types. The status line takes over the runner's result, so the types     *)
(* need that a runner that returns has one.                                *)
(***************************************************************************)
ReturnsResult == wk = "return" => result # "None"

TypeInv == TypeOK /\ ReturnsResult

LEMMA TypeInit == Init => TypeInv
<1> SUFFICES ASSUME Init PROVE TypeInv
  OBVIOUS
<1>1. MaxRequests \in Nat
  BY BoundAssumption
<1>2. token \in BOOLEAN /\ cmd \in CommandShapes
  BY DEF Init, CommandShapes, Programs, Blank
<1>3. TypeOK
  BY <1>1, <1>2 DEF Init, TypeOK, UiStates, WkStates
<1> QED
  BY <1>3 DEF Init, TypeInv, ReturnsResult

LEMMA UserTypes == TypeInv /\ UserAct => TypeInv'
<1> SUFFICES ASSUME TypeInv, UserAct PROVE TypeInv'
  OBVIOUS
<1> USE DEF TypeInv, TypeOK, ReturnsResult, UiStates, WkStates, Quitting,
            Waiting, display, approval, request, Running
<1>1. CASE StartCalled
  BY <1>1 DEF StartCalled
<1>2. CASE StopCalled
  BY <1>2 DEF StopCalled
<1>3. CASE ToggleMode
  BY <1>3 DEF ToggleMode
<1>4. CASE LoadCalled
  BY <1>4 DEF LoadCalled
<1>5. CASE QuitCalled
  BY <1>5 DEF QuitCalled
<1>6. ASSUME NEW d \in {"Approve", "Reject"}, SubmitDecision(d) PROVE TypeInv'
  BY <1>6 DEF SubmitDecision
<1> QED
  BY <1>1, <1>2, <1>3, <1>4, <1>5, <1>6 DEF UserAct

LEMMA ContinueTypes == TypeInv /\ UiContinues => TypeInv'
<1> SUFFICES ASSUME TypeInv, UiContinues PROVE TypeInv'
  OBVIOUS
<1> USE DEF TypeInv, TypeOK, ReturnsResult, UiStates, WkStates, Quitting,
            Waiting, display, approval, request, Notify, Joinable
<1>0. MaxRequests \in Nat
  BY BoundAssumption
<1>1. CASE Start
  <2>1. token' \in BOOLEAN
    BY <1>1 DEF Start
  <2> QED  BY <1>0, <1>1, <2>1 DEF Start
<1>2. CASE StartFails
  <2>1. token' \in BOOLEAN
    BY <1>2 DEF StartFails
  <2> QED  BY <1>0, <1>2, <2>1 DEF StartFails
<1>3. CASE SetToken
  BY <1>3 DEF SetToken
<1>4. CASE NotifyStop
  BY <1>4 DEF NotifyStop
<1>5. CASE NotifyDecision
  BY <1>5 DEF NotifyDecision
<1>6. CASE LoadSession
  BY <1>0, <1>6 DEF LoadSession
<1>7. CASE QuitJoins
  BY <1>7 DEF QuitJoins
<1> QED
  BY <1>1, <1>2, <1>3, <1>4, <1>5, <1>6, <1>7 DEF UiContinues

LEMMA WorkerTypes == TypeInv /\ WorkerStep => TypeInv'
<1> SUFFICES ASSUME TypeInv, WorkerStep PROVE TypeInv'
  OBVIOUS
<1> USE DEF TypeInv, TypeOK, ReturnsResult, WkStates, Waiting, Results,
            display, approval, request, Return, Decide, Decisions
<1>0. MaxRequests \in Nat
  BY BoundAssumption
<1>1. CASE LoopTop
  BY <1>1 DEF LoopTop
<1>2. CASE QueryEnds
  BY <1>2 DEF QueryEnds
<1>3. CASE Nudge
  BY <1>3 DEF Nudge, ApplyEvent
<1>4. CASE CompletionStarts
  BY <1>4 DEF CompletionStarts, ApplyEvent
<1>5. CASE CompletionEnds
  BY <1>5 DEF CompletionEnds, ApplyEvent
<1>6. CASE RequestCommand
  BY <1>0, <1>6, CommandsAssumption DEF RequestCommand
<1>7. CASE ActOnVerdict
  BY <1>7 DEF ActOnVerdict, ApplyEvent
<1>8. CASE CommandEnds
  BY <1>8 DEF CommandEnds, ApplyEvent
<1>9. CASE AppendFails
  BY <1>9 DEF AppendFails
<1>10. CASE Authorize
  BY <1>10 DEF Authorize
<1>11. CASE ApplyPolicy
  BY <1>11 DEF ApplyPolicy, AuthorizeCommand
<1>12. CASE BeginReview
  BY <1>12 DEF BeginReview
<1>13. CASE EvaluatePredicate
  BY <1>13 DEF EvaluatePredicate
<1>14. CASE Sleep
  BY <1>14 DEF Sleep
<1>15. CASE Resolve
  BY <1>0, <1>15 DEF Resolve
<1>16. CASE Authorized
  BY <1>16 DEF Authorized
<1>17. CASE ApplyResult
  BY <1>0, <1>17 DEF ApplyResult, StatusOf
<1>18. CASE FailTask
  BY <1>0, <1>18 DEF FailTask
<1> QED
  BY <1>1, <1>2, <1>3, <1>4, <1>5, <1>6, <1>7, <1>8, <1>9, <1>10, <1>11,
     <1>12, <1>13, <1>14, <1>15, <1>16, <1>17, <1>18 DEF WorkerStep

LEMMA TypeNext == TypeInv /\ [Next]_vars => TypeInv'
<1> SUFFICES ASSUME TypeInv, [Next]_vars PROVE TypeInv'
  OBVIOUS
<1>1. CASE SpuriousWakeup
  BY <1>1 DEF SpuriousWakeup, TypeInv, TypeOK, ReturnsResult, WkStates,
              Waiting, display, approval, request
<1>2. CASE UNCHANGED vars
  BY <1>2 DEF vars, TypeInv, TypeOK, ReturnsResult
<1> QED
  BY <1>1, <1>2, UserTypes, ContinueTypes, WorkerTypes DEF Next, Exited

\* The variables have their types, whatever the commands and their number.
THEOREM TypeCorrect == Spec => []TypeOK
<1>1. TypeInv => TypeOK
  BY DEF TypeInv
<1> QED
  BY <1>1, TypeInit, TypeNext, PTL DEF Spec

-----------------------------------------------------------------------------
(***************************************************************************)
(* Safety. What a worker may run was decided several steps earlier, by the *)
(* policy or by the user, and what the status line shows was set several   *)
(* steps earlier: the invariant says what each place of the worker keeps   *)
(* of that.                                                                *)
(***************************************************************************)
\* From the first request on requests are numbered from 1, so that 0 can stand
\* for an empty pending_command_.
RequestIsNumbered ==
    wk \in {"authorize", "policy", "review"} \cup Waiting => req # 0

\* The command is one the policy allows in this mode, or one the user decided.
LetThrough ==
    /\ EvaluatePolicy(cmd) # "Deny"
    /\ NeedsReview(cmd, mode = "Review") => decidedFor = req

\* The user is not asked about a denied command; an approval on its way back to
\* the loop is of a command that was let through.
ApprovalsAreTrue ==
    /\ wk \in {"review"} \cup Waiting => EvaluatePolicy(cmd) # "Deny"
    /\ wk \in {"authorized", "act"} /\ verdict = "Approve" => LetThrough
    /\ wk = "command" => LetThrough

IInv ==
    /\ TypeInv
    /\ BusyWhileRunnerLives
    /\ RequestIsNumbered
    /\ DecisionForThisRequest
    /\ DisplayMatchesWorker
    /\ ApprovalsAreTrue

LEMMA InvInit == Init => IInv
<1> SUFFICES ASSUME Init PROVE IInv
  OBVIOUS
<1> QED
  BY TypeInit DEF Init, IInv, BusyWhileRunnerLives, Running, Joinable,
     RequestIsNumbered, DecisionForThisRequest, DisplayMatchesWorker,
     ApprovalsAreTrue, Waiting

LEMMA UserKeepsInv == IInv /\ TypeInv' /\ UserAct => IInv'
<1> SUFFICES ASSUME IInv, TypeInv', UserAct PROVE IInv'
  OBVIOUS
<1> USE DEF IInv, BusyWhileRunnerLives, Running, Joinable, RequestIsNumbered,
            DecisionForThisRequest, DisplayMatchesWorker, ApprovalsAreTrue,
            LetThrough, NeedsReview, Waiting, display, approval, request
<1>1. CASE StartCalled
  BY <1>1 DEF StartCalled
<1>2. CASE StopCalled
  BY <1>2 DEF StopCalled
<1>3. CASE ToggleMode
  BY <1>3 DEF ToggleMode
<1>4. CASE LoadCalled
  BY <1>4 DEF LoadCalled
<1>5. CASE QuitCalled
  BY <1>5 DEF QuitCalled
<1>6. ASSUME NEW d \in {"Approve", "Reject"}, SubmitDecision(d) PROVE IInv'
  BY <1>6 DEF SubmitDecision
<1> QED
  BY <1>1, <1>2, <1>3, <1>4, <1>5, <1>6 DEF UserAct

LEMMA ContinueKeepsInv == IInv /\ TypeInv' /\ UiContinues => IInv'
<1> SUFFICES ASSUME IInv, TypeInv', UiContinues PROVE IInv'
  OBVIOUS
<1> USE DEF IInv, BusyWhileRunnerLives, Running, Joinable, RequestIsNumbered,
            DecisionForThisRequest, DisplayMatchesWorker, ApprovalsAreTrue,
            LetThrough, NeedsReview, Waiting, display, approval, request
<1>1. CASE Start
  BY <1>1 DEF Start
<1>2. CASE StartFails
  BY <1>2 DEF StartFails
<1>3. CASE SetToken
  BY <1>3 DEF SetToken
<1>4. CASE NotifyStop
  BY <1>4 DEF NotifyStop, Notify
<1>5. CASE NotifyDecision
  BY <1>5 DEF NotifyDecision, Notify
<1>6. CASE LoadSession
  BY <1>6 DEF LoadSession
<1>7. CASE QuitJoins
  BY <1>7 DEF QuitJoins
<1> QED
  BY <1>1, <1>2, <1>3, <1>4, <1>5, <1>6, <1>7 DEF UiContinues

LEMMA WorkerKeepsInv == IInv /\ TypeInv' /\ WorkerStep => IInv'
<1> SUFFICES ASSUME IInv, TypeInv', WorkerStep PROVE IInv'
  OBVIOUS
<1> USE DEF IInv, BusyWhileRunnerLives, Running, Joinable, RequestIsNumbered,
            DecisionForThisRequest, DisplayMatchesWorker, ApprovalsAreTrue,
            LetThrough, NeedsReview, Waiting, display, approval, request
<1>1. CASE LoopTop
  BY <1>1 DEF LoopTop, Return
<1>2. CASE QueryEnds
  BY <1>2 DEF QueryEnds, Return
<1>3. CASE Nudge
  BY <1>3 DEF Nudge, ApplyEvent
<1>4. CASE CompletionStarts
  BY <1>4 DEF CompletionStarts, ApplyEvent
<1>5. CASE CompletionEnds
  BY <1>5 DEF CompletionEnds, ApplyEvent, Return
<1>6. CASE RequestCommand
  BY <1>6 DEF RequestCommand, TypeInv, TypeOK
<1>7. CASE ActOnVerdict
  BY <1>7 DEF ActOnVerdict, ApplyEvent, Return
<1>8. CASE CommandEnds
  BY <1>8 DEF CommandEnds, ApplyEvent
<1>9. CASE AppendFails
  BY <1>9 DEF AppendFails
<1>10. CASE Authorize
  BY <1>10 DEF Authorize, Decide
<1>11. CASE ApplyPolicy
  BY <1>11 DEF ApplyPolicy, Decide, AuthorizeCommand
<1>12. CASE BeginReview
  BY <1>12 DEF BeginReview, Decide
<1>13. CASE EvaluatePredicate
  BY <1>13 DEF EvaluatePredicate
<1>14. CASE Sleep
  BY <1>14 DEF Sleep
<1>15. CASE Resolve
  BY <1>15 DEF Resolve, Decide
<1>16. CASE Authorized
  BY <1>16 DEF Authorized
<1>17. CASE ApplyResult
  BY <1>17 DEF ApplyResult, StatusOf, TypeInv, TypeOK, ReturnsResult,
              Results
<1>18. CASE FailTask
  BY <1>18 DEF FailTask
<1> QED
  BY <1>1, <1>2, <1>3, <1>4, <1>5, <1>6, <1>7, <1>8, <1>9, <1>10, <1>11,
     <1>12, <1>13, <1>14, <1>15, <1>16, <1>17, <1>18 DEF WorkerStep

LEMMA InvNext == IInv /\ [Next]_vars => IInv'
<1> SUFFICES ASSUME IInv, [Next]_vars PROVE IInv'
  OBVIOUS
<1>1. TypeInv'
  BY TypeNext DEF IInv
<1>2. CASE SpuriousWakeup
  BY <1>1, <1>2 DEF SpuriousWakeup, IInv, BusyWhileRunnerLives, Running,
     Joinable, RequestIsNumbered, DecisionForThisRequest,
     DisplayMatchesWorker, ApprovalsAreTrue, LetThrough, Waiting,
     display, approval, request
<1>3. CASE UNCHANGED vars
  BY <1>1, <1>3 DEF vars, IInv, BusyWhileRunnerLives, Running, Joinable,
     RequestIsNumbered, DecisionForThisRequest, DisplayMatchesWorker,
     ApprovalsAreTrue, LetThrough, NeedsReview, Waiting
<1> QED
  BY <1>1, <1>2, <1>3, UserKeepsInv, ContinueKeepsInv, WorkerKeepsInv
     DEF Next, Exited

LEMMA Invariance == Spec => []IInv
  BY InvInit, InvNext, PTL DEF Spec

-----------------------------------------------------------------------------
\* What the approval prompt shows is what the worker waits for, and a decision
\* is used for the request it was made on only.
THEOREM DecisionsStayWithRequest == Spec => []DecisionForThisRequest
<1>1. IInv => DecisionForThisRequest
  BY DEF IInv
<1> QED
  BY <1>1, Invariance, PTL

\* A command in the shell was let through by the policy in the mode on display
\* or by the user; none that the policy denies gets there.
THEOREM OnlyApprovedRuns == Spec => []RunsOnlyApproved
<1>1. IInv => RunsOnlyApproved
  BY DEF IInv, ApprovalsAreTrue, LetThrough, RunsOnlyApproved
<1> QED
  BY <1>1, Invariance, PTL

(***************************************************************************)
(* A step that takes Stopping off the display is the worker's last one: any *)
(* other that could needs a task that is over, and this one is not. And no  *)
(* step but Resolve ends the worker's hold of the mutex.                    *)
(***************************************************************************)
StopStep ==
    /\ status = "Stopping" /\ status' # "Stopping" => wk \in {"return", "throw"}
    /\ wk = "resolve" /\ wk' # "resolve" /\ token => verdict' = "Stop"

LEMMA StopSteps == IInv /\ [Next]_vars => StopStep
<1> SUFFICES ASSUME IInv, [Next]_vars PROVE StopStep
  OBVIOUS
<1>1. status \in {"Running", "Stopping"} <=> wk \notin {"none", "exited"}
  BY DEF IInv, BusyWhileRunnerLives, Running, Joinable
<1>2. CASE UserAct
  BY <1>1, <1>2 DEF UserAct, StartCalled, StopCalled, ToggleMode, LoadCalled,
     QuitCalled, SubmitDecision, MutexFree, Running, display, StopStep
<1>3. CASE UiContinues
  BY <1>1, <1>3 DEF UiContinues, Start, StartFails, SetToken, NotifyStop,
     NotifyDecision, LoadSession, QuitJoins, Joinable, Notify, display,
     StopStep
<1>4. CASE WorkerStep \/ SpuriousWakeup
  <2>1. CASE wk \in {"return", "throw"}
    BY <2>1 DEF StopStep
  <2>2. CASE Resolve
    BY <2>2 DEF Resolve, Decide, StopStep
  <2>3. CASE BeginReview
    BY <2>3 DEF BeginReview, StopStep, display
  <2>4. CASE Nudge \/ CompletionStarts \/ CompletionEnds \/ CommandEnds
                 \/ ActOnVerdict
    BY <2>4 DEF Nudge, CompletionStarts, CompletionEnds, CommandEnds,
       ActOnVerdict, ApplyEvent, StopStep, display
  <2> QED
    BY <1>4, <2>1, <2>2, <2>3, <2>4 DEF WorkerStep, SpuriousWakeup, LoopTop,
       QueryEnds, RequestCommand, AppendFails, Authorize, ApplyPolicy,
       EvaluatePredicate, Sleep, Authorized, ApplyResult, FailTask, display,
       StopStep
<1>5. CASE UNCHANGED vars
  BY <1>5 DEF vars, StopStep
<1> QED
  BY <1>2, <1>3, <1>4, <1>5 DEF Next, Exited

\* What the status line says of the task is true at every moment, the task is
\* busy exactly while the worker can touch the session, and a stop request is
\* neither taken back nor answered by a late decision.
THEOREM StatusTellsTheTruth == Spec => StatusIsTrue
<1>1. IInv => BusyWhileRunnerLives /\ DisplayMatchesWorker
  BY DEF IInv
<1>2. IInv /\ [Next]_vars =>
          [/\ status = "Stopping" /\ status' # "Stopping" =>
                                            wk \in {"return", "throw"}
           /\ wk = "resolve" /\ wk' # "resolve" /\ token =>
                                            verdict' = "Stop"]_vars
  BY StopSteps DEF StopStep
<1> QED
  BY <1>1, <1>2, Invariance, PTL DEF Spec, StatusIsTrue, StoppingIsFinal
=============================================================================
