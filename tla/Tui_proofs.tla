------------------------------ MODULE Tui_proofs ------------------------------
(***************************************************************************)
(* Theorems about three parts of the terminal UI, which share no variable: *)
(* the event loop (TuiLoop), for any number of sessions and approvals, the *)
(* animator (TuiAnimator), for scrolls of any length, and the prompt line  *)
(* (PromptLine), for any characters and commands and texts and histories   *)
(* of any length; and, with those of LogPane_proofs about the fourth, about*)
(* the four together (MCTui). They need no fairness.                       *)
(***************************************************************************)
EXTENDS MCTui, LogPane_proofs

-----------------------------------------------------------------------------
(***************************************************************************)
(* The event loop. A prompt reaches its session because the manager's      *)
(* session changes only where no task runs, from the first half of a       *)
(* switch on: until the second half has put the new log on display, or the *)
(* user was told that it could not, the UI thread is in the handler and    *)
(* starts no task.                                                         *)
(***************************************************************************)
BusyIsRunning == wk \in Busy <=> Running

HandlerIsIdle == ui \in {"loading", "starting"} => ~Running

ViewIsActive == ui # "loading" => active = view \/ warned

LoopInv == LoopTypeOK /\ BusyIsRunning /\ HandlerIsIdle /\ ViewIsActive

\* The places of the UI thread.
UiPlaces ==
    {"poll", "refresh", "stopping", "quitting", "deciding", "loading",
     "starting", "gone", "leaving", "joinWorker"}

\* The types, the flags for themselves.
LoopFlags ==
    /\ dirty \in BOOLEAN /\ exiting \in BOOLEAN /\ exitAfterStop \in BOOLEAN
    /\ refreshFlag \in BOOLEAN /\ refreshEvent \in BOOLEAN
    /\ lost \in BOOLEAN /\ warned \in BOOLEAN /\ fresh \in BOOLEAN

LoopTypes ==
    /\ ui \in UiPlaces
    /\ status \in {"Idle", "Running", "Stopping"}
    /\ req \in 0..MaxRequests /\ pending \in 0..req
    /\ decision \in {"None", "Approve", "Reject"}
    /\ wk \in {"none", "submit", "work", "review", "ended"}
    /\ note \in {"no", "exchange", "post"}
    /\ active \in Sessions /\ view \in Sessions
    /\ refreshFlag <=> refreshEvent \/ note = "post"
    /\ ~(refreshEvent /\ note = "post")

LEMMA LoopTypesAgree == LoopTypeOK <=> LoopTypes /\ LoopFlags
BY DEF LoopTypeOK, LoopTypes, LoopFlags, UiPlaces, Leaving

LEMMA LoopInitInv == LoopInit => LoopInv
<1> SUFFICES ASSUME LoopInit PROVE LoopInv
  OBVIOUS
<1>1. LoopTypes
  BY RequestsAssumption DEF LoopInit, LoopTypes, UiPlaces
<1>2. LoopFlags
  BY Zenon DEF LoopInit, LoopFlags
<1> QED BY <1>1, <1>2, LoopTypesAgree
        DEF LoopInit, LoopInv, BusyIsRunning, HandlerIsIdle, ViewIsActive, Busy, Running

\* What of the invariant is about the session and the place of the UI thread.
LoopOrder == BusyIsRunning /\ HandlerIsIdle /\ ViewIsActive

LEMMA LoopStepFlags ==
    ASSUME LoopFlags, LoopNext PROVE LoopFlags'
<1> USE DEF LoopFlags, exit, refresh, approval, worker, manager
<1>1. CASE Draw BY <1>1, Zenon DEF Draw
<1>2. CASE TakeRefresh BY <1>2, Zenon DEF TakeRefresh
<1>3. CASE UserKey
  <2>1. CASE OtherEvent BY <2>1, Zenon DEF OtherEvent, Handled
  <2>2. CASE QuitKey BY <2>2, Zenon DEF QuitKey, Handled
  <2>3. CASE StopKey \/ DecisionKey \/ StartKey \/ \E s \in Sessions : Switch(s)
    BY <2>3, Zenon DEF StopKey, DecisionKey, StartKey, Switch
  <2>4. CASE Notice BY <2>4, Zenon DEF Notice, Handled, UiNotifies
  <2> QED BY <1>3, <2>1, <2>2, <2>3, <2>4 DEF UserKey
<1>4. CASE UiContinues
  <2>1. CASE Refresh BY <2>1, Zenon DEF Refresh, Handled
  <2>2. CASE RequestStop BY <2>2, Zenon DEF RequestStop, Handled, UiNotifies
  <2>3. CASE Decide BY <2>3, Zenon DEF Decide, Handled
  <2>4. CASE Start BY <2>4, Zenon DEF Start, Handled, UiNotifies
  <2>5. CASE StartThrows BY <2>5, Zenon DEF StartThrows, UiNotifies
  <2>6. CASE LoadView BY <2>6, Zenon DEF LoadView, Handled, UiNotifies
  <2>7. CASE SnapshotFails BY <2>7, Zenon DEF SnapshotFails, Handled, UiNotifies
  <2>8. CASE JoinWorker BY <2>8, Zenon DEF JoinWorker
  <2> QED BY <1>4, <2>1, <2>2, <2>3, <2>4, <2>5, <2>6, <2>7, <2>8 DEF UiContinues
<1>5. CASE LoopEnds \/ JoinAnimator BY <1>5, Zenon DEF LoopEnds, JoinAnimator
<1>6. CASE WorkerStep
  <2>1. CASE WorkerSubmits BY <2>1, Zenon DEF WorkerSubmits
  <2>2. CASE WorkerReports BY <2>2, Zenon DEF WorkerReports
  <2>3. CASE WorkerEnds BY <2>3, Zenon DEF WorkerEnds
  <2>4. CASE WorkerAsks BY <2>4, Zenon DEF WorkerAsks
  <2>5. CASE WorkerResolves BY <2>5, Zenon DEF WorkerResolves
  <2>6. CASE ExchangeRefresh BY <2>6, Zenon DEF ExchangeRefresh
  <2>7. CASE PostRefresh BY <2>7, Zenon DEF PostRefresh
  <2>8. CASE PostRefreshFails BY <2>8, Zenon DEF PostRefreshFails
  <2> QED BY <1>6, <2>1, <2>2, <2>3, <2>4, <2>5, <2>6, <2>7, <2>8
          DEF WorkerStep, WorkerNotifies
<1>7. CASE Gone BY <1>7, Zenon DEF Gone, loopVars
<1> QED BY <1>1, <1>2, <1>3, <1>4, <1>5, <1>6, <1>7 DEF LoopNext

LEMMA LoopStepTypes ==
    ASSUME LoopTypes, LoopNext PROVE LoopTypes'
<1> USE DEF LoopTypes, UiPlaces, exit, refresh, approval, worker, manager
<1>1. CASE Draw BY <1>1 DEF Draw
<1>2. CASE TakeRefresh BY <1>2 DEF TakeRefresh
<1>3. CASE UserKey
  <2>1. CASE OtherEvent BY <2>1 DEF OtherEvent, Handled
  <2>2. CASE QuitKey BY <2>2 DEF QuitKey, Handled
  <2>3. CASE StopKey \/ DecisionKey \/ StartKey \/ \E s \in Sessions : Switch(s)
    BY <2>3 DEF StopKey, DecisionKey, StartKey, Switch
  <2>4. CASE Notice BY <2>4 DEF Notice, Handled, UiNotifies
  <2> QED BY <1>3, <2>1, <2>2, <2>3, <2>4 DEF UserKey
<1>4. CASE UiContinues
  <2>1. CASE Refresh BY <2>1 DEF Refresh, Handled
  <2>2. CASE RequestStop BY <2>2 DEF RequestStop, Handled, UiNotifies
  <2>3. CASE Decide BY <2>3 DEF Decide, Handled
  <2>4. CASE Start BY <2>4 DEF Start, Handled, UiNotifies
  <2>5. CASE StartThrows BY <2>5 DEF StartThrows, UiNotifies
  <2>6. CASE LoadView BY <2>6 DEF LoadView, Handled, UiNotifies
  <2>7. CASE SnapshotFails BY <2>7 DEF SnapshotFails, Handled, UiNotifies
  <2>8. CASE JoinWorker BY <2>8 DEF JoinWorker
  <2> QED BY <1>4, <2>1, <2>2, <2>3, <2>4, <2>5, <2>6, <2>7, <2>8 DEF UiContinues
<1>5. CASE LoopEnds \/ JoinAnimator BY <1>5 DEF LoopEnds, JoinAnimator
<1>6. CASE WorkerStep
  <2>1. CASE WorkerSubmits \/ WorkerReports \/ WorkerEnds
    BY <2>1 DEF WorkerSubmits, WorkerReports, WorkerEnds
  <2>2. CASE WorkerAsks BY <2>2, RequestsAssumption DEF WorkerAsks
  <2>3. CASE WorkerResolves BY <2>3 DEF WorkerResolves
  <2>4. CASE WorkerNotifies
    BY <2>4 DEF WorkerNotifies, ExchangeRefresh, PostRefresh, PostRefreshFails
  <2> QED BY <1>6, <2>1, <2>2, <2>3, <2>4 DEF WorkerStep
<1>7. CASE Gone BY <1>7 DEF Gone, loopVars
<1> QED BY <1>1, <1>2, <1>3, <1>4, <1>5, <1>6, <1>7 DEF LoopNext

LEMMA LoopStepOrder ==
    ASSUME LoopTypes, LoopOrder, LoopNext PROVE LoopOrder'
<1> USE DEF LoopTypes, LoopOrder, BusyIsRunning, HandlerIsIdle, ViewIsActive,
            Busy, Running, UiPlaces, exit, refresh, approval, worker, manager
<1>1. CASE Draw BY <1>1 DEF Draw
<1>2. CASE TakeRefresh BY <1>2 DEF TakeRefresh
<1>3. CASE UserKey
  BY <1>3 DEF UserKey, OtherEvent, QuitKey, StopKey, DecisionKey, StartKey, Notice,
              Switch, Handled
<1>4. CASE UiContinues
  BY <1>4 DEF UiContinues, Refresh, RequestStop, Decide, Start, StartThrows, LoadView,
              SnapshotFails, JoinWorker, Joinable, Handled
<1>5. CASE LoopEnds \/ JoinAnimator BY <1>5 DEF LoopEnds, JoinAnimator
<1>6. CASE WorkerStep
  BY <1>6 DEF WorkerStep, WorkerSubmits, WorkerReports, WorkerEnds, WorkerAsks,
              WorkerResolves, WorkerNotifies, ExchangeRefresh, PostRefresh,
              PostRefreshFails
<1>7. CASE Gone BY <1>7 DEF Gone, loopVars
<1> QED BY <1>1, <1>2, <1>3, <1>4, <1>5, <1>6, <1>7 DEF LoopNext

LEMMA LoopStepInv == LoopInv /\ [LoopNext]_loopVars => LoopInv'
<1> SUFFICES ASSUME LoopInv, [LoopNext]_loopVars PROVE LoopInv'
  OBVIOUS
<1>1. LoopTypes /\ LoopOrder
  BY LoopTypesAgree DEF LoopInv, LoopOrder
<1>f. LoopFlags
  BY LoopTypesAgree DEF LoopInv
<1>2. CASE LoopNext
  <2>1. LoopTypes' /\ LoopOrder' /\ LoopFlags'
    BY <1>1, <1>f, <1>2, LoopStepTypes, LoopStepFlags, LoopStepOrder
  <2>2. LoopTypeOK'
    BY <2>1 DEF LoopTypeOK, LoopTypes, LoopFlags, UiPlaces, Leaving
  <2> QED BY <2>1, <2>2 DEF LoopInv, LoopOrder
<1>3. CASE UNCHANGED loopVars
  <2> USE DEF loopVars, exit, refresh, approval, worker, manager
  <2>1. LoopTypes'
    BY <1>1, <1>3 DEF LoopTypes
  <2>f. LoopFlags'
    BY <1>f, <1>3, Zenon DEF LoopFlags
  <2>2. LoopTypeOK'
    BY <2>1, <2>f DEF LoopTypeOK, LoopTypes, LoopFlags, UiPlaces, Leaving
  <2>3. LoopOrder'
    BY <1>1, <1>3 DEF LoopOrder, BusyIsRunning, HandlerIsIdle, ViewIsActive, Running
  <2> QED BY <2>2, <2>3 DEF LoopInv, LoopOrder
<1> QED BY <1>2, <1>3

THEOREM LoopInvariant == LoopSpec => []LoopInv
BY LoopInitInv, LoopStepInv, PTL DEF LoopSpec

\* The variables of the event loop keep their types, and a refresh event is
\* under way exactly when its flag is set (post_refresh in tui.cpp).
THEOREM LoopTypeCorrect == LoopSpec => []LoopTypeOK
<1>1. LoopInv => LoopTypeOK
  BY DEF LoopInv
<1> QED BY LoopInvariant, <1>1, PTL

\* A task works on the session whose log is on display, or on one whose switch
\* the user was told had failed, and on no other until it ends (start_task and
\* the slash commands in tui.cpp, SessionManager::submit).
THEOREM PromptGoesToItsSession == LoopSpec => PromptReachesItsSession
<1>1. LoopInv /\ LoopInv' /\ [LoopNext]_loopVars
        => [ /\ wk' \in Busy => active' = view' \/ warned'
             /\ wk \in Busy => active' = active ]_loopVars
  <2> SUFFICES ASSUME LoopInv, LoopInv', LoopNext
               PROVE  /\ wk' \in Busy => active' = view' \/ warned'
                      /\ wk \in Busy => active' = active
    OBVIOUS
  <2>1. wk' \in Busy => active' = view' \/ warned'
    BY DEF LoopInv, BusyIsRunning, HandlerIsIdle, ViewIsActive
  <2>2. active' # active => \E s \in Sessions : Switch(s)
    BY DEF LoopNext, UserKey, UiContinues, WorkerStep, WorkerNotifies, Draw, TakeRefresh,
           OtherEvent, QuitKey, StopKey, DecisionKey, StartKey, Notice, Refresh,
           RequestStop, Decide, Start, StartThrows, LoadView, SnapshotFails,
           JoinAnimator, JoinWorker, LoopEnds, WorkerSubmits, WorkerReports,
           WorkerAsks, WorkerResolves, WorkerEnds, ExchangeRefresh, PostRefresh,
           PostRefreshFails, Gone, manager, loopVars
  <2>3. (\E s \in Sessions : Switch(s)) => wk \notin Busy
    BY DEF Switch, LoopInv, BusyIsRunning
  <2> QED BY <2>1, <2>2, <2>3
<1> QED BY <1>1, LoopInvariant, PTL DEF LoopSpec, PromptReachesItsSession

-----------------------------------------------------------------------------
(***************************************************************************)
(* The animator. Its types are inductive with the flags for themselves.    *)
(***************************************************************************)
AnimatorFlags ==
    /\ scrolling \in BOOLEAN /\ running \in BOOLEAN /\ animating \in BOOLEAN
    /\ frameEvent \in BOOLEAN /\ missed \in BOOLEAN

AnimatorTypes ==
    /\ hand \in {"poll", "wake", "tick", "stop", "notify", "join", "joined"}
    /\ left \in 0..MaxTicks
    /\ an \in {"test", "falling", "waiting", "frame", "post", "exited"}
    /\ left # 0 => scrolling
    /\ hand = "joined" => an = "exited"

LEMMA AnimatorTypesAgree == AnimatorTypeOK <=> AnimatorTypes /\ AnimatorFlags
BY DEF AnimatorTypeOK, AnimatorTypes, AnimatorFlags

LEMMA AnimatorStepFlags ==
    ASSUME AnimatorFlags, AnimatorNext PROVE AnimatorFlags'
<1> USE DEF AnimatorFlags
<1>1. CASE ScrollKey
  <2>1. scrolling' \in BOOLEAN BY <1>1, Zenon DEF ScrollKey
  <2> QED BY <1>1, <2>1, Zenon DEF ScrollKey
<1>2. CASE JumpKey BY <1>2, Zenon DEF JumpKey
<1>3. CASE TaskStarts \/ CommandHandled \/ DrawLog
  BY <1>3, Zenon DEF TaskStarts, CommandHandled, DrawLog
<1>4. CASE TakeFrame BY <1>4, Zenon DEF TakeFrame
<1>5. CASE LoopReturns BY <1>5, Zenon DEF LoopReturns
<1>6. CASE HandContinues
  <2>1. CASE Wake
    <3>1. missed' \in BOOLEAN BY <2>1, Zenon DEF Wake, NotifyAnimator
    <3> QED BY <2>1, <3>1, Zenon DEF Wake
  <2>2. CASE StepScroll
    <3>1. scrolling' \in BOOLEAN BY <2>2, Zenon DEF StepScroll
    <3> QED BY <2>2, <3>1, Zenon DEF StepScroll
  <2>3. CASE StopAnimation BY <2>3, Zenon DEF StopAnimation
  <2>4. CASE NotifyStopped
    <3>1. missed' \in BOOLEAN BY <2>4, Zenon DEF NotifyStopped, NotifyAnimator
    <3> QED BY <2>4, <3>1, Zenon DEF NotifyStopped
  <2>5. CASE AnimatorJoined BY <2>5, Zenon DEF AnimatorJoined
  <2> QED BY <1>6, <2>1, <2>2, <2>3, <2>4, <2>5 DEF HandContinues
<1>7. CASE TaskEnds BY <1>7, Zenon DEF TaskEnds
<1>8. CASE AnimatorStep \/ SpuriousWakeup
  <2>1. CASE Test BY <2>1, Zenon DEF Test, AnimatorGoes
  <2>2. CASE FallAsleep BY <2>2, Zenon DEF FallAsleep, AnimatorGoes
  <2>3. CASE WaitFrame BY <2>3, Zenon DEF WaitFrame, AnimatorGoes
  <2>4. CASE PostFrame BY <2>4, Zenon DEF PostFrame, AnimatorGoes
  <2>5. CASE PostFrameFails BY <2>5, Zenon DEF PostFrameFails, AnimatorGoes
  <2>6. CASE SpuriousWakeup BY <2>6, Zenon DEF SpuriousWakeup, AnimatorGoes
  <2> QED BY <1>8, <2>1, <2>2, <2>3, <2>4, <2>5, <2>6 DEF AnimatorStep
<1>9. CASE Joined BY <1>9, Zenon DEF Joined, animatorVars
<1> QED BY <1>1, <1>2, <1>3, <1>4, <1>5, <1>6, <1>7, <1>8, <1>9 DEF AnimatorNext

LEMMA AnimatorStepTypes ==
    ASSUME AnimatorTypes, AnimatorNext PROVE AnimatorTypes'
<1> USE TicksAssumption DEF AnimatorTypes
<1>1. CASE ScrollKey BY <1>1 DEF ScrollKey
<1>2. CASE JumpKey BY <1>2 DEF JumpKey
<1>3. CASE TaskStarts \/ CommandHandled \/ DrawLog
  BY <1>3 DEF TaskStarts, CommandHandled, DrawLog
<1>4. CASE TakeFrame BY <1>4 DEF TakeFrame
<1>5. CASE LoopReturns BY <1>5 DEF LoopReturns
<1>6. CASE HandContinues
  <2>1. CASE Wake \/ NotifyStopped
    BY <2>1 DEF Wake, NotifyStopped, NotifyAnimator
  <2>2. CASE StepScroll
    <3>1. left' = IF left = 0 THEN 0 ELSE left - 1
      BY <2>2 DEF StepScroll
    <3>2. left' \in 0..MaxTicks
      BY <3>1
    <3>3. scrolling' <=> left' # 0
      BY <2>2, Zenon DEF StepScroll
    <3>4. hand' = "poll" /\ an' = an
      BY <2>2 DEF StepScroll
    <3> QED BY <3>2, <3>3, <3>4
  <2>3. CASE StopAnimation \/ AnimatorJoined
    BY <2>3 DEF StopAnimation, AnimatorJoined
  <2> QED BY <1>6, <2>1, <2>2, <2>3 DEF HandContinues
<1>7. CASE TaskEnds BY <1>7 DEF TaskEnds
<1>8. CASE AnimatorStep \/ SpuriousWakeup
  <2>1. CASE Test
    BY <2>1 DEF Test, AnimatorGoes
  <2>2. CASE FallAsleep \/ WaitFrame \/ SpuriousWakeup
    BY <2>2 DEF FallAsleep, WaitFrame, SpuriousWakeup, AnimatorGoes
  <2>3. CASE PostFrame \/ PostFrameFails
    BY <2>3 DEF PostFrame, PostFrameFails, AnimatorGoes
  <2> QED BY <1>8, <2>1, <2>2, <2>3 DEF AnimatorStep
<1>9. CASE Joined BY <1>9 DEF Joined, animatorVars
<1> QED BY <1>1, <1>2, <1>3, <1>4, <1>5, <1>6, <1>7, <1>8, <1>9 DEF AnimatorNext

\* What makes SleepIsExcused inductive: a scroll under way has its flag.
AnimatorInv == AnimatorTypes /\ SleepIsExcused

LEMMA AnimatorStepExcused ==
    ASSUME AnimatorTypes, SleepIsExcused, AnimatorNext PROVE SleepIsExcused'
<1> USE DEF SleepIsExcused
<1>1. CASE ScrollKey
  <2>1. scrolling' => hand' = "wake"
    BY <1>1, Zenon DEF ScrollKey
  <2> QED BY <1>1, <2>1 DEF ScrollKey
<1>2. CASE JumpKey BY <1>2 DEF JumpKey
<1>3. CASE TaskStarts \/ CommandHandled \/ DrawLog
  BY <1>3 DEF TaskStarts, CommandHandled, DrawLog
<1>4. CASE TakeFrame BY <1>4 DEF TakeFrame
<1>5. CASE LoopReturns BY <1>5 DEF LoopReturns
<1>6. CASE HandContinues
  <2>1. CASE Wake \/ NotifyStopped
    <3>1. an' # "waiting" /\ (an' = "falling" => missed')
      BY <2>1 DEF Wake, NotifyStopped, NotifyAnimator
    <3> QED BY <3>1
  <2>2. CASE StepScroll
    <3>1. scrolling' => scrolling
      <4>1. scrolling' => left' # 0
        BY <2>2, Zenon DEF StepScroll
      <4>2. left' # 0 => left # 0
        BY <2>2 DEF StepScroll
      <4> QED BY <4>1, <4>2 DEF AnimatorTypes
    <3> QED BY <2>2, <3>1 DEF StepScroll
  <2>3. CASE StopAnimation \/ AnimatorJoined
    BY <2>3 DEF StopAnimation, AnimatorJoined
  <2> QED BY <1>6, <2>1, <2>2, <2>3 DEF HandContinues
<1>7. CASE TaskEnds BY <1>7 DEF TaskEnds
<1>8. CASE AnimatorStep \/ SpuriousWakeup
  <2>1. CASE Test
    <3>1. an' # "waiting"
      BY <2>1 DEF Test, AnimatorGoes
    <3>2. an' = "falling" => animating /\ ~running /\ ~scrolling
      BY <2>1 DEF Test, AnimatorGoes
    <3> QED BY <2>1, <3>1, <3>2 DEF Test, AnimatorGoes
  <2>2. CASE FallAsleep \/ WaitFrame \/ SpuriousWakeup
    BY <2>2 DEF FallAsleep, WaitFrame, SpuriousWakeup, AnimatorGoes
  <2>3. CASE PostFrame \/ PostFrameFails
    BY <2>3 DEF PostFrame, PostFrameFails, AnimatorGoes
  <2> QED BY <1>8, <2>1, <2>2, <2>3 DEF AnimatorStep
<1>9. CASE Joined BY <1>9 DEF Joined, animatorVars
<1> QED BY <1>1, <1>2, <1>3, <1>4, <1>5, <1>6, <1>7, <1>8, <1>9 DEF AnimatorNext

THEOREM AnimatorInvariant == AnimatorSpec => [](AnimatorInv /\ AnimatorFlags)
<1>1. AnimatorInit => AnimatorInv
  BY TicksAssumption DEF AnimatorInit, AnimatorInv, AnimatorTypes, SleepIsExcused
<1>2. AnimatorInit => AnimatorFlags
  BY Zenon DEF AnimatorInit, AnimatorFlags
<1>3. AnimatorInv /\ AnimatorFlags /\ [AnimatorNext]_animatorVars
        => (AnimatorInv /\ AnimatorFlags)'
  <2>1. CASE AnimatorNext
    BY <2>1, AnimatorStepTypes, AnimatorStepExcused, AnimatorStepFlags DEF AnimatorInv
  <2>2. CASE UNCHANGED animatorVars
    <3>1. AnimatorInv => AnimatorInv'
      BY <2>2 DEF animatorVars, AnimatorInv, AnimatorTypes, SleepIsExcused
    <3>2. AnimatorFlags => AnimatorFlags'
      BY <2>2, Zenon DEF animatorVars, AnimatorFlags
    <3> QED BY <3>1, <3>2
  <2> QED BY <2>1, <2>2
<1> QED BY <1>1, <1>2, <1>3, PTL DEF AnimatorSpec

\* The animator's variables keep their types; a scroll that is not at its end
\* has its flag, whatever else moved the viewport, and the exit joins a thread
\* that has ended (advance_scroll, follow_tail and the animator in tui.cpp).
THEOREM AnimatorTypeCorrect == AnimatorSpec => []AnimatorTypeOK
<1>1. AnimatorInv /\ AnimatorFlags => AnimatorTypeOK
  BY AnimatorTypesAgree DEF AnimatorInv
<1> QED BY AnimatorInvariant, <1>1, PTL

\* An animator that sleeps while a task runs, a scroll is under way or the end
\* was asked for has a notification coming, or missed one because it came
\* before it slept (animation_cv in tui.cpp): there is no other lost wakeup.
THEOREM AnimatorSleepsExcused == AnimatorSpec => []SleepIsExcused
<1>1. AnimatorInv /\ AnimatorFlags => SleepIsExcused
  BY DEF AnimatorInv
<1> QED BY AnimatorInvariant, <1>1, PTL

-----------------------------------------------------------------------------
(***************************************************************************)
(* The least and the greatest of finitely many numbers.                    *)
(***************************************************************************)
LEMMA MinIsMember ==
    ASSUME NEW n \in Nat, NEW S \in SUBSET (1..n), S # {}
    PROVE  Min(S) \in S
<1>1. IsFiniteSet(S)
  <2>1. IsFiniteSet(1..n)
    BY FS_Interval
  <2> QED BY <2>1, FS_Subset
<1>2. \E x \in S : \A y \in S : x <= y
  <2>1. S \in SUBSET Int
    OBVIOUS
  <2> QED BY <1>1, <2>1, LeastMember
<1> QED BY <1>2 DEF Min

LEMMA MaxIsMember ==
    ASSUME NEW n \in Nat, NEW S \in SUBSET (1..n), S # {}
    PROVE  Max(S) \in S
<1> DEFINE T == {i \in 1..n : n + 1 - i \in S}
<1>1. T \in SUBSET Int /\ IsFiniteSet(T)
  <2>1. T \in SUBSET (1..n)
    OBVIOUS
  <2>2. IsFiniteSet(1..n)
    BY FS_Interval
  <2> HIDE DEF T
  <2>3. T \in SUBSET Int
    BY <2>1
  <2>4. IsFiniteSet(T)
    BY <2>1, <2>2, FS_Subset
  <2> QED BY <2>3, <2>4
<1>2. T # {}
  <2>1. PICK x \in S : TRUE
    OBVIOUS
  <2>2. n + 1 - x \in 1..n /\ n + 1 - (n + 1 - x) = x
    OBVIOUS
  <2> QED BY <2>2
<1>3. PICK i \in T : \A j \in T : i <= j
  <2> HIDE DEF T
  <2> QED BY <1>1, <1>2, LeastMember
<1>4. n + 1 - i \in S /\ \A y \in S : n + 1 - i >= y
  <2>1. ASSUME NEW y \in S  PROVE n + 1 - i >= y
    <3>1. n + 1 - y \in 1..n /\ n + 1 - (n + 1 - y) = y
      OBVIOUS
    <3>2. i <= n + 1 - y
      BY <3>1, <1>3
    <3> QED BY <3>2
  <2> QED BY <2>1
<1> QED BY <1>4 DEF Max

-----------------------------------------------------------------------------
(***************************************************************************)
(* The suggestions.                                                        *)
(***************************************************************************)
Text == Seq(Characters)

LEMMA Around ==
    ASSUME NEW n \in Nat, NEW p \in 1..n
    PROVE  /\ 1..p \subseteq 1..n /\ p..n \subseteq 1..n
           /\ p \in 1..p /\ p \in p..n /\ \A i \in p..p : i = p
OBVIOUS

\* The token at the cursor lies within the text.
LEMMA TokenInside ==
    ASSUME NEW t \in Text, NEW c \in 0..Len(t), TokenAt(t, c) # <<>>
    PROVE  TokenAt(t, c)[1] \in 1..Len(t) /\ TokenAt(t, c)[2] \in 1..Len(t)
<1> DEFINE here == {i \in {c + 1} \cap DOMAIN t : t[i] # " "}
           before == {i \in {c} \cap DOMAIN t : t[i] # " "}
           probe == IF here # {} THEN here ELSE before
           run(a, b) == \A i \in a..b : t[i] # " "
           p == CHOOSE i \in probe : TRUE
           As == {a \in 1..p : run(a, p)}
           Bs == {b \in p..Len(t) : run(p, b)}
<1>1. TokenAt(t, c) = IF probe = {} THEN <<>> ELSE <<Min(As), Max(Bs)>>
  BY Zenon DEF TokenAt
<1>2. Len(t) \in Nat /\ DOMAIN t = 1..Len(t)
  BY DEF Text
<1>0. probe # {}
  <2> HIDE DEF probe
  <2> QED BY <1>1
<1>3. p \in 1..Len(t) /\ t[p] # " "
  <2>1. probe # {}
    BY <1>0
  <2>2. p \in probe
    <3> HIDE DEF probe
    <3> QED BY <2>1
  <2>3. \A i \in probe : i \in 1..Len(t) /\ t[i] # " "
    BY <1>2
  <2> HIDE DEF p, probe
  <2> QED BY <2>2, <2>3
<1>4. /\ As \in SUBSET (1..Len(t)) /\ p \in As
      /\ Bs \in SUBSET (1..Len(t)) /\ p \in Bs
  <2> HIDE DEF p
  <2>1. /\ 1..p \subseteq 1..Len(t) /\ p..Len(t) \subseteq 1..Len(t)
        /\ p \in 1..p /\ p \in p..Len(t) /\ \A i \in p..p : i = p
    BY <1>2, <1>3, Around
  <2>2. run(p, p)
    BY <1>3, <2>1, Zenon
  <2> HIDE DEF run
  <2> QED BY <2>1, <2>2, Zenon
<1>5. Min(As) \in 1..Len(t) /\ Max(Bs) \in 1..Len(t)
  <2> HIDE DEF As, Bs, p
  <2>1. Min(As) \in As
    BY <1>2, <1>4, MinIsMember
  <2>2. Max(Bs) \in Bs
    BY <1>2, <1>4, MaxIsMember
  <2> QED BY <2>1, <2>2, <1>4
<1> DEFINE first == Min(As)
           last == Max(Bs)
<1>6. TokenAt(t, c) = <<first, last>>
  <2> HIDE DEF probe, As, Bs
  <2> QED BY <1>0, <1>1
<1>7. first \in 1..Len(t) /\ last \in 1..Len(t)
  BY <1>5
<1> HIDE DEF first, last
<1>8. <<first, last>>[1] = first /\ <<first, last>>[2] = last
  OBVIOUS
<1> QED BY <1>6, <1>7, <1>8

\* What is suggested: commands, for a part of the text.
LEMMA SuggestionIsSound ==
    ASSUME NEW t \in Text, NEW c \in 0..Len(t), Evaluate(t, c).open
    PROVE  LET e == Evaluate(t, c)
           IN  /\ e.first \in 1..Len(t) /\ e.last \in 1..Len(t)
               /\ e.matches \subseteq DOMAIN Commands /\ e.matches # {}
<1> DEFINE token == TokenAt(t, c)
           prefix == SubSeq(t, token[1] + 1, token[2])
           matches == {i \in DOMAIN Commands : IsPrefix(prefix, Commands[i])}
<1>1. Evaluate(t, c) = IF token = <<>> \/ t[token[1]] # "/" \/ matches = {} THEN Closed
                       ELSE [open |-> TRUE, first |-> token[1], last |-> token[2],
                             matches |-> matches]
  BY DEF Evaluate
<1>2. matches \subseteq DOMAIN Commands
  OBVIOUS
<1>3. token # <<>> => token[1] \in 1..Len(t) /\ token[2] \in 1..Len(t)
  BY TokenInside
<1> HIDE DEF token, matches
<1>4. ~(token = <<>> \/ t[token[1]] # "/" \/ matches = {})
  BY <1>1 DEF Closed
<1>5. Evaluate(t, c) = [open |-> TRUE, first |-> token[1], last |-> token[2],
                        matches |-> matches]
  BY <1>1, <1>4
<1> QED BY <1>2, <1>3, <1>4, <1>5

\* The parts of a text are texts, and so is what is put together of texts.
LEMMA PartOfText ==
    ASSUME NEW t \in Text, NEW a \in Int, NEW b \in Int, 1 <= a, b <= Len(t)
    PROVE  /\ SubSeq(t, a, b) \in Text
           /\ Len(SubSeq(t, a, b)) = IF a <= b THEN b - a + 1 ELSE 0
<1>1. Len(t) \in Nat /\ \A i \in 1..Len(t) : t[i] \in Characters
  BY DEF Text
<1>2. \A i \in a..b : t[i] \in Characters
  BY <1>1
<1> QED BY <1>2, SubSeqProperties DEF Text

LEMMA ReplacedText ==
    ASSUME NEW t \in Text, NEW m \in Text, NEW a \in Int, NEW b \in Int,
           0 <= a, a <= Len(t), 0 <= b, b <= Len(t)
    PROVE  LET u == SubSeq(t, 1, a) \o m \o SubSeq(t, b + 1, Len(t))
           IN  u \in Text /\ Len(u) = a + Len(m) + Len(t) - b
<1> DEFINE before == SubSeq(t, 1, a)
           after == SubSeq(t, b + 1, Len(t))
<1>1. Len(t) \in Nat /\ Len(m) \in Nat
  BY DEF Text
<1>2. before \in Text /\ Len(before) = a
  BY <1>1, PartOfText
<1>3. after \in Text /\ Len(after) = Len(t) - b
  BY <1>1, PartOfText
<1> HIDE DEF before, after
<1> DEFINE front == before \o m
<1>4. front \in Text /\ Len(front) = a + Len(m)
  BY <1>2, ConcatProperties DEF Text
<1> HIDE DEF front
<1>5. front \o after \in Text /\ Len(front \o after) = Len(front) + Len(after)
  BY <1>3, <1>4, ConcatProperties DEF Text
<1>6. front \o after \in Text /\ Len(front \o after) = a + Len(m) + Len(t) - b
  BY <1>1, <1>3, <1>4, <1>5
<1> QED BY <1>6 DEF before, front, after

LEMMA CommandsAreTexts ==
    /\ \A i \in DOMAIN Commands : Commands[i] \in Text
    /\ <<"/">> \in Text /\ <<" ">> \in Text /\ <<>> \in Text
<1>1. Commands \in Seq(Text)
  BY PromptAssumption DEF Text
<1>2. \A i \in DOMAIN Commands : Commands[i] \in Text
  <2> HIDE DEF Text
  <2> QED BY <1>1, ElementOfSeq, LenProperties
<1>3. "/" \in Characters /\ " " \in Characters
  BY PromptAssumption
<1>4. \A c \in Characters : <<c>> \in Text
  BY DEF Text
<1>5. <<>> \in Text
  BY DEF Text
<1> QED BY <1>2, <1>3, <1>4, <1>5

LEMMA CompleteIsText ==
    ASSUME text \in Text, chosen \in DOMAIN Commands,
           suggest.first \in 1..Len(text), suggest.last \in 1..Len(text)
    PROVE  Complete \in Text
<1> DEFINE name == Commands[chosen]
           gap == IF name \in TakesArgs THEN <<" ">> ELSE <<>>
           insertion == <<"/">> \o name \o gap
           a == suggest.first - 1
           b == suggest.last
<1>1. name \in Text
  BY CommandsAreTexts
<1>2. <<"/">> \in Text /\ <<" ">> \in Text /\ <<>> \in Text
  BY CommandsAreTexts
<1>3. insertion \in Text
  <2>1. gap \in Text
    BY <1>2
  <2> HIDE DEF name, gap
  <2> QED BY <1>1, <1>2, <2>1, ConcatProperties DEF Text
<1>4. Len(text) \in Nat
  BY DEF Text
<1>5. a \in Int /\ b \in Int /\ 0 <= a /\ a <= Len(text) /\ 0 <= b /\ b <= Len(text)
  BY <1>4
<1>6. Complete = SubSeq(text, 1, a) \o insertion \o SubSeq(text, b + 1, Len(text))
  BY DEF Complete
<1> HIDE DEF insertion, a, b
<1> QED BY <1>3, <1>5, <1>6, ReplacedText

-----------------------------------------------------------------------------
(***************************************************************************)
(* The prompt line. Its invariant is what the property says, with the      *)
(* types of the texts, which the property leaves open, and the selected    *)
(* suggestion being one of those on offer. That a slash command is entered *)
(* only where no entry is shown follows: entries are no slash commands.    *)
(***************************************************************************)
PromptTexts ==
    /\ text \in Text /\ typed \in Text /\ draft \in Text /\ entries \in Seq(Text)
    /\ cursor \in 0..Len(text) /\ index \in 0..Len(entries)

PromptFlags == armed \in BOOLEAN /\ inPrompt \in BOOLEAN /\ busy \in BOOLEAN

Offer ==
    suggest.open =>
        /\ chosen \in suggest.matches /\ inPrompt /\ ~busy
        /\ \E c \in 0..Len(text) : suggest = Evaluate(text, c)

TextIsKept ==
    IF index = 0 THEN text = typed ELSE text = entries[index] /\ draft = typed

EntriesArePrompts ==
    \A i \in DOMAIN entries : ~IsSlashLine(entries[i]) /\ Trim(entries[i]) # <<>>

PromptInv ==
    PromptTexts /\ PromptFlags /\ Offer /\ TextIsKept /\ EntriesArePrompts

LEMMA PromptInvImplies == PromptInv => PromptTypeOK /\ PromptIsKept
<1> SUFFICES ASSUME PromptInv PROVE PromptTypeOK /\ PromptIsKept
  OBVIOUS
<1>1. Range(entries) \subseteq Seq(Characters)
  <2>1. \A i \in DOMAIN entries : entries[i] \in Text
    BY DEF PromptInv, PromptTexts
  <2> QED BY <2>1 DEF Range, Text
<1>2. {text, typed, draft} \cup Range(entries) \subseteq Seq(Characters)
  BY <1>1 DEF PromptInv, PromptTexts, Text
<1>3. {armed, inPrompt, busy} \subseteq BOOLEAN
  BY DEF PromptInv, PromptFlags
<1>4. \A e \in Range(entries) : ~IsSlashLine(e) /\ Trim(e) # <<>>
  BY DEF PromptInv, EntriesArePrompts, Range
<1>5. PromptTypeOK
  BY <1>2, <1>3 DEF PromptTypeOK, PromptInv, PromptTexts, Offer
<1>6. PromptIsKept
  BY <1>4 DEF PromptIsKept, PromptInv, TextIsKept, Offer
<1> QED BY <1>5, <1>6

LEMMA PromptInitInv == PromptInit => PromptInv
<1> SUFFICES ASSUME PromptInit PROVE PromptInv
  OBVIOUS
<1>1. PromptTexts
  BY DEF PromptInit, PromptTexts, Text
<1>2. PromptFlags
  BY DEF PromptInit, PromptFlags
<1>3. Offer
  BY DEF PromptInit, Offer, Closed
<1>4. TextIsKept /\ EntriesArePrompts
  BY DEF PromptInit, TextIsKept, EntriesArePrompts
<1> QED BY <1>1, <1>2, <1>3, <1>4 DEF PromptInv

\* Suggestions made anew belong to the text, and one of them is selected.
LEMMA RefreshedOffer ==
    ASSUME NEW t \in Text, NEW c \in 0..Len(t), RefreshSuggest(t, c),
           text' = t, inPrompt', ~busy'
    PROVE  Offer'
<1> DEFINE next == Evaluate(t, c)
<1>1. /\ suggest' = next
      /\ chosen' = IF chosen \in next.matches THEN chosen
                   ELSE IF next.open THEN Min(next.matches) ELSE 0
  BY DEF RefreshSuggest
<1>2. ASSUME next.open  PROVE Min(next.matches) \in next.matches
  <2>1. next.matches \subseteq DOMAIN Commands /\ next.matches # {}
    BY <1>2, SuggestionIsSound
  <2>2. Len(Commands) \in Nat /\ DOMAIN Commands = 1..Len(Commands)
    <3>1. Commands \in Seq(Text)
      BY PromptAssumption DEF Text
    <3> HIDE DEF Text
    <3> QED BY <3>1, LenProperties
  <2> HIDE DEF next
  <2> QED BY <2>1, <2>2, MinIsMember
<1>3. next.open => chosen' \in next.matches
  <2> HIDE DEF next
  <2> QED BY <1>1, <1>2
<1>4. (\E d \in 0..Len(text) : suggest = Evaluate(text, d))'
  <2>1. \E d \in 0..Len(t) : suggest' = Evaluate(t, d)
    BY <1>1
  <2> QED BY <2>1
<1> HIDE DEF next
<1> QED BY <1>1, <1>3, <1>4 DEF Offer

\* Without suggestions there is nothing to say of them.
LEMMA ClosedOffer == Close => Offer'
BY DEF Close, Closed, Offer

\* The user's text, and the history no longer browsed.
LEMMA OwnText ==
    ASSUME PromptTexts, EntriesArePrompts, NEW t \in Text, text' = t,
           cursor' \in 0..Len(t), typed' = t, CancelNavigation, UNCHANGED entries
    PROVE  PromptTexts' /\ TextIsKept' /\ EntriesArePrompts'
<1>1. index' = 0 /\ draft' = <<>> /\ <<>> \in Text
  BY CommandsAreTexts DEF CancelNavigation
<1>2. Len(entries) \in Nat
  BY DEF PromptTexts
<1>3. PromptTexts'
  BY <1>1, <1>2 DEF PromptTexts
<1>4. TextIsKept'
  BY <1>1 DEF TextIsKept
<1>5. EntriesArePrompts'
  BY DEF EntriesArePrompts
<1> QED BY <1>3, <1>4, <1>5

\* The text and the history stay as they are.
LEMMA SameText ==
    ASSUME PromptTexts, TextIsKept, EntriesArePrompts, cursor' \in 0..Len(text),
           UNCHANGED <<text, typed, entries, index, draft>>
    PROVE  PromptTexts' /\ TextIsKept' /\ EntriesArePrompts'
<1>1. PromptTexts'
  BY DEF PromptTexts
<1> QED BY <1>1 DEF TextIsKept, EntriesArePrompts

\* What the keys that edit the text make of it.
LEMMA InsertedText ==
    ASSUME PromptTexts, NEW c \in Characters
    PROVE  LET t == SubSeq(text, 1, cursor) \o <<c>>
                    \o SubSeq(text, cursor + 1, Len(text))
           IN  t \in Text /\ cursor + 1 \in 0..Len(t)
<1> DEFINE t == SubSeq(text, 1, cursor) \o <<c>> \o SubSeq(text, cursor + 1, Len(text))
           m == <<c>>
<1>1. m \in Text /\ Len(m) = 1
  BY DEF Text
<1>2. /\ text \in Text /\ cursor \in Int /\ 0 <= cursor /\ cursor <= Len(text)
      /\ Len(text) \in Nat
  BY DEF PromptTexts, Text
<1>3. t = SubSeq(text, 1, cursor) \o m \o SubSeq(text, cursor + 1, Len(text))
  OBVIOUS
<1> HIDE DEF m, t
<1>4. t \in Text /\ Len(t) = cursor + Len(m) + Len(text) - cursor
  BY <1>1, <1>2, <1>3, ReplacedText
<1>5. cursor + 1 \in 0..Len(t)
  BY <1>1, <1>2, <1>4
<1> QED BY <1>4, <1>5 DEF t

LEMMA ErasedText ==
    ASSUME PromptTexts, NEW i \in DOMAIN text
    PROVE  RemoveAt(text, i) \in Text /\ i - 1 \in 0..Len(RemoveAt(text, i))
<1>1. /\ text \in Text /\ Len(text) \in Nat /\ i \in 1..Len(text)
  BY DEF PromptTexts, Text
<1> DEFINE before == SubSeq(text, 1, i - 1)
           after == SubSeq(text, i + 1, Len(text))
<1>2. before \in Text /\ Len(before) = i - 1
  BY <1>1, PartOfText
<1>3. after \in Text /\ Len(after) = Len(text) - i
  BY <1>1, PartOfText
<1>4. RemoveAt(text, i) = before \o after
  BY DEF RemoveAt
<1> HIDE DEF before, after
<1>5. before \o after \in Text /\ Len(before \o after) = Len(before) + Len(after)
  BY <1>2, <1>3, ConcatProperties DEF Text
<1> QED BY <1>1, <1>2, <1>3, <1>4, <1>5

\* The entries with one more.
LEMMA RecordedPrompt ==
    ASSUME PromptTexts, EntriesArePrompts, ~IsSlashLine(text), Trim(text) # <<>>,
           Record(text)
    PROVE  entries' \in Seq(Text) /\ EntriesArePrompts'
<1>1. CASE entries' = entries
  BY <1>1 DEF PromptTexts, EntriesArePrompts
<1>2. CASE entries' = Append(entries, text)
  <2>1. entries \in Seq(Text) /\ text \in Text
    BY DEF PromptTexts
  <2>2. /\ Append(entries, text) \in Seq(Text)
        /\ Len(Append(entries, text)) = Len(entries) + 1
        /\ \A i \in 1..Len(entries) : Append(entries, text)[i] = entries[i]
        /\ Append(entries, text)[Len(entries) + 1] = text
    <3> HIDE DEF Text
    <3> QED BY <2>1, AppendProperties
  <2>3. /\ Len(entries) \in Nat /\ DOMAIN entries = 1..Len(entries)
        /\ DOMAIN entries' = 1..(Len(entries) + 1)
    <3> HIDE DEF Text
    <3> QED BY <1>2, <2>1, <2>2, LenProperties
  <2>4. ASSUME NEW i \in DOMAIN entries'
        PROVE  entries'[i] = text \/ (i \in DOMAIN entries /\ entries'[i] = entries[i])
    BY <1>2, <2>2, <2>3
  <2>5. EntriesArePrompts'
    <3> SUFFICES ASSUME NEW i \in DOMAIN entries'
                 PROVE  ~IsSlashLine(entries'[i]) /\ Trim(entries'[i]) # <<>>
      BY Zenon DEF EntriesArePrompts, IsSlashLine, Trim
    <3> QED BY <2>4, Zenon DEF EntriesArePrompts
  <2> QED BY <1>2, <2>2, <2>5
<1> QED BY <1>1, <1>2 DEF Record

LEMMA PromptStepInv == PromptInv /\ [PromptNext]_promptVars => PromptInv'
<1> SUFFICES ASSUME PromptInv, [PromptNext]_promptVars PROVE PromptInv'
  OBVIOUS
<1> USE DEF history, suggestion
<1>0. /\ PromptTexts /\ PromptFlags /\ Offer /\ TextIsKept /\ EntriesArePrompts
  BY DEF PromptInv
<1>l. cursor \in 0..Len(text) /\ <<>> \in Text /\ Len(<<>>) = 0
  BY <1>0, CommandsAreTexts DEF PromptTexts
<1> SUFFICES PromptTexts' /\ PromptFlags' /\ Offer' /\ TextIsKept' /\ EntriesArePrompts'
  BY DEF PromptInv
<1>1. ASSUME NEW c \in Characters, Insert(c)
      PROVE  PromptTexts' /\ PromptFlags' /\ Offer' /\ TextIsKept' /\ EntriesArePrompts'
  <2> DEFINE t == SubSeq(text, 1, cursor) \o <<c>> \o SubSeq(text, cursor + 1, Len(text))
  <2>1. t \in Text /\ cursor + 1 \in 0..Len(t)
    BY <1>0, InsertedText
  <2>2. /\ text' = t /\ cursor' = cursor + 1 /\ typed' = text' /\ RefreshSuggest(text', cursor')
        /\ CancelNavigation /\ UNCHANGED <<entries, inPrompt, busy>> /\ inPrompt /\ ~busy
        /\ armed' = FALSE
    BY <1>1 DEF Insert, Key, ByUser
  <2> HIDE DEF t
  <2>3. PromptTexts' /\ TextIsKept' /\ EntriesArePrompts'
    BY <1>0, <2>1, <2>2, OwnText
  <2>4. RefreshSuggest(t, cursor + 1)
    BY <2>2
  <2>5. Offer'
    BY <2>1, <2>2, <2>4, RefreshedOffer
  <2>6. PromptFlags'
    BY <1>0, <2>2, Zenon DEF PromptFlags
  <2> QED BY <2>3, <2>5, <2>6
<1>2. CASE Erase
  <2>1. /\ ~busy /\ inPrompt /\ CancelNavigation /\ typed' = text'
        /\ armed' = FALSE /\ UNCHANGED <<entries, inPrompt, busy>>
    BY <1>2 DEF Erase, Key, ByUser
  <2>2. PromptFlags'
    BY <1>0, <2>1, Zenon DEF PromptFlags
  <2>3. PICK i \in {cursor, cursor + 1} :
          IF i \in DOMAIN text
          THEN /\ text' = RemoveAt(text, i) /\ cursor' = i - 1
               /\ RefreshSuggest(text', cursor')
          ELSE UNCHANGED <<text, cursor, suggestion>>
    BY <1>2 DEF Erase
  <2>4. CASE i \in DOMAIN text
    <3> DEFINE t == RemoveAt(text, i)
    <3>1. t \in Text /\ i - 1 \in 0..Len(t)
      BY <1>0, <2>4, ErasedText
    <3>2. text' = t /\ cursor' = i - 1 /\ RefreshSuggest(text', cursor')
      BY <2>3, <2>4
    <3> HIDE DEF t
    <3>3. RefreshSuggest(t, i - 1)
      BY <3>2
    <3>4. Offer'
      BY <2>1, <3>1, <3>2, <3>3, RefreshedOffer
    <3>5. PromptTexts' /\ TextIsKept' /\ EntriesArePrompts'
      BY <1>0, <2>1, <3>1, <3>2, OwnText
    <3> QED BY <2>2, <3>4, <3>5
  <2>5. CASE i \notin DOMAIN text
    <3>1. UNCHANGED <<text, cursor, suggest, chosen>>
      BY <2>3, <2>5
    <3>2. Offer'
      BY <1>0, <2>1, <3>1 DEF Offer
    <3>3. text \in Text /\ cursor' \in 0..Len(text) /\ typed' = text
      BY <1>0, <2>1, <3>1 DEF PromptTexts
    <3>4. PromptTexts' /\ TextIsKept' /\ EntriesArePrompts'
      BY <1>0, <2>1, <3>1, <3>3, OwnText
    <3> QED BY <2>2, <3>2, <3>4
  <2> QED BY <2>4, <2>5
<1>3. CASE MoveCursor
  <2>1. /\ cursor' \in 0..Len(text) /\ armed' = FALSE
        /\ UNCHANGED <<text, typed, entries, index, draft, suggest, chosen, inPrompt, busy>>
    BY <1>3 DEF MoveCursor, Key
  <2>2. PromptFlags'
    BY <1>0, <2>1, Zenon DEF PromptFlags
  <2>3. Offer'
    BY <1>0, <2>1 DEF Offer
  <2> QED BY <1>0, <2>1, <2>2, <2>3, SameText
<1>4. CASE ChooseSuggestion
  <2>1. /\ chosen' \in suggest.matches /\ armed' = FALSE
        /\ UNCHANGED <<text, cursor, typed, entries, index, draft, suggest, inPrompt, busy>>
    BY <1>4 DEF ChooseSuggestion, Key
  <2>2. PromptFlags'
    BY <1>0, <2>1, Zenon DEF PromptFlags
  <2>3. Offer'
    BY <1>0, <2>1 DEF Offer
  <2> QED BY <1>0, <1>l, <2>1, <2>2, <2>3, SameText
<1>5. CASE ApplySuggestion
  <2>1. /\ suggest.open /\ text' = Complete /\ cursor' = Len(Complete) /\ typed' = text'
        /\ Close /\ CancelNavigation
        /\ armed' = FALSE /\ UNCHANGED <<entries, inPrompt, busy>>
    BY <1>5 DEF ApplySuggestion, SuggestOpen, SetText, ByUser, Key
  <2>2. PromptFlags'
    BY <1>0, <2>1, Zenon DEF PromptFlags
  <2>3. PICK c \in 0..Len(text) : suggest = Evaluate(text, c)
    BY <1>0, <2>1 DEF Offer
  <2>4. /\ suggest.first \in 1..Len(text) /\ suggest.last \in 1..Len(text)
        /\ chosen \in DOMAIN Commands
    BY <1>0, <2>1, <2>3, SuggestionIsSound DEF Offer, PromptTexts
  <2>5. Complete \in Text
    BY <1>0, <2>4, CompleteIsText DEF PromptTexts
  <2>6. Len(Complete) \in 0..Len(Complete)
    BY <2>5 DEF Text
  <2>7. PromptTexts' /\ TextIsKept' /\ EntriesArePrompts'
    BY <1>0, <2>1, <2>5, <2>6, OwnText
  <2> QED BY <2>1, <2>2, <2>7, ClosedOffer
<1>6. CASE CloseSuggestion
  <2>1. /\ Close /\ armed' = FALSE
        /\ UNCHANGED <<text, cursor, typed, entries, index, draft, inPrompt, busy>>
    BY <1>6 DEF CloseSuggestion, Key
  <2>2. PromptFlags'
    BY <1>0, <2>1, Zenon DEF PromptFlags
  <2> QED BY <1>0, <1>l, <2>1, <2>2, SameText, ClosedOffer
<1>7. CASE Previous
  <2>1. /\ entries # <<>> /\ draft' = IF index = 0 THEN text ELSE draft
        /\ index' = IF index = 0 THEN Len(entries) ELSE Max({index - 1, 1})
        /\ text' = entries[index'] /\ cursor' = Len(entries[index'])
        /\ Close /\ armed' = FALSE /\ UNCHANGED <<typed, entries, inPrompt, busy>>
    BY <1>7 DEF Previous, Key, SetText
  <2>2. PromptFlags'
    BY <1>0, <2>1, Zenon DEF PromptFlags
  <2>3. Len(entries) \in Nat \ {0} /\ \A i \in 1..Len(entries) : entries[i] \in Text
    <3>1. entries \in Seq(Text)
      BY <1>0 DEF PromptTexts
    <3> HIDE DEF Text
    <3> QED BY <2>1, <3>1, EmptySeq, ElementOfSeq
  <2>4. index' \in 1..Len(entries)
    <3>1. CASE index = 0
      BY <2>1, <2>3, <3>1
    <3>2. CASE index # 0
      <4>1. index \in 1..Len(entries)
        BY <1>0, <3>2 DEF PromptTexts
      <4>2. Max({index - 1, 1}) = IF index - 1 >= 1 THEN index - 1 ELSE 1
        BY <4>1 DEF Max
      <4> QED BY <2>1, <2>3, <3>2, <4>1, <4>2
    <3> QED BY <3>1, <3>2
  <2>5. text' \in Text /\ cursor' \in 0..Len(text') /\ draft' \in Text
    <3>1. text' \in Text
      BY <2>1, <2>3, <2>4
    <3>2. cursor' = Len(text') /\ Len(text') \in Nat
      BY <2>1, <3>1 DEF Text
    <3> QED BY <1>0, <2>1, <3>1, <3>2 DEF PromptTexts
  <2>6. PromptTexts'
    BY <1>0, <2>1, <2>4, <2>5 DEF PromptTexts
  <2>7. TextIsKept'
    BY <1>0, <2>1, <2>3, <2>4 DEF TextIsKept
  <2>8. EntriesArePrompts'
    BY <1>0, <2>1 DEF EntriesArePrompts
  <2> QED BY <2>1, <2>2, <2>6, <2>7, <2>8, ClosedOffer
<1>8. CASE NextEntry
  <2>1. /\ index # 0 /\ Close /\ armed' = FALSE /\ UNCHANGED <<typed, entries, inPrompt, busy>>
        /\ IF index < Len(entries)
           THEN /\ index' = index + 1 /\ text' = entries[index'] /\ cursor' = Len(entries[index'])
                /\ draft' = draft
           ELSE index' = 0 /\ draft' = <<>> /\ text' = draft /\ cursor' = Len(draft)
    BY <1>8 DEF NextEntry, Key, SetText, CancelNavigation
  <2>2. PromptFlags'
    BY <1>0, <2>1, Zenon DEF PromptFlags
  <2>3. EntriesArePrompts'
    BY <1>0, <2>1 DEF EntriesArePrompts
  <2>4. Len(entries) \in Nat /\ \A i \in 1..Len(entries) : entries[i] \in Text
    <3>1. entries \in Seq(Text)
      BY <1>0 DEF PromptTexts
    <3> HIDE DEF Text
    <3> QED BY <3>1, LenProperties, ElementOfSeq
  <2>5. text' \in Text /\ cursor' = Len(text') /\ draft' \in Text /\ index' \in 0..Len(entries)
    BY <1>0, <1>l, <2>1, <2>4 DEF PromptTexts
  <2>6. cursor' \in 0..Len(text')
    BY <2>5 DEF Text
  <2>7. PromptTexts'
    BY <1>0, <2>1, <2>5, <2>6 DEF PromptTexts
  <2>8. TextIsKept'
    BY <1>0, <2>1, <2>4 DEF TextIsKept, PromptTexts
  <2> QED BY <2>1, <2>2, <2>3, <2>7, <2>8, ClosedOffer
<1>9. CASE SwitchPane
  <2>1. /\ inPrompt' = ~inPrompt /\ armed' = FALSE
        /\ IF inPrompt THEN Close ELSE UNCHANGED <<suggest, chosen>>
        /\ UNCHANGED <<text, cursor, typed, entries, index, draft, busy>>
    BY <1>9 DEF SwitchPane, Key
  <2>2. PromptFlags'
    BY <1>0, <2>1, Zenon DEF PromptFlags
  <2>3. Offer'
    BY <1>0, <2>1, ClosedOffer DEF Offer
  <2> QED BY <1>0, <1>l, <2>1, <2>2, <2>3, SameText
<1>10. CASE EnterCommand
  <2>1. /\ IsSlashLine(text) /\ Close /\ text' = <<>> /\ cursor' = Len(<<>>) /\ typed' = text'
        /\ armed' = FALSE /\ UNCHANGED <<entries, index, draft, inPrompt, busy>>
    BY <1>10 DEF EnterCommand, Key, SetText, ByUser
  <2>2. PromptFlags'
    BY <1>0, <2>1, Zenon DEF PromptFlags
  <2>3. index = 0
    <3>1. index # 0 => index \in DOMAIN entries
      BY <1>0 DEF PromptTexts
    <3>2. index # 0 => text = entries[index]
      BY <1>0 DEF TextIsKept
    <3> QED BY <1>0, <2>1, <3>1, <3>2, Zenon DEF EntriesArePrompts
  <2>4. TextIsKept'
    BY <2>1, <2>3 DEF TextIsKept
  <2>5. PromptTexts'
    BY <1>0, <1>l, <2>1 DEF PromptTexts
  <2>6. EntriesArePrompts'
    BY <1>0, <2>1 DEF EntriesArePrompts
  <2> QED BY <2>1, <2>2, <2>4, <2>5, <2>6, ClosedOffer
<1>11. CASE EnterPrompt
  <2>1. /\ ~IsSlashLine(text) /\ Close /\ armed' = FALSE /\ UNCHANGED inPrompt
        /\ IF Trim(text) = <<>>
           THEN UNCHANGED <<text, cursor, typed, entries, index, draft, busy>>
           ELSE /\ Record(text) /\ text' = <<>> /\ cursor' = Len(<<>>) /\ typed' = text'
                /\ busy' = TRUE
    BY <1>11 DEF EnterPrompt, SetText, ByUser
  <2>2. PromptFlags'
    BY <1>0, <2>1, Zenon DEF PromptFlags
  <2>3. CASE Trim(text) = <<>>
    BY <1>0, <1>l, <2>1, <2>2, <2>3, SameText, ClosedOffer
  <2>4. CASE Trim(text) # <<>>
    <3>1. entries' \in Seq(Text) /\ EntriesArePrompts'
      BY <1>0, <2>1, <2>4, RecordedPrompt
    <3>2. /\ index' = 0 /\ draft' = <<>> /\ text' = <<>> /\ cursor' = 0 /\ typed' = <<>>
      BY <1>l, <2>1, <2>4 DEF Record, CancelNavigation
    <3>3. Len(entries') \in Nat
      <4> HIDE DEF Text
      <4> QED BY <3>1, LenProperties
    <3>4. PromptTexts'
      BY <1>l, <3>1, <3>2, <3>3 DEF PromptTexts
    <3>5. TextIsKept'
      BY <3>2 DEF TextIsKept
    <3> QED BY <2>1, <2>2, <3>1, <3>4, <3>5, ClosedOffer
  <2> QED BY <2>3, <2>4
<1>12. CASE CtrlC
  <2>1. /\ text' = <<>> /\ cursor' = Len(<<>>) /\ typed' = <<>> /\ Close /\ CancelNavigation
        /\ armed' = TRUE /\ UNCHANGED <<entries, inPrompt, busy>>
    BY <1>12 DEF CtrlC, SetText, ByUser
  <2>2. PromptFlags'
    BY <1>0, <2>1, Zenon DEF PromptFlags
  <2>3. PromptTexts' /\ TextIsKept' /\ EntriesArePrompts'
    BY <1>0, <1>l, <2>1, OwnText
  <2> QED BY <2>1, <2>2, <2>3, ClosedOffer
<1>13. CASE EscapePrompt
  <2>1. /\ inPrompt' = TRUE /\ armed' = FALSE /\ UNCHANGED <<entries, busy>>
        /\ IF inPrompt
           THEN text' = <<>> /\ cursor' = Len(<<>>) /\ typed' = <<>> /\ Close /\ CancelNavigation
           ELSE UNCHANGED <<text, cursor, typed, index, draft, suggest, chosen>>
    BY <1>13 DEF EscapePrompt, SetText, ByUser, Key
  <2>2. PromptFlags'
    BY <1>0, <2>1, Zenon DEF PromptFlags
  <2>3. CASE inPrompt
    <3>1. PromptTexts' /\ TextIsKept' /\ EntriesArePrompts'
      BY <1>0, <1>l, <2>1, <2>3, OwnText
    <3> QED BY <2>1, <2>2, <2>3, <3>1, ClosedOffer
  <2>4. CASE ~inPrompt
    <3>1. Offer'
      BY <1>0, <2>1, <2>4 DEF Offer
    <3> QED BY <1>0, <1>l, <2>1, <2>2, <2>4, <3>1, SameText
  <2> QED BY <2>3, <2>4
<1>14. CASE BusyEnds
  <2>1. /\ busy /\ busy' = FALSE
        /\ UNCHANGED <<text, cursor, typed, entries, index, draft, suggest, chosen,
                       armed, inPrompt>>
    BY <1>14 DEF BusyEnds
  <2>2. PromptFlags'
    BY <1>0, <2>1, Zenon DEF PromptFlags
  <2>3. Offer'
    BY <1>0, <2>1 DEF Offer
  <2> QED BY <1>0, <1>l, <2>1, <2>2, <2>3, SameText
<1>15. CASE UNCHANGED promptVars
  <2>1. UNCHANGED <<text, cursor, typed, entries, index, draft, suggest, chosen,
                    armed, inPrompt, busy>>
    BY <1>15 DEF promptVars
  <2>2. PromptFlags'
    BY <1>0, <2>1, Zenon DEF PromptFlags
  <2>3. Offer'
    BY <1>0, <2>1 DEF Offer
  <2> QED BY <1>0, <1>l, <2>1, <2>2, <2>3, SameText
<1> QED
  BY <1>1, <1>2, <1>3, <1>4, <1>5, <1>6, <1>7, <1>8, <1>9, <1>10, <1>11, <1>12, <1>13,
     <1>14, <1>15 DEF PromptNext

THEOREM PromptInvariant == PromptSpec => []PromptInv
BY PromptInitInv, PromptStepInv, PTL DEF PromptSpec

\* The variables of the prompt line keep their types; the cursor, the place in
\* the history and the selected suggestion are always there to be used (the
\* input and its keys in tui.cpp, PromptHistory, evaluate_slash_suggest).
THEOREM PromptTypeCorrect == PromptSpec => []PromptTypeOK
BY PromptInvariant, PromptInvImplies, PTL

\* The user's text comes back from the history as he left it, no slash command
\* gets into the history, and a suggestion replaces a part of the text that is
\* there (PromptHistory, start_task and refresh_slash_suggest in tui.cpp).
THEOREM PromptStaysKept == PromptSpec => []PromptIsKept
BY PromptInvariant, PromptInvImplies, PTL

-----------------------------------------------------------------------------
(***************************************************************************)
(* The instance of all parts (MCTui): a step is one part's, and the others *)
(* rest. So what is shown of each part, with the log pane of               *)
(* LogPane_proofs, is shown of the instance.                               *)
(***************************************************************************)
LEMMA StepsAreOfParts ==
    [Next]_tuiVars => /\ [LoopNext]_loopVars /\ [AnimatorNext]_animatorVars
                      /\ [PaneNext]_paneVars /\ [PromptNext]_promptVars
<1> SUFFICES ASSUME [Next]_tuiVars
             PROVE  /\ LoopNext \/ UNCHANGED loopVars
                    /\ AnimatorNext \/ UNCHANGED animatorVars
                    /\ PaneNext \/ UNCHANGED paneVars
                    /\ PromptNext \/ UNCHANGED promptVars
  BY Zenon
<1>1. CASE UNCHANGED tuiVars
  BY <1>1, Zenon DEF tuiVars
<1>2. CASE Next
  BY <1>2, Zenon DEF Next, Moves
<1> QED BY <1>1, <1>2

\* Whatever the instance does, each part does what its own specification allows.
THEOREM PartsAreThemselves == Spec => LoopSpec /\ AnimatorSpec /\ PaneSpec /\ PromptSpec
<1>1. Init => LoopInit /\ AnimatorInit /\ PaneInit /\ PromptInit
  BY DEF Init
<1> QED
  BY <1>1, StepsAreOfParts, PTL DEF Spec, LoopSpec, AnimatorSpec, PaneSpec, PromptSpec

\* The types of all parts, with the bounds the code indexes by.
THEOREM TuiTypeCorrect == Spec => []TypeOK
BY PartsAreThemselves, LoopTypeCorrect, AnimatorTypeCorrect, PaneTypeCorrect,
   PromptTypeCorrect, PTL DEF TypeOK

=============================================================================
