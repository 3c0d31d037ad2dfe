----------------------------- MODULE TuiAnimator -----------------------------
(***************************************************************************)
(* The animator thread of the TUI (tui.cpp): it waits on animation_cv      *)
(* until a task runs or the log scrolls, then asks for a frame every 32 ms *)
(* through an event of which at most one is under way, and ends when       *)
(* animation_active is cleared. None of the flags it waits for is written  *)
(* under animation_mutex, so that it misses the notification when it lies  *)
(* between the look at the flags and the sleep. The flag of a scroll is    *)
(* stored by the keys that scroll and by the animation event only: what    *)
(* else moves the viewport may end a scroll and leave the flag set.        *)
(***************************************************************************)
EXTENDS Integers

CONSTANT MaxTicks   \* bound: frames a scroll takes after its first step

ASSUME TicksAssumption == MaxTicks \in Nat

VARIABLES
    hand,           \* the UI thread: "poll", or what it is about to do
    left,           \* the frames until the viewport is at its target
    scrolling,      \* scroll_animation_pending
    running,        \* session.running()
    animating,      \* animation_active
    frameEvent,     \* animation_event_queued: and it is, or is about to be
    an,             \* the animator thread
    missed          \* history: since the animator last looked at the flags it
                    \* was notified before it slept

animatorVars == <<hand, left, scrolling, running, animating, frameEvent, an,
                  missed>>

\* The animator is started just before the loop and may sleep already.
AnimatorInit ==
    /\ hand = "poll" /\ left = 0 /\ scrolling = FALSE /\ running = FALSE
    /\ animating = TRUE /\ frameEvent = FALSE
    /\ an \in {"test", "waiting"} /\ missed = FALSE

\* The types, and: a scroll that is not at its end has its flag, and the exit
\* joins a thread that has ended.
AnimatorTypeOK ==
    /\ hand \in {"poll", "wake", "tick", "stop", "notify", "join", "joined"}
    /\ left \in 0..MaxTicks
    /\ {scrolling, running, animating, frameEvent, missed} \subseteq BOOLEAN
    /\ an \in {"test", "falling", "waiting", "frame", "post", "exited"}
    /\ left # 0 => scrolling
    /\ hand = "joined" => an = "exited"

-----------------------------------------------------------------------------
(***************************************************************************)
(* The UI thread.                                                          *)
(***************************************************************************)
\* scroll_up, scroll_down: advance_scroll takes a step and stores whether
\* there is more to come; then it notifies.
ScrollKey ==
    /\ hand = "poll"
    /\ left' \in 0..MaxTicks
    /\ scrolling' = (left' # 0)
    /\ hand' = IF scrolling' THEN "wake" ELSE "poll"
    /\ UNCHANGED <<running, animating, frameEvent, an, missed>>

\* Home, End, and the jump to a block.
JumpKey ==
    /\ hand = "poll"
    /\ left' = 0 /\ scrolling' = FALSE
    /\ UNCHANGED <<hand, running, animating, frameEvent, an, missed>>

\* start_task with a prompt: session.start, follow_tail, the notification.
TaskStarts ==
    /\ hand = "poll" /\ ~running
    /\ running' = TRUE /\ left' = 0
    /\ hand' = "wake"
    /\ UNCHANGED <<scrolling, animating, frameEvent, an, missed>>

\* start_task with a slash command: follow_tail.
CommandHandled ==
    /\ hand = "poll" /\ ~running
    /\ left' = 0
    /\ UNCHANGED <<hand, scrolling, running, animating, frameEvent, an, missed>>

\* The renderer: sync moves cursor and target into fewer lines, or both to
\* the tail, and jump_to both to the selected block.
DrawLog ==
    /\ hand = "poll"
    /\ left' \in 0..left
    /\ UNCHANGED <<hand, scrolling, running, animating, frameEvent, an, missed>>

\* animation_cv.notify_one reaches an animator that sleeps.
NotifyAnimator ==
    /\ an' = IF an = "waiting" THEN "test" ELSE an
    /\ missed' = (missed \/ an = "falling")

Wake ==
    /\ hand = "wake"
    /\ hand' = "poll"
    /\ NotifyAnimator
    /\ UNCHANGED <<left, scrolling, running, animating, frameEvent>>

\* The animation event: the flag first ...
TakeFrame ==
    /\ hand = "poll" /\ frameEvent
    /\ frameEvent' = FALSE
    /\ hand' = "tick"
    /\ UNCHANGED <<left, scrolling, running, animating, an, missed>>

\* ... then the step of the viewport.
StepScroll ==
    /\ hand = "tick"
    /\ hand' = "poll"
    /\ left' = IF left = 0 THEN 0 ELSE left - 1
    /\ scrolling' = (left' # 0)
    /\ UNCHANGED <<running, animating, frameEvent, an, missed>>

\* The loop returns or throws: the flag, the notification, the join.
LoopReturns ==
    /\ hand = "poll"
    /\ hand' = "stop"
    /\ UNCHANGED <<left, scrolling, running, animating, frameEvent, an, missed>>

StopAnimation ==
    /\ hand = "stop"
    /\ animating' = FALSE
    /\ hand' = "notify"
    /\ UNCHANGED <<left, scrolling, running, frameEvent, an, missed>>

NotifyStopped ==
    /\ hand = "notify"
    /\ hand' = "join"
    /\ NotifyAnimator
    /\ UNCHANGED <<left, scrolling, running, animating, frameEvent>>

AnimatorJoined ==
    /\ hand = "join" /\ an = "exited"
    /\ hand' = "joined"
    /\ UNCHANGED <<left, scrolling, running, animating, frameEvent, an, missed>>

Joined == hand = "joined" /\ UNCHANGED animatorVars

\* The worker: nobody is notified of the end of a task.
TaskEnds ==
    /\ running
    /\ running' = FALSE
    /\ UNCHANGED <<hand, left, scrolling, animating, frameEvent, an, missed>>

-----------------------------------------------------------------------------
(***************************************************************************)
(* The animator. The predicate of the first wait, evaluated before it      *)
(* sleeps and whenever it wakes up.                                        *)
(***************************************************************************)
AnimatorGoes(from, to) ==
    /\ an = from /\ an' = to
    /\ UNCHANGED <<hand, left, scrolling, running>>

\* Mutant: scroll_animation_pending is forgotten.
TestTaskOnly ==
    /\ AnimatorGoes("test",
           CASE ~animating             -> "exited"
             [] animating /\ running   -> "frame"
             [] animating /\ ~running  -> "falling")
    /\ missed' = FALSE
    /\ UNCHANGED <<animating, frameEvent>>

Test ==
    /\ AnimatorGoes("test",
           CASE ~animating                            -> "exited"
             [] animating /\ (running \/ scrolling)   -> "frame"
             [] animating /\ ~(running \/ scrolling)  -> "falling")
    /\ missed' = FALSE
    /\ UNCHANGED <<animating, frameEvent>>

FallAsleep ==
    /\ AnimatorGoes("falling", "waiting")
    /\ UNCHANGED <<animating, frameEvent, missed>>

SpuriousWakeup ==
    /\ AnimatorGoes("waiting", "test")
    /\ UNCHANGED <<animating, frameEvent, missed>>

\* wait_for: 32 ms, or the end.
WaitFrame ==
    /\ AnimatorGoes("frame", IF animating THEN "post" ELSE "exited")
    /\ UNCHANGED <<animating, frameEvent, missed>>

\* The exchange of the flag and the post; nobody else sets the flag, and
\* nothing but the event itself clears it.
PostFrame ==
    /\ AnimatorGoes("post", "test")
    /\ frameEvent' = (frameEvent \/ running \/ scrolling)
    /\ UNCHANGED <<animating, missed>>

\* PostEvent throws: no more animation.
PostFrameFails ==
    /\ AnimatorGoes("post", "test")
    /\ ~frameEvent /\ (running \/ scrolling)
    /\ animating' = FALSE
    /\ UNCHANGED <<frameEvent, missed>>

-----------------------------------------------------------------------------
HandContinues == Wake \/ StepScroll \/ StopAnimation \/ NotifyStopped \/ AnimatorJoined

AnimatorStep == Test \/ FallAsleep \/ WaitFrame \/ PostFrame \/ PostFrameFails

AnimatorNext ==
    \/ ScrollKey \/ JumpKey \/ TaskStarts \/ CommandHandled \/ DrawLog
    \/ TakeFrame \/ LoopReturns
    \/ HandContinues \/ TaskEnds \/ AnimatorStep \/ SpuriousWakeup \/ Joined

AnimatorSpec == AnimatorInit /\ [][AnimatorNext]_animatorVars

\* Both threads are scheduled and the event gets its turn in FTXUI's queue.
\* Nobody promises a spurious wakeup.
AnimatorFairness ==
    /\ WF_animatorVars(HandContinues) /\ SF_animatorVars(TakeFrame)
    /\ WF_animatorVars(AnimatorStep)

FairAnimatorSpec == AnimatorSpec /\ AnimatorFairness

\* The animator sleeps while there is work - a task, a scroll, the end - only
\* if its notification is still to come, or came before it slept.
SleepIsExcused ==
    /\ an \in {"falling", "waiting"}
    /\ running \/ scrolling \/ ~animating
    => missed \/ hand \in {"wake", "notify"}

MissedNotification == an = "waiting" /\ missed

(***************************************************************************)
(* Nothing but a missed notification stalls the animator: when the user    *)
(* scrolls no further the scroll arrives, and the exit gets its join,      *)
(* whatever the flags, the coalesced event and the tasks do meanwhile. An  *)
(* animator whose event could not be posted scrolls no more, but ends.     *)
(***************************************************************************)
OnlyMissedWakeupsStall ==
    /\ <>[][~ScrollKey]_animatorVars
         => <>[](~scrolling \/ ~animating \/ MissedNotification)
    /\ hand = "stop" ~> hand = "joined" \/ (hand = "join" /\ MissedNotification)

(***************************************************************************)
(* The way out joins the animator, so that the terminal is restored        *)
(* (docs/modules.md:513-514); Ctrl+Q ends the program                      *)
(* (docs/tui-integration-changes.md:112).                                  *)
(***************************************************************************)
ExitJoinsAnimator == hand = "stop" ~> hand = "joined"
=============================================================================
