# A TLA+ model of My_Agent

My_Agent is a small coding agent in C++: a loop that sends a conversation to a
language model, takes the shell command out of each reply, has it authorized,
runs it, and appends what it printed to the conversation. Three programs share
it: a console program, a terminal UI (`swe-agent-tui`) and an Agent Client
Protocol server on stdio (`agent-acp`). Sessions are kept in one SQLite file.

This directory holds TLA+ modules of the parts of the program that are hard to
test, TLC configurations that model-check them on small instances, and proofs,
checked by TLAPS, of what holds of the core for every instance.

    tlc -config MCAgentLoop.cfg MCAgentLoop.tla      # a run
    tlapm AgentLoop_proofs.tla                       # the proofs

Contents: [1 the system](#1-the-system), [2 modules](#2-modules-and-code),
[3 runs](#3-runs-bounds-and-what-they-show), [4 fairness](#4-fairness),
[5 proofs](#5-proofs), [6 where code and documentation
differ](#6-where-code-and-documentation-differ),
[7 not modelled](#7-what-is-not-modelled), [8 plan](#8-plan).

## 1 The system

Paths are relative to the repository; `agent/` is `src/include/agent/`.

| Component | State it keeps | Operations |
|---|---|---|
| Agent loop: `agent/agent_loop.hpp`, `agent_session.cpp`, `agent/history.hpp` | `history_` (messages in memory), the step counter | `submit`, `run`, `append_history`, events to `on_event` |
| Command policy and authorization: `command_policy.cpp`, `command_authorization.cpp`, `command_review.cpp` | none | `evaluate_command_policy`, `authorize_command`, the console's reviewer |
| Shell: `shell.cpp`, `process_result.cpp` | a child process, a pipe | `run_shell`, `extract_run_command` |
| Session store: `sqlite_session_store.cpp` | the tables `sessions` and `messages`; one connection and at most one transaction per process | create, append, load, update model, list, archive, reset |
| Session manager: `session_manager.cpp` | the active `AgentSession` of a TUI or console process | new session, continue latest, resume, submit |
| TUI task controller: `tui_session.cpp`, `tui_state.cpp` | status, activity, log, pending command, mode, decision, the worker thread, a mutex and a condition variable | start, request stop, submit decision, toggle mode, load, snapshot, stop and join |
| TUI event loop: `tui.cpp` | the screen, focus, the animator thread, a refresh flag | key handlers, refresh, exit |
| Slash commands: `slash_*.cpp` | none | parse, dispatch, `/new`, `/sessions`, `/resume` |
| Log view: `log_viewport.cpp`, `log_block.cpp` | scroll offset, follow mode, folded blocks | scroll, resize, fold, select |
| Prompt line: `prompt_history.cpp`, `slash_suggest.cpp` | history with a draft, suggestions | previous, next, complete |
| ACP server: `acp_server.cpp`, `acp_json_rpc.cpp` | handshake state; reads one message after the other | initialize, session/new, load, resume, list, close, prompt, cancel |
| ACP session registry: `acp_session_registry.cpp` | the active `AgentSession` objects, up to a limit | create, restore, close, find |
| ACP prompt controller: `acp_prompt_controller.cpp` | the active `PromptState`: worker, stop source, permission request and response, tool calls | start, cancel, cancel and wait, handle response, stop and join |
| Model client: `model_client.cpp`, `http_client.cpp` | none | query, cancelled by a progress callback |
| Configuration and entry points: `cli.cpp`, `acp_cli.cpp`, `agent_loader.cpp`, `main.cpp`, `acp_main.cpp`, ... | read once at start-up | |

How they interact:

* A front end calls `submit` (through the manager, or on a registry object),
  which appends the prompt and calls `run`. `run` calls the model client, the
  front end's authorizer, the shell, and `append_history`, which changes the
  memory first and then calls the store. It reports by calling `on_event`.
* In the TUI, `submit` runs on a worker thread; the UI thread starts it, stops
  it through a `StopSource` and answers its approval requests through
  `approval_decision_` and `approval_cv_`.
* In `agent-acp`, `submit` runs on a worker thread too; the server thread is
  the only one that reads the client's messages, so a permission response
  reaches the worker through it. Both threads write to the client and both use
  the one SQLite connection.
* Any number of TUI, console and ACP processes share the database file.

What is hard in it, and what makes it correct:

| Component | Hard behaviour | Correct when |
|---|---|---|
| Agent loop | failed appends, a stop between any two looks at the token, death between a command and its observation, restart | memory and rows agree; the stored conversation is one the protocol allows; a command runs at most once, after its request is durable; the step limit and the stop bound what a run does; the verdict is true |
| Authorization | order of the policy's tests, who may overrule whom | a denied command never runs; a command that needs review runs only after the user's approval of that command |
| TUI controller | lost wakeups, late decisions, events after a stop, starting while the worker still returns | busy exactly while the runner lives; decisions go to the request they were made for; a task can be ended |
| ACP controller and server | cancel, close, timeout and late responses around one wait; writes that fail; the only reader joining the worker | one response per prompt; tool calls end before it; permissions match; nobody waits forever |
| Store | two threads in one connection, several processes on one session, failing statements, death in a transaction | a session never forks; nothing half written; the write lock is released |
| Shell | stop, SIGTERM, SIGKILL, EOF before exit, children that keep the pipe open | the command ends, output is bounded, every child is reaped |
| TUI event loop | coalesced refreshes, exit after a stop, the animator thread, `/new` and `/resume` that fail half way | the last state is drawn; the exit happens; a prompt goes to the session on display |
| Log view | entries merged as they come, cached lines and a cached panel, sessions exchanged under the cache, resizes | the lines are those of the whole log; the reader is not moved |
| Prompt line | suggestions computed for one text and applied to another, history around a draft | what was typed comes back; positions are inside the text |
| ACP sessions, listing | pages of an order that changes, restores that fail half way | nothing twice, nothing untouched missed; a session that was given stays, within the limit |

`PROJECT.json` lists the hazards one by one, each at its line, with the
properties that cover it.

## 2 Modules and code

| Module | Stands for | Notes |
|---|---|---|
| `Conversation` | `history.hpp`, the message kinds, what `extract_run_command` makes of a reply | Vocabulary. A message is its kind and the one thing the loop reads from it. `Grammatical` says what may follow what. |
| `ConversationLog` | | Abstract specification: a durable conversation that grows by one legal message at a time and whose requests are run at most once. |
| `CommandAuthorization` | the policy, `authorize_command`, the console reviewer | Operators over the shape of a command: the class of its first token and whether it has shell metacharacters. |
| `AgentLoop` | `submit`, `run`, `append_history`, restart with `--continue` | Implements `ConversationLog`. |
| `TuiSession` | `TuiSession`, the status part of `TuiState` | Two threads; uses `CommandAuthorization`. |
| `AcpPrompt` | `AcpPromptController` with `AcpServer`'s handlers and the registry | Two threads and the client; uses `CommandAuthorization`. |
| `Shell` | `run_shell`, `format_process_result` | The worker, the processes of the command and the pipe between them. |
| `SessionStore` | `SqliteSessionStore` and the code that restores from and appends to it | Several connections, several threads of one. |
| `AcpServer` | the handshake, the session requests, `AcpSessionRegistry`, `list_sessions_page` | One request, one step: they are handled one after the other. |
| `TuiLoop` | the event handler of `tui.cpp` with `post_refresh`, tasks, `/new`, `/resume` and the exit | UI thread and worker. |
| `TuiAnimator` | the animator thread of `tui.cpp`, `animation_cv` and its flags | UI thread and animator. |
| `LogViewport` | `log_viewport.cpp` | Functions from one viewport to the next. |
| `LogPane` | `TuiState`'s log, `TuiSession::snapshot`, `log_block.cpp`, `make_log_lines`, the cached lines and panel of `tui.cpp` and the keys that move in them | Extends `LogViewport`. |
| `PromptLine` | the input line of `tui.cpp`, `prompt_history.cpp`, `slash_suggest.cpp`, the parsing of `slash_registry.cpp` | |
| `MC...` | | Instances for TLC. |
| `..._proofs` | | Theorems about the module of that name. `LogPane_proofs` is about `LogViewport` too, `AcpServer_proofs` about `MCAcpServer`, and `Tui_proofs` about `TuiLoop`, `TuiAnimator`, `PromptLine` and `MCTui`. |

**AgentLoop.** `pc` is the place in `run`, cut where the loop reads the stop
token, blocks, or crosses into the store. `history` is `history_`, `stored`
the session's rows. An append is two actions: `Push` (inside the action that
decides on the message) and `Commit` or `CommitFails`, so that a crash or a
stop can fall between them. `after` is where the loop goes on when the append
returns. `events` is what `on_event` was called with in the run, `ran` and
`late` are history variables: the positions of the requests a shell was
started for, and how much work was begun after the stop request. The reply of
the model is chosen from five classes (`Replies`), the ones the loop tells
apart.

**TuiSession.** One action per critical section of `mutex_`. The worker keeps
the mutex over two steps in `approval_cv_.wait`: from the predicate to the
sleep (`wk = "sleep"`) and from waking up to the return (`"resolve"`); actions
of the UI thread that take the mutex are blocked there. `request_stop` sets
the token and notifies without the mutex, so `SetToken` and `NotifyStop` are
not. `decidedFor` is a history variable: the request that was on display when
the user decided. `stop_and_join`, the destructor's path, is `QuitCalled`,
`SetToken`, `NotifyStop`, `QuitJoins`.

**AcpPrompt.** The server thread is `srv`: `"ready"` to read, or inside a
handler that still has a step to take (notify, join). A client message is
handled by one action, followed by those steps. The client is any client: it
sends every message at any time, repeats responses, closes sessions, breaks
the stream. A permission response is one of five classes; the one whose
result is no object (`Malformed`) makes `Resolve` throw, so that the runner is left
with the tool call still pending. `view[t]` is the sequence of updates the client was told about
tool call t, `replied[p]` the responses to prompt request p. A failing write
is `broken` (for good) or a refusal of one text by the JSON library, which
throws on text that is not UTF-8.

**SessionStore.** `db` is what is committed, `lock` the connection with the
open transaction, `draft` its version. The statements of a transaction are
separate actions: SQLite serialises single calls on a connection, not
transactions. In `agent-acp` the worker (`Prompting`) and the server
thread (`Managing`, `Servers`) use one connection. A message is known by the
connection that wrote it. `mem` is `history_` of each process's session
objects.

**Shell.** One call of `run_shell`, seen closer than in `AgentLoop`, where it is
`ShellChecks`, `ShellForks` and `ShellReturns`. `pc` is the place in the function, `phase`
stands for `termination_requested`, `force_kill_at` and `force_killed`. The
command is external and may do what commands do: write, start a process in
the background, leave the process group, ignore SIGTERM, close its output and
go on, exit or die. Output is counted in units of which a read takes some.
`written` is a history variable; what was received is `written - buffer`.
EINTR is no step; a process in uninterruptible sleep and a write to a pipe
whose reader is gone are left out.

**AcpServer.** The sessions of one client, next to the prompts of `AcpPrompt`. A
session is known by its id, a number in the order SQLite compares ids, and
`updated` is its `updated_at_ms`. The query's `ORDER BY` is `InOrder`, the
sequence of the matching sessions in which each `Precedes` the next. Between two requests the worker, another
process and the clock may change times. `listing` is what the client has put
together from the pages so far; `held` is a history variable, the sessions the
client was told it may prompt. `RestoreSession` has three outcomes: answered,
failed in the replay after the session became active, failed before.

**TuiLoop.** `ui` is the place of the UI thread: in the queue's `poll`, inside a
handler between two critical sections (`deciding`, `stopping`, `quitting`,
`loading`, `starting`), or on its way out. The worker is `TuiSession`'s with
only its notifications seen closely: `note` is where it is in `post_refresh`.
`refreshFlag` is `refresh_event_queued`, `refreshEvent` the event in FTXUI's
queue. `fresh`, `warned` and `lost` are history variables: whether the screen
shows the present state, whether the user was told that a switch went wrong,
whether `PostEvent` threw.
On the UI thread a throwing `PostEvent` is left out.

**TuiAnimator.** `hand` is the UI thread's place as far as the animator is
concerned, `an` the animator's: `test` evaluates the predicate of
`animation_cv.wait`, `falling` is the gap before it sleeps, which a
notification without the mutex can hit. A scroll is the number of frames it
still takes (`left`); that it takes finitely many is the theorem
`AnimationAdvances`. `scrolling` is `scroll_animation_pending`, which the scroll
keys, the jumps and the animation event store. `follow_tail`, after Enter
(`TaskStarts`, `CommandHandled`), and the renderer's `sync` and `jump_to` (`DrawLog`)
end or shorten a scroll and leave the flag alone: it can be set with nothing
left to scroll until the next event clears it, never the other way round.
`missed` is a history variable: a notification came while the animator was in
`falling`. When the loop begins the animator sleeps already or is at its first look
at the flags.

**LogPane.** A log entry is its session, place and kind; of the text only the
number of rows in a narrow and in a wide terminal is kept. `Frame` is the whole
renderer: snapshot, resize, resync, merge, rebuild, sync, jump. `drawn` is a
history variable: the cached panel is what would be drawn now, or marked stale.
The code's loops over entries and over blocks are functions on `0..n`, `p[n]` being what
the loop has made of the first n. `Unknown` is the greatest `std::size_t`, the
revision that `/new` and `/resume` leave in `cached_log_revision`. The blank line
that ends each block is left out.

**PromptLine.** Texts are sequences of abstract characters, among them the blank
and the slash. `typed` is a history variable, the text as the user last made
it. The names on offer are the positions of matching commands in `Commands`,
the registry's order, and `chosen` is the selected position: the registry
throws on a second command of the same name, so position and name say the
same. Lines are numbered from 0 in `LogViewport`, blocks from 1 in `LogPane`,
characters from 1 here.

**MCTui, MCAcpServer.** The parts composed in an instance share no variable:
what one needs to know of another it has as its environment (`TaskStarts` and
`TaskEnds` of `TuiAnimator`, `BusyEnds` of `PromptLine`). An interleaving of
their steps would show no more than each of them alone, so the variable `part`
picks the one that moves in a behaviour; it is a sum of state spaces, not a
product. The parts that do not move are at rest, in states from which fairness asks
no step of them (`MCTui` has the animator asleep then). That the animator's exit can
hang is shown on `TuiAnimator` alone.

Left out inside the modelled parts: wording of messages, titles of
sessions, the model's name, damaged rows, `AgentSession::clear`,
`reset_session` and `archive_session`, which nothing in the programs calls.

## 3 Runs, bounds and what they show

| Run | Expect | Asks |
|---|---|---|
| `MCAgentLoop` | pass | `TypeOK`, `MemoryMatchesStore`, `RunsOnceAndDurably`, `StepsCountTurns`, `StopBoundsWork`, `ReportIsTrue`, `ImplementsLog`, `RunEnds` |
| `MCTuiSession` | pass | `TypeOK`, `DecisionForThisRequest`, `RunsOnlyApproved`, `StatusIsTrue`, `DecisionIsTaken`, `PressingStopEndsTask` |
| `MCTuiSessionStop` | violation | `StopWakesReview` |
| `MCAcpPrompt` | pass | `OneResponsePerPrompt`, `ToolCallsSettleFirst`, `OnlyPermittedRuns`, `SessionObjectIsStable` |
| `MCAcpServer` | pass | `MCTypeOK`, `PagesMakeAList`, `GivenSessionsAreActive`, `CancelEndsPrompt`, `ResponseReachesWorker` |
| `MCAcpPromptBusy` | violation | `BusyMeansRunning` |
| `MCShell` | pass | `TypeOK`, `OutputIsFaithful`, `KillReachesAll`, `StopEndsCall`, `ReadsToTheEnd` |
| `MCShellStop` | violation | `StopIsHeard` |
| `MCSessionStore` | pass | `TypeOK`, `MemoryIsPrefix`, `CommitsWholeMemory`, `LockIsReleased` |
| `MCSessionStoreNested` | violation | `BeginsAlone` |
| `MCTui` | pass | `TypeOK`, `LogIsWhole`, `PromptIsKept`, `PromptReachesItsSession`, `LastStateIsDrawn`, `QuitEnds`, `ReaderIsNotMoved`, `OnlyMissedWakeupsStall` |
| `TuiAnimatorExit` | violation | `ExitJoinsAnimator` |

Three properties put together what is one promise in parts: `ReportIsTrue` is
`EventsPaired` and `VerdictIsTrue`, what the front end is told of a run;
`StatusIsTrue` is `BusyWhileRunnerLives`, `DisplayMatchesWorker` and
`StoppingIsFinal`, what the status line says; `OutputIsFaithful` is
`OutputIsPrefix` and `OutputIsComplete`.

What the runs of the terminal UI show, in words: however log entries are split
over frames, merged, folded, wrapped anew and exchanged for another session's,
the cached lines are those of the whole log (`LogIsWhole`), and the drawn panel
is never a stale one that nobody marked; who reads further up is not moved by
what is logged meanwhile, and a submission brings him back to the tail
(`ReaderIsNotMoved`); going back in the history and forth returns the text that
was typed (`PromptIsKept`); a prompt goes to the session whose log is on
display, or the user was told (`PromptReachesItsSession`); the last state is
drawn, and the exit is taken as far as the animator lets it (`LastStateIsDrawn`,
`QuitEnds`). It does not always: the animator can miss the notification of
its end and keep the exit in its join for ever (`ExitJoinsAnimator` is violated), or
that of a scroll and leave it half way. What the passing run shows is that this
is the only way (`OnlyMissedWakeupsStall`): unless the animator sleeps on a missed
notification every scroll arrives and every exit gets its join, with flags that
are stale, events that are coalesced or cannot be posted, and tasks that come and
go.

For a prompt over ACP the tool calls end before the response, and the response
comes once, on every path (`ToolCallsSettleFirst`, `OneResponsePerPrompt`): among
them the exception of a malformed permission response, with the stream whole and
the call announced and pending. That the prompt fails there at all is
against the documentation (section 6, item 7).

A run checks a property once: what the refinement implies
(`StoredIsGrammatical`, `RefusedNeverRan`), or what concerns one sequential
decision (`DeniedNeverStarts`, `FailureIsShown`), is left to the theorems of
section 5.

Bounds, and why they are enough for the case each is there for:

* `AgentLoop`: step limit 2, conversations of up to 6 messages before the last
  prompt. Two full turns and then a second prompt with the first one's
  leftovers in memory: an error in the rollback or in the step counter of one
  turn shows in the next. Three commands, one that the policy allows, one that
  it wants reviewed, one that it denies and that is complex too. The answers
  are those of any front end: approve, reject, stop. `MaxReplies` only caps
  runs without a step limit and is above the limit here.
* `TuiSession`: three requests, in one task or in several. A decision that
  went astray would need a request to be made for and another to hit; the
  third allows both with a new task between them. Tasks themselves are not
  bounded.
* `AcpPrompt`: two prompts, two tool calls, two sessions, room for one, two
  opens. Two tool calls are one to answer late and one to be hit, two prompts
  one to leave something behind and one to find it, two sessions with one
  place are the capacity's limit and a close of the other session.
* `AcpServer`: one prompt and one tool call for the liveness properties, which
  are about one wait; three sessions in two workspaces, room for two, pages of
  one session and a clock of three milliseconds: pages that meet inside one
  millisecond, a session that moves to the front between two pages, one of
  another workspace, and a third session at the limit.
* `AcpPrompt`, violation run: one session, one tool call; a second prompt, which is
  the one that finds the server busy.
* `Tui`: two sessions and one approval, which is put to the user, decided or
  stopped, before the task ends and the next one starts; a scroll of up to two
  frames after its first step, so that one can go on, be cut short or arrive (the
  run of `TuiAnimator` needs one); a log of four entries, the least with which a
  task logs a command and its observation after a restored entry, and then a
  session of two, shorter than the revision left behind. Two widths, in one of
  which an observation fills two rows; a window of three lines and scrolls of
  two, so that the log is longer than the window. Two commands, one the start
  of the other, one that takes an argument; two typed characters and two
  prompts in the history. `MaxAhead` bounds the animation: a scroll
  key is handled only where, after its first step, the cursor is within a line
  of its target.
* `Shell`: a shell and one background process, a limit of two units, reads of
  up to two, a pipe of two, five units written. A read can reach the limit,
  pass it by one, and the pipe fills up again after it. One background
  process is enough to outlive the shell, to hold the pipe open, to leave the
  group or to be started while the signals are sent. The violation run needs
  the shell alone.
* `SessionStore`: three threads in two processes, two sessions, two appends
  after the seed. Two processes can each be one append ahead of the other, and
  the third append meets the size limit. `MaxRows` is the program's own limit
  counted in messages, not a bound.

No run restricts deadlock checking: a program that has ended stutters in an
explicit `Exited` or `Returned` action, and in `AgentLoop` and `SessionStore` a process can
always die and restart.

Every property of a passing run is known to be able to fail: for each one
`PROJECT.json` names a mutant, an operator in the module marked `Mutant:`,
that changes one definition the way a slip in the code would and under which
TLC finds the property violated.

## 4 Fairness

* `AgentLoop`: `WF_vars(LoopStep)`. The worker is scheduled, the provider
  answers or fails (libcurl has a timeout of 60 s), the reviewer answers and
  the command ends. The last two are assumptions about people and commands;
  the code has no timeout for either. A crash may come at any time and never
  has to. `RunEnds` is checked under a step limit; without one, a model that
  goes on for ever is meant to.
* `TuiSession`: weak fairness of each thread's own steps (`UiContinues`: what a
  call that was made still has to do; `WorkerStep`). The user's actions, the
  spurious wakeup and the failures have none. `PressingStopEndsTask` says
  itself what it assumes of the user, `SF_vars(StopCalled)`: the stop request
  is repeated as long as the UI accepts it. With a single request the wakeup
  can be lost, see section 6.
* `AcpPrompt`: weak fairness of both threads. `TimesOut`, the end of
  `wait_for`, has none in the specification; `CancelEndsPrompt` assumes it by
  name, and `ResponseReachesWorker` holds without.
  That the properties depend on the timeout is a fact about the code worth
  having: the notification of `cancel` can be lost.
* `Shell`: weak fairness of `run_shell` itself, of the clock (`GraceEnds`) and of
  the death of a process that was sent a signal it does not ignore. The
  command has no fairness: it may go on for ever. `StopEndsCall` assumes by
  name that neither of the two cases in which the code waits for the command
  lasts for ever.
* `TuiLoop`: weak fairness of what the UI thread does by itself and of the
  worker's notification; strong fairness of taking the refresh event, of the
  loop's end and of drawing, for FTXUI's queue is first in, first out, so that
  keys in any number do not keep an event from being handled, and it draws
  when the queue is empty. User, model and command have none. `QuitEnds`
  assumes by name (`TaskHeedsStop`) that a task that was stopped ends, which is
  `AgentLoop`'s and `Shell`'s business, and (`AnimatorEnds`) that the animator ends
  when it is told to. The code does not justify the second: `TuiAnimator` shows
  when it fails (section 6), so `JoinAnimator` has no fairness, and without the
  assumption an exit may stay in the join.
* `TuiAnimator`: weak fairness of both threads, strong fairness of taking the
  animation event, whose turn comes in FTXUI's queue. Spurious wakeups happen
  or not: no standard and no platform promises them, so nothing here relies on
  them.
* `AcpServer`, `LogPane`, `PromptLine`: safety only, no fairness.
* `SessionStore`: `WF_vars(Continue(t))` per thread: inside an operation a
  thread goes on. Which of its continuations it takes, success or failure, is
  open; a begin that waits for another process is allowed to fail at any
  time, as the busy timeout lets it.

## 5 Proofs

The theorems hold for every value of the constants that the named assumptions
of the modules allow. Most only give the constants their types. These say more:
the shell is none of its helpers (`ProcessesAssumption`); there is a session
(`SessionsAssumption` of `AcpPrompt` and `TuiLoop`); a restored log has an entry
(`load_session` begins with one of its own) and fits its bound, and no log is as long
as the greatest number there is (`PaneAssumption`); a process has one thread
that creates and restores sessions (`ThreadsAssumption` of `SessionStore`: the
UI thread, the console's only thread, the server thread of `agent-acp`); and
blank and slash are characters, commands texts (`PromptAssumption`). So the
theorems are for every set of commands and reviewers and every step limit
(`AgentLoop`), any number of requests (`TuiSession`), of prompts, tool calls
and sessions (`AcpPrompt`), of processes, threads and sessions
(`SessionStore`), for any set of session ids, an infinite one too, and pages of
every size (`AcpServer`), any number of processes and every size of buffer and
pipe (`Shell`), and for texts, histories, logs, windows and scrolls of any size
(the terminal UI). The bounds of `MC` instances (`MaxRequests`, `MaxRows`, ...) stay
in the guards, but with any value. No theorem is about a fair specification,
so none assumes fairness. A theorem about a part of the composed instances
`MCAcpServer` and `MCTui` is about the part's own specification (`ServerSpec`,
`LoopSpec`, `AnimatorSpec`, `PaneSpec`, `PromptSpec`). It holds in the instance
too: a step of one part leaves the others alone, so that a behaviour of the
instance is one of each part (`PartsAreThemselves`).

| Theorem of `AgentLoop` | Says |
|---|---|
| `TypeCorrect` | `TypeOK`, with the step counter never above the limit |
| `MemoryAndStore` | `MemoryMatchesStore` |
| `StoredConversation` | `StoredIsGrammatical` |
| `RunsAtMostOnce` | `RunsOnceAndDurably` and `RefusedNeverRan` |
| `LoopImplementsLog` | `AgentLoop` implements `ConversationLog`, its `log` being `stored` |
| `StopIsBounded` | `StopBoundsWork` |
| `NoDeniedCommandStarts` | `DeniedNeverStarts` |
| `StepsAreTurns` | `StepsCountTurns` |
| `VerdictsAreTrue` | `VerdictIsTrue` |
| `ReportsAreTrue` | `ReportIsTrue`: that, and that starts, finishes and verdicts are paired (`EventsPaired`) |

| Theorem of `TuiSession` | Says |
|---|---|
| `TypeCorrect` | `TypeOK` |
| `DecisionsStayWithRequest` | `DecisionForThisRequest` |
| `OnlyApprovedRuns` | `RunsOnlyApproved` |
| `StatusTellsTheTruth` | `StatusIsTrue`: `BusyWhileRunnerLives`, `DisplayMatchesWorker` and the action property `StoppingIsFinal` |

| Theorem of `AcpPrompt` | Says |
|---|---|
| `TypeCorrect` | `TypeOK` |
| `PromptsAreAnsweredOnce` | `OneResponsePerPrompt` |
| `ToolCallsEnd` | `ToolCallsSettleFirst` |
| `CommandsArePermitted` | `OnlyPermittedRuns` |
| `ObjectIsNotReplaced` | `SessionObjectIsStable` |

| Theorem of `SessionStore` | Says |
|---|---|
| `TypeCorrect` | `TypeOK`, with no session longer than its limit |
| `NoForks` | `MemoryIsPrefix` |
| `NothingIsLostInCommits` | the action property `CommitsWholeMemory` |

| Theorem of `AcpServer` | Says |
|---|---|
| `ServerTypeCorrect` | `ServerTypeOK` |
| `GivenStayActive` | `GivenSessionsAreActive` |
| `PagesMakeOneList` | `PagesMakeAList` |
| `PartsAreThemselves` | `MCAcpServer` is `AcpPrompt` and `AcpServer`, each by its own specification |
| `MCTypeCorrect` | `MCTypeOK`, the types of both |

| Theorem of `Shell` | Says |
|---|---|
| `TypeCorrect` | `TypeOK`, with the output never above its limit |
| `OutputIsAPrefix` | `OutputIsPrefix` |
| `OutputIsWhole` | `OutputIsComplete` |
| `ResultIsFaithful` | `OutputIsFaithful`, the two together |
| `FailuresAreShown` | `FailureIsShown` |
| `KillIsComplete` | `KillReachesAll` |

| Theorem of `LogViewport` and `LogPane` | Says |
|---|---|
| `ViewportStaysInLog` | every operation of the viewport keeps cursor and target inside the log |
| `CursorIsShown` | the window drawn contains the cursor's line, and is as high as it can be |
| `AnimationAdvances` | every frame of a scroll is nearer to its target |
| `PaneTypeCorrect` | `PaneTypeOK` |
| `LogStaysWhole` | `LogIsWhole` |
| `ReaderStays` | the action property `ReaderIsNotMoved` |

| Theorem of `TuiLoop`, `TuiAnimator`, `PromptLine`, `MCTui` | Says |
|---|---|
| `LoopTypeCorrect`, `AnimatorTypeCorrect`, `PromptTypeCorrect` | `LoopTypeOK`, `AnimatorTypeOK`, `PromptTypeOK` |
| `AnimatorSleepsExcused` | `SleepIsExcused`: an animator asleep with work to do has a notification coming or missed one |
| `PromptGoesToItsSession` | the action property `PromptReachesItsSession` |
| `PromptStaysKept` | `PromptIsKept` |
| `PartsAreThemselves` | `MCTui` is the four parts, each by its own specification |
| `TuiTypeCorrect` | `TypeOK`, the types of all four |

*Types.* `TypeOK` of `AgentLoop` says that `step` is at most `StepLimit`. That is not
inductive: the actions that count a turn do not look at the limit. `BelowLimit`
adds where the limit was looked at: anywhere inside a turn `step < StepLimit`.
`TypeInv` is both.

*Conversation.* `ConvInv` is the inductive invariant behind the next four
theorems. `MemoryMatchesStore` and `StoredIsGrammatical` are not inductive,
since `Commit` makes durable whatever is in memory, and `ShellForks` starts
whatever is last. Its further parts say what is known at each place of the
loop: `At(p, Newest)`, what the newest stored message is at place `p` (from
the parsing of a reply to the end of its shell it is that reply, elsewhere it
is no reply of the model); `Appending`, that during an append the message on
its way may follow the newest stored one, suits the place where the loop goes
on, and is a refusal only of a request that has not run; `Fresh`, that before
a fork the newest request has not run. A crash keeps all of it because
none of the parts speaks of a loop that is down except through `stored`;
a restart goes to `idle` and never into the shell, which is where
`RunsAtMostOnce` comes from: the mutant `RestartResumesRequest` breaks just
that.

*Refinement.* Each action is a step of `ConversationLog` or leaves
`<<stored, ran>>` unchanged: `Commit` is `Say`, `ShellForks` is `Run`, by
`Appending` and `Fresh`.

*Stop.* `StopBoundsWork` (`late <= 1`) needs `LateInv`: once work was begun
after the stop request, the token is set and the loop is past `"forking"`, the
one place from which a shell starts without another look at the token.

*Turns and events.* `StepsCountTurns` speaks of the end of a run; `CountInv`
says at every place how many messages the conversation has: the two of every
counted turn and `Ahead`, those of the turn that is not counted yet. `EventInv`
says where a shell's start is open (`pc` in the shell) and that elsewhere all
starts are finished, so that the verdict comes behind a closed list.

*TuiSession.* The types need that a runner that returns has a result. What is
displayed, what is awaited and what was decided are four variables written by
two threads, so one invariant, `IInv`, speaks of them together: the parts of the
properties, that the worker's request has a number wherever it is awaited
(otherwise the 0 of "nothing pending" would match it), and `ApprovalsAreTrue`,
what is known of the command at each place between the policy and the shell.
`StoppingIsFinal` is then a look at each step from a state with `IInv`.

*AcpPrompt.* `SlotHoldsWorker`: a worker that is not joined holds the prompt's
slot (`active_`), or the server thread is on its way to join it, so that no
second worker is ever made and `SessionObjectIsStable` is inductive.
`ResponsesMatchPlace` gives for each place of the worker whether its prompt has
its response; `CallsMatchPlace` ties what the client was told of a tool call,
one of a handful of stories (`CallMatchesView`), to the controller's own record of it,
with the call at hand not announced as running before the shell. `ToolCallsSettleFirst`
follows: no story in it goes on behind its end. `ApprovalsAreTrue` ties a stored
answer to the request that is awaited and this to the tool call at hand; a late
answer finds another request awaited.

*SessionStore.* `MemoryIsPrefix` is not inductive: a commit puts into the
database what the transaction has drafted. `DraftIsOneStep` says what that is:
before the insert what is committed, after it one message more, which makes the
durable conversation the writer's memory, or one new session. It needs
`OneTransaction` (the lock is the transaction's and there is one at most,
of all the threads that share connections), `ThreadsHaveTasks` and
`OnePromptInProcess` (two threads of a process never work on one session
object) and `IdsInOrder` (the next id is nobody's). `MemoryMatchesPlace` says
that the rows read for a restore are still a prefix when they are installed:
conversations only grow.

*AcpServer.* The list that the pages make is without gap because the cursor is
its last member (`CursorIsLast`: all that was got comes at or before it) and a
time only grows (`SinceBegun`): a session may move to the front, past the
cursor, where `PagesMakeAList` excuses it, and no session moves behind the cursor.
`InOrder` is a `CHOOSE`, and that there is such an order of finitely many
rows is `OrderedRows`: the place of a row is the number of rows before it and one
more, which is an injection into as many places. `Counted` says that the rows
are finitely many at any time, also where `Ids` is not. `GivenSessionsAreActive`
needs `OneWorks`, one prompt at a time.

*TuiLoop.* `PromptReachesItsSession` holds because the manager's session changes
only where no task runs. `LoopInv`: the task is busy exactly while the worker is
(`BusyIsRunning`), the UI thread inside a half-done switch or start has no task
(`HandlerIsIdle`), and outside of it the active session is the one on display or
the user was warned (`ViewIsActive`).

*TuiAnimator.* `SleepIsExcused` is inductive together with the types, of which it
needs one clause: a scroll that is not at its end has its flag
(`left # 0 => scrolling`). Otherwise the animation event could set the flag of a
sleeping animator that nobody is about to notify.

*PromptLine.* `PromptInv` is `PromptIsKept` with the types of the texts and the
selection inside what is on offer. Most of the proof is about texts: an edit, a
completion and a move in the history give a text and a cursor within it.
`SuggestionIsSound` says that an open offer names commands and a token inside
the text (`TokenInside`), so that the completion cuts within it.

*Shell.* The limit of the output follows from `OutputIsPrefix`, so that the two
are proved as one invariant, with `buffer <= written`. `OutputIsComplete` is
inductive as it stands: who holds no pipe inherits none. `FailureIsShown` needs
`ReapInv`: the result is an exit only where the shell was reaped.
`KillReachesAll` needs `GroupInv`: no signal is sent before the parent's
`setpgid`, and no background process is in the caller's group, so that the
group signalled has all who did not leave; a process that may still start
others after SIGKILL has left the group itself.

*Viewport.* `ViewportOK` is the invariant of a viewport: cursor and target are
lines of the log, and one that follows is at the last line. It is what the
unsigned subtractions of `log_viewport.cpp` rely on. `MCTui` checks it as a part of
`TypeOK` with the log pane around it; the lemmas show that each operation keeps
it, `StepBounds` being the reason for `tick`.

*Log pane.* `LogIsWhole` speaks of the moment after a frame; `PaneInv` says what
the cache is worth at any time. `UpToKnown`: the blocks are those of the first
`known` entries (`Merged`), or of a log that is gone, and then `known` is `Unknown`,
a revision no log reaches, so that the next frame starts anew. Without this the
new log could grow past the revision of the old one and be taken for its
continuation: the mutant `LoadSessionKept`. `Displayed`: the lines are those of the
blocks, one block after the other (`LaidOut`), at the width that is kept.
`BeforeFirstFrame`: until a frame there is no block and no width. `Fresh`: what is
drawn is up to date or marked. Two facts about the loops carry the proof.
`EntryIsMerged`: an entry appended to the blocks of the first n entries gives those of the
first n + 1, whichever of its cases it takes (an observation goes to the
running command, a closer ends it), because the one block that
runs is that of the one command whose observation is still due (`OneCommandRuns`). `RebuildIsLaidOut`: what is
kept before the first changed block and what is rendered from it on are
together the lines of all blocks. `ReaderStays` needs besides that an append
changes of the earlier blocks only the running command, and folds only one
whose observation was not shown yet, so that headings and text above the cursor
keep their lines (`OutlinesStay`).

The library's induction theorems cannot be used (they take an operator as a
parameter). What the loops compute is shown with induction over a *set* of
numbers instead: `UpTo` says that a set which has 0 and with i - 1 also i has all
of `0..n`, and follows from `LeastMember`, a finite set of integers has a least one.
`AppendingIs` and `RenderingIs` show in this way that the recursive functions of
`AppendEntries` and `Render` exist and satisfy their equations, `EntriesAreMerged` and
`RenderIsLaidOut` what they compute.

*Composition.* `StepsAreOfParts`: a step of the instance is a step of one part and
leaves the variables of the others unchanged. The type invariants of the whole
are then those of the parts.

*Model-checked only.* Liveness, which is out of the prover's reach: `RunEnds`,
`DecisionIsTaken`, `PressingStopEndsTask`, `CancelEndsPrompt`,
`ResponseReachesWorker`, `LockIsReleased`, `StopEndsCall`, `ReadsToTheEnd`,
`LastStateIsDrawn`, `QuitEnds`, `OnlyMissedWakeupsStall`. Every other property of a passing run is proved. The properties
of the runs that expect a violation are refuted there and not proved.

## 6 Where code and documentation differ

Each of the first five is a run that finds a counterexample.

1. **A stop request can fail to wake the approval wait** (`MCTuiSessionStop`,
   `tui_session.cpp:112`). The token is set and `approval_cv_` notified without
   `mutex_`; both can fall between the predicate and the sleep.
   `docs/session-and-tui.md:135` says that a stop wakes a worker that waits for
   an approval. A second request or a decision ends the wait
   (`PressingStopEndsTask`). The ACP controller has the same pattern in
   `cancel`, where `wait_for` ends it after the permission timeout.
2. **Busy after the response** (`MCAcpPromptBusy`,
   `acp_prompt_controller.cpp:235`). The response to `session/prompt` is written
   before the prompt counts as finished: a client that waits for it and sends
   the next prompt can be refused as busy. `docs/troubleshooting.md:276` advises
   to wait for the current prompt to end.
3. **Nested transactions** (`MCSessionStoreNested`,
   `sqlite_session_store.cpp:195`). The two threads of `agent-acp` share one
   connection, and the second `BEGIN IMMEDIATE` fails at once instead of
   waiting by the busy timeout that `docs/session-persistence.md:60` names. No
   data is harmed: `MCSessionStore` has the same threads.

4. **A stop request can miss the shell** (`MCShellStop`, `shell.cpp:273`). Token and
   force-kill time are looked at in the read loop only. A command that closes or
   redirects its output and goes on ends that loop, and `waitpid` waits for it
   without a look at either: it gets no SIGTERM, or no SIGKILL after one it
   ignored. `docs/acp-integration.md:172-173` promises both. That a process
   which left the group delays the end is documented
   (`docs/troubleshooting.md:229`) and no divergence.

5. **The exit of the TUI can hang** (`TuiAnimatorExit`, `tui.cpp:748`).
   `animation_active` is stored and `animation_cv` notified without
   `animation_mutex`, so both can fall between the animator's predicate and its
   sleep; nothing wakes it afterwards but a spurious wakeup, and the join
   waits. `docs/modules.md:513-514` and `docs/tui-integration-changes.md:112`
   describe an orderly end. The same gap can stall a scroll until the next key
   that scrolls.

More were seen while modelling and have no run:

6. The key that approves may approve a request that no frame has shown
   (`tui.cpp:479`): the handler asks whether an approval is awaited and then
   approves, in two critical sections, and neither depends on what was drawn. A
   `y` handled between the worker's request and the frame, or the second `y` of a
   double press, does. `docs/architecture.md:161-162` shows the command first and
   then the answer, but nowhere promises that an earlier key is ignored.
   `DecisionForThisRequest` says what holds: a decision is used for the request
   that was pending when it was taken.
7. A malformed permission response ends the prompt
   (`acp_prompt_controller.cpp:348-349`). The outcome is looked up in
   `response.value("result", ...)` before that is known to be an object; with a
   result that is `null`, a string or an array the JSON library throws, the tool
   call fails and the prompt is answered with an internal error.
   `docs/acp-integration.md:160-161` says that an error response or a wrong format
   is treated as a rejection, after which the model would go on. `Resolve` has
   this behaviour, and the properties of `MCAcpPrompt` hold with it.
8. `update_model` (`sqlite_session_store.cpp:587`) is a single statement and
   joins the transaction the other thread may have open; it is undone with it
   if that is rolled back, after `session/load` reported success.
   `docs/modules.md:292-293` calls it transactional. The model's name is display
   data, so it is not in the model.
9. `authorize_command` in `acp_prompt_controller.cpp` records the tool call
   before it announces it. `tool_title` (lines 17-25) cuts a long command at
   byte 157; if that splits a character the JSON library throws, and the
   client is told that a tool call failed which it was never told of.
   `docs/acp-integration.md:131-136` gives the order. The model has this
   behaviour (`Authorize` may go to `"catch"`), and
   `ToolCallsSettleFirst` is stated so as to allow it.
10. `TuiSession::snapshot` gives the whole log for a revision that is greater than
    the log's (`tui_session.cpp:201`), while `docs/session-and-tui.md:132-133`
    says for any unknown one. After a switch of sessions the event loop passes
    the greatest number there is, which makes the two agree; the mutant of
    `LogIsWhole` leaves that out.
11. A `session/load` whose replay fails is answered with an internal error and
    leaves the session active and counted (`acp_server.cpp:430`);
    `GivenSessionsAreActive` is stated so as to allow it.
12. `updated_at_ms` comes from the system clock. One that is set back between
    two pages can put a session into a list twice; `PagesMakeAList` holds for a
    clock that is not.
13. Small ones: a completion inserts a blank before one that is there already
    (`/nn `); a resize in the scrollback leaves the selected block where it was
    while the lines move; entering a command does not end the navigation of the
    history, which is harmless because commands are not recorded.

## 7 What is not modelled

* Rendering and layout (`tui_view.cpp` except the lines of the log,
  `run_status.cpp`): no state that another part reads.
* The validation of JSON-RPC envelopes and parameters and the prompt's
  flattening (`acp_server.cpp:27-161`, `209-254`): a refusal changes nothing,
  and what passes is what the modules take as their input.
* `reset_session`, `archive_session` and `AgentSession::clear`: no caller in the
  programs. Their effect on a session in use would be a question if there were
  one.
* Decoding and migration of the database (`sqlite_session_store.cpp:127-308`
  apart from the connection): run once at start-up, and damaged rows are
  refused as a whole.
* Configuration, command lines, paths, `.env`: read once, sequential. Their
  values are the constants of the modules.
* A run without an authorizer, which approves every command
  (`agent_loop.hpp:107-111`): all three front ends set one.
* The HTTP client and the provider's format: I/O. The loop sees a reply, a
  cancellation or an exception, and that is in the model.
* SQLite, the condition variables and the kernel are external and modelled
  from how the code uses them.

## 8 Plan

Done, in the order of how much of the system depends on the part:
`CommandAuthorization`, `Conversation`, `ConversationLog`, `AgentLoop`,
`TuiSession`, `AcpPrompt`, `SessionStore`, `Shell`; then the terminal UI,
`TuiLoop`, `TuiAnimator`, `LogViewport`, `LogPane`, `PromptLine`; and `AcpServer`
with the listing. Every safety property and action property of a passing run
is proved, for every value of the constants.

Left:

1. The parts the modules leave out (section 7), of which the decoding of damaged
   rows would say most.
2. The liveness properties stay with TLC; what can be proved of them are the
   bounds their arguments rest on, as `AnimationAdvances` is for the animation.
