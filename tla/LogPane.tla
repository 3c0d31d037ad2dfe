------------------------------- MODULE LogPane -------------------------------
(***************************************************************************)
(* The log pane of the TUI: the log TuiState keeps and TuiSession::snapshot*)
(* hands out by revision (tui_state.cpp, tui_session.cpp), its incremental *)
(* merge into blocks (log_block.cpp), the display lines kept for them and  *)
(* the keys that move about in them (tui.cpp, tui_view.cpp), with the      *)
(* viewport of LogViewport.                                                *)
(*                                                                         *)
(* A frame takes its snapshot under the mutex and all the rest belongs to  *)
(* the UI thread, so that a frame and a key are one step each. An entry of *)
(* the log is known by its session and its place; of its text only the     *)
(* kind and the number of rows it fills are kept. Blocks are numbered from *)
(* 1, lines from 0.                                                        *)
(***************************************************************************)
EXTENDS LogViewport, SequencesExt

CONSTANTS
    TaskKinds,      \* the kinds of entries a task logs
    LongKinds,      \* those whose text fills two rows of a narrow terminal
    Restored,       \* the logs load_session starts a view with
    Widths, Limits, \* terminal widths, and lines left for the log
    PageSizes,      \* lines a key scrolls
    MaxAhead,       \* bound: lines a scroll is ahead of the viewport
    MaxLogs,        \* bound: entries of the log of each view, one after the other
    Unknown         \* a revision no log has: the greatest std::size_t

Kinds == {"Task", "Assistant", "Command", "Observation", "Final", "System",
          "Error"}

ASSUME PaneAssumption ==
    /\ TaskKinds \cup LongKinds \subseteq Kinds /\ MaxAhead \in Nat
    /\ MaxLogs \in Seq(Nat) /\ MaxLogs # <<>> /\ Unknown \in Nat
    /\ \A i \in DOMAIN MaxLogs : MaxLogs[i] < Unknown
    /\ Restored \subseteq Seq(Kinds) /\ <<>> \notin Restored
    /\ \A r \in Restored, i \in DOMAIN MaxLogs : Len(r) <= MaxLogs[i]
    /\ Widths \cup Limits \cup PageSizes \subseteq Nat \ {0}

VARIABLES
    gen,        \* the number of the view: which session is on display
    logs,       \* TuiState::logs_, by kind; its length is log_revision_
    inTask,     \* TuiState::running()
    known,      \* cached_log_revision
    blocks,     \* TuiLogBlocks::blocks_
    open,       \* running_command_, 0 if none
    lines,      \* cached_log_lines
    starts,     \* cached_block_starts
    width,      \* cached_terminal_width
    limit,      \* the height, less the panels around the log
    vp,         \* log_viewport
    selected,   \* selected_block
    pane,       \* active_pane
    stale,      \* log_panel_dirty
    drawn       \* history: not stale, and a redraw would change nothing

session == <<gen, logs, inTask>>
content == <<blocks, open, lines, starts>>
display  == <<width, limit, vp, selected, pane, stale, drawn>>

paneVars == <<session, known, content, display>>

PaneInit ==
    /\ gen = 1 /\ logs \in Restored /\ inTask = FALSE
    /\ known = 0
    /\ blocks = <<>> /\ open = 0 /\ lines = <<>> /\ starts = <<>>
    /\ width = 0 /\ limit = 0
    /\ vp = NewViewport /\ selected = 1 /\ pane = "Prompt"
    /\ stale = TRUE /\ drawn = FALSE

-----------------------------------------------------------------------------
(***************************************************************************)
(* The log blocks.                                                         *)
(***************************************************************************)
Closers == {"Task", "Command", "Final", "Error"}

Entry(i) == [session |-> gen, place |-> i, kind |-> logs[i]]

NoEntry == [session |-> 0, place |-> 0, kind |-> "none"]

NewBlock(e) == [entry |-> e, observed |-> NoEntry, expanded |-> TRUE,
                running |-> e.kind = "Command"]

Foldable(b) == b.entry.kind = "Command"

Finish(b) == [b EXCEPT !.running = FALSE, !.expanded = FALSE]

\* append_entry, on p: the blocks, the running command, the first change.
AppendEntry(p, e) ==
    LET o == p.open
        merged == /\ o # 0 /\ e.kind = "Observation"
        closed == /\ o # 0 /\ e.kind \in Closers
        finished == IF merged \/ closed
                    THEN [p.blocks EXCEPT ![o] = Finish(@)] ELSE p.blocks
        size  == Len(p.blocks) + 1
    IN  IF merged
        THEN [blocks |-> [finished EXCEPT ![o].observed = e],
              open   |-> 0,
              first  |-> Smaller(p.first, o)]
        ELSE [blocks |-> Append(finished, NewBlock(e)),
              open   |-> IF e.kind = "Command" THEN size
                         ELSE IF closed THEN 0 ELSE o,
              first  |-> Smaller(p.first, IF closed THEN o ELSE size)]

\* append; the code's first change is first, its nullopt a first that no
\* block has. p[n] is what the first n entries make of the blocks.
AppendEntries(bs, o, es) ==
    LET p[n \in 0..Len(es)] ==
            IF n = 0 THEN [blocks |-> bs, open |-> o, first |-> Len(bs) + 1]
                     ELSE AppendEntry(p[n - 1], es[n])
    IN  p[Len(es)]

\* make_log_lines for one block: the heading and the text; the gap that ends
\* every block is left out.
BlockLines(i, b, w) ==
    LET rows(e) == [r \in 1..(IF e.kind \in LongKinds /\ w = 1 THEN 2 ELSE 1)
                        |-> <<i, "Content", e, r>>]
        detail  == b.observed # NoEntry /\ b.expanded
    IN  <<<<i, "Heading", b.entry, b.expanded, b.running>>>>
        \o rows(b.entry)
        \o (IF detail THEN rows(b.observed) ELSE <<>>)

\* A block's turn: r are the lines so far and where their blocks start.
AddBlock(r, own) == [lines  |-> r.lines \o own,
                     starts |-> Append(r.starts, Len(r.lines))]

\* The lines of the blocks of bs from first on, and where each starts; r[n]
\* are those of the first n of them.
Render(bs, first, w) ==
    LET size == Len(bs) - first + 1
        r[n \in 0..size] ==
            IF n = 0 THEN [lines |-> <<>>, starts |-> <<>>]
            ELSE AddBlock(r[n - 1],
                          BlockLines(first + n - 1, bs[first + n - 1], w))
    IN  r[size]

\* rebuild_log_lines_from: what comes before first is kept, c is the content
\* so far.
Rebuild(c, first, w) ==
    LET firstLine == IF first <= Len(c.starts) THEN c.starts[first] ELSE Len(c.lines)
        rendered  == Render(c.blocks, first, w)
    IN  [c EXCEPT
           !.lines  = SubSeq(c.lines, 1, firstLine) \o rendered.lines,
           !.starts = SubSeq(c.starts, 1, first - 1)
                      \o [j \in DOMAIN rendered.starts
                              |-> firstLine + rendered.starts[j]]]

Content == [blocks |-> blocks, open |-> open, lines |-> lines, starts |-> starts]

NoContent == [blocks |-> <<>>, open |-> 0, lines |-> <<>>, starts |-> <<>>]

-----------------------------------------------------------------------------
(***************************************************************************)
(* The frame. What cached_log_panel shows is made of this.                 *)
(***************************************************************************)
Panel == <<lines, RenderWindow(vp, limit), selected, pane, width>>

\* The panel is rendered again if stale, else only kept.
Keep(changed) ==
    /\ stale' = (stale \/ changed)
    /\ drawn' = (drawn /\ Panel' = Panel /\ ~stale')

\* snapshot: full_resync.
FullResync(n) == known > n

Frame(w, l) ==
    LET n       == Len(logs)
        resized == IF w # width /\ blocks # <<>> THEN Rebuild(Content, 1, w)
                                                 ELSE Content
        resync  == FullResync(n)
        base    == IF resync THEN NoContent ELSE resized
        news    == [i \in 1..(IF resync THEN n ELSE n - known)
                        |-> Entry(i + IF resync THEN 0 ELSE known)]
        p       == AppendEntries(base.blocks, base.open, news)
        changed == known # n /\ p.first <= Len(p.blocks)
        filled  == [base EXCEPT !.blocks = p.blocks, !.open = p.open]
        c       == IF changed THEN Rebuild(filled, p.first, w) ELSE base
        sel     == IF c.blocks = <<>> THEN selected
                   ELSE Smaller(IF resync THEN 1 ELSE selected, Len(c.blocks))
        synced  == Sync(vp, Len(c.lines))
        v       == IF changed /\ pane = "Scrollback" /\ sel <= Len(c.starts)
                   THEN JumpTo(synced, c.starts[sel]) ELSE synced
        redraw  == \/ stale \/ w # width \/ l # limit \/ resync \/ changed
                   \/ v.current # vp.current
    IN  /\ known' = n
        /\ blocks' = c.blocks /\ open' = c.open
        /\ lines' = c.lines /\ starts' = c.starts
        /\ width' = w /\ limit' = l
        /\ vp' = v /\ selected' = sel
        /\ stale' = FALSE
        /\ UNCHANGED <<session, pane>>
        /\ drawn' = (redraw \/ (drawn /\ Panel' = Panel))

-----------------------------------------------------------------------------
(***************************************************************************)
(* The session: TuiState's log.                                            *)
(***************************************************************************)
\* Events of the task, and its end, with or without an error.
TaskLogs(k) ==
    /\ inTask /\ Len(logs) < MaxLogs[gen]
    /\ logs' = Append(logs, k)
    /\ inTask' \in {TRUE, k # "Error"}
    /\ UNCHANGED <<gen, known, content, display>>

LogTaskEnds ==
    /\ inTask
    /\ inTask' = FALSE
    /\ UNCHANGED <<gen, logs, known, content, display>>

\* Mutant: the reader is left where he was.
SubmitUnfollowed ==
    /\ ~inTask /\ pane = "Prompt" /\ Len(logs) < MaxLogs[gen]
    /\ \/ inTask' = TRUE /\ logs' = Append(logs, "Task")
       \/ inTask' = FALSE /\ logs' = Append(logs, "System")
    /\ UNCHANGED <<gen, known, content, width, limit, vp, selected, pane>>
    /\ Keep(FALSE)

\* Enter on a prompt or a slash command that leaves a notice.
Submit ==
    /\ ~inTask /\ pane = "Prompt" /\ Len(logs) < MaxLogs[gen]
    /\ \/ inTask' = TRUE /\ logs' = Append(logs, "Task")
       \/ inTask' = FALSE /\ logs' = Append(logs, "System")
    /\ vp' = FollowTail(vp)
    /\ UNCHANGED <<gen, known, content, width, limit, selected, pane>>
    /\ Keep(FALSE)

\* Mutant: the revision of the session left behind stays cached.
LoadSessionKept ==
    /\ ~inTask /\ pane = "Prompt"
    /\ gen < Len(MaxLogs)
    /\ logs' \in Restored /\ gen' = gen + 1
    /\ vp' = FollowTail(vp)
    /\ UNCHANGED <<inTask, known, content, width, limit, selected, pane>>
    /\ Keep(FALSE)

\* /new and /resume.
LoadSession ==
    /\ ~inTask /\ pane = "Prompt"
    /\ gen < Len(MaxLogs)
    /\ logs' \in Restored /\ gen' = gen + 1
    /\ known' = Unknown
    /\ vp' = FollowTail(vp)
    /\ UNCHANGED <<inTask, content, width, limit, selected, pane>>
    /\ Keep(FALSE)

-----------------------------------------------------------------------------
(***************************************************************************)
(* The keys.                                                               *)
(***************************************************************************)
\* sync_selected_block_to_viewport: the last block that starts at or above
\* the cursor.
BlockAt(line) == CHOOSE i \in DOMAIN starts :
                    /\ starts[i] <= line \/ i = 1
                    /\ i = Len(starts) \/ starts[i + 1] > line

Synced(v) == IF starts = <<>> THEN selected ELSE BlockAt(v.current)

Moved(v) ==
    /\ vp' = v
    /\ selected' = IF v.current # vp.current /\ pane = "Scrollback"
                   THEN Synced(v) ELSE selected
    /\ UNCHANGED <<session, known, content, width, limit, pane>>
    /\ Keep(v.current # vp.current)

\* PageUp and PageDown, the wheel, the arrows: a step at once.
Scroll(n) ==
    \E v \in {Tick(ScrollUp(vp, n)), Tick(ScrollDown(vp, n))} :
        v.current - v.target \in -MaxAhead..MaxAhead /\ Moved(v)

\* The animation event.
AnimationTick == Moved(Tick(vp))

HomeOrEnd ==
    \E end \in BOOLEAN :
        LET v == IF end THEN FollowTail(vp) ELSE Home(vp)
            choose == pane = "Scrollback" /\ blocks # <<>>
        IN  /\ vp' = v
            /\ selected' = IF choose THEN (IF end THEN Len(blocks) ELSE 1)
                                     ELSE selected
            /\ UNCHANGED <<session, known, content, width, limit, pane>>
            /\ Keep(choose \/ v.current # vp.current)

Tab ==
    /\ ~inTask
    /\ pane' = IF pane = "Prompt" /\ blocks # <<>> THEN "Scrollback" ELSE "Prompt"
    /\ selected' = IF pane' = "Scrollback" THEN Synced(vp) ELSE selected
    /\ UNCHANGED <<session, known, content, width, limit, vp>>
    /\ Keep(TRUE)

EscapePane ==
    /\ ~inTask /\ pane = "Scrollback"
    /\ pane' = "Prompt"
    /\ UNCHANGED <<session, known, content, width, limit, vp, selected>>
    /\ Keep(TRUE)

\* focus_selected_block, on lines that start where sts says.
Focus(v, sts, sel) == IF sel <= Len(sts) THEN JumpTo(v, sts[sel]) ELSE v

\* Ctrl+Up and Ctrl+Down.
SelectBlock(sel) ==
    /\ ~inTask /\ pane = "Scrollback"
    /\ sel \in {selected - 1, selected + 1} \cap DOMAIN blocks
    /\ selected' = sel
    /\ vp' = Focus(vp, starts, sel)
    /\ UNCHANGED <<session, known, content, width, limit, pane>>
    /\ Keep(TRUE)

\* Enter: fold or unfold.
Toggle ==
    /\ ~inTask /\ pane = "Scrollback"
    /\ selected \in DOMAIN blocks /\ Foldable(blocks[selected])
    /\ LET bs == [blocks EXCEPT ![selected].expanded = ~@]
           c  == Rebuild([Content EXCEPT !.blocks = bs], selected, width)
       IN  /\ blocks' = bs /\ lines' = c.lines /\ starts' = c.starts
           /\ vp' = Focus(Sync(vp, Len(c.lines)), c.starts, selected)
    /\ UNCHANGED <<session, known, open, width, limit, selected, pane>>
    /\ Keep(TRUE)

PaneNext ==
    \/ \E w \in Widths, l \in Limits : Frame(w, l)
    \/ \E k \in TaskKinds : TaskLogs(k)
    \/ LogTaskEnds \/ Submit \/ LoadSession
    \/ \E n \in PageSizes : Scroll(n)
    \/ AnimationTick \/ HomeOrEnd \/ Tab \/ EscapePane \/ Toggle
    \/ \E sel \in DOMAIN blocks : SelectBlock(sel)

PaneSpec == PaneInit /\ [][PaneNext]_paneVars

-----------------------------------------------------------------------------
\* The types, the viewport's bounds, and that no task runs while the keys are
\* those of the scrollback.
PaneTypeOK ==
    /\ gen \in DOMAIN MaxLogs /\ logs \in Seq(Kinds) /\ Len(logs) <= MaxLogs[gen]
    /\ {inTask, stale, drawn} \subseteq BOOLEAN
    /\ known \in 0..Unknown
    /\ open \in 0..Len(blocks) /\ Len(starts) = Len(blocks)
    /\ width \in Widths \cup {0} /\ limit \in Limits \cup {0}
    /\ ViewportOK(vp) /\ vp.count = Len(lines)
    /\ blocks # <<>> => selected \in DOMAIN blocks
    /\ pane \in {"Prompt", "Scrollback"}
    /\ pane = "Scrollback" => ~inTask

\* The entry, if any, among the first n that ends the command at place i as
\* its observation, and whether none ended it at all.
ObservationOf(i, n) ==
    {j \in i+1..n :
        /\ logs[i] = "Command" /\ logs[j] = "Observation"
        /\ \A k \in i+1..j-1 : logs[k] \notin Closers \cup {"Observation"}}

StillRuns(i, n) ==
    /\ logs[i] = "Command"
    /\ \A k \in i+1..n : logs[k] \notin Closers \cup {"Observation"}

Observations(n) == UNION {ObservationOf(i, n) : i \in 1..n}

\* The blocks are those of the first n entries in their order, each command
\* with its own observation.
ShowsLog(bs, n) ==
    /\ \A j, k \in DOMAIN bs : j < k => bs[j].entry.place < bs[k].entry.place
    /\ {bs[j].entry : j \in DOMAIN bs} = {Entry(i) : i \in 1..n \ Observations(n)}
    /\ \A j \in DOMAIN bs :
          LET i == bs[j].entry.place IN
          /\ bs[j].running <=> StillRuns(i, n)
          /\ IF ObservationOf(i, n) = {}
             THEN bs[j].observed = NoEntry
             ELSE \E o \in ObservationOf(i, n) : bs[j].observed = Entry(o)

\* The lines are those of the blocks from first on, one after the other, and
\* each block starts where sts says.
IsRendering(ls, sts, bs, first, w) ==
    /\ Len(sts) = Len(bs) - first + 1
    /\ IF sts = <<>> THEN ls = <<>> ELSE sts[1] = 0
    /\ \A j \in DOMAIN sts :
          LET own == BlockLines(first + j - 1, bs[first + j - 1], w)
              end == IF j = Len(sts) THEN Len(ls) ELSE sts[j + 1]
          IN  /\ end = sts[j] + Len(own)
              /\ \A k \in DOMAIN own : ls[sts[j] + k] = own[k]

(***************************************************************************)
(* What is on the screen after a frame is the whole log of the session on  *)
(* display, each command with its own observation, folded as the user left *)
(* it - however the entries were spread over the frames, and whatever the  *)
(* earlier frames have shown: another session, another width. A panel that *)
(* is kept instead of rendered is the one a redraw would give.             *)
(***************************************************************************)
LogIsWhole ==
    known = Len(logs) =>
        /\ ShowsLog(blocks, Len(logs))
        /\ IsRendering(lines, starts, blocks, 1, width)
        /\ stale \/ drawn

(***************************************************************************)
(* New output does not move a reader who has left the tail: in the prompt  *)
(* pane every line down to the cursor stays where it is, in the scrollback *)
(* the selected block stays selected and on the screen. Only another width *)
(* or another session does. The user's own prompt takes him to the tail.   *)
(***************************************************************************)
ReaderIsNotMoved ==
    [][ /\ ( /\ known' = Len(logs) /\ known < known' /\ ~vp.following
             /\ width' = width /\ gen' = gen ) =>
             /\ selected' = selected
             /\ pane = "Prompt" =>
                  /\ vp'.current = vp.current /\ ~vp'.following
                  /\ \A i \in 1..vp.current + 1 :
                        <<lines'[i][1], lines'[i][2]>> = <<lines[i][1], lines[i][2]>>
             /\ pane = "Scrollback" => vp'.current = starts'[selected]
        /\ logs' # logs /\ ~inTask => vp'.following ]_paneVars
=============================================================================
