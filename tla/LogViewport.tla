----------------------------- MODULE LogViewport -----------------------------
(***************************************************************************)
(* The cursor of the log pane (log_viewport.cpp), as functions from one    *)
(* viewport to the next. Lines are numbered from 0, as in the code.        *)
(***************************************************************************)
EXTENDS Integers

NewViewport == [count |-> 0, current |-> 0, target |-> 0, following |-> TRUE]

Smaller(a, b) == IF a < b THEN a ELSE b

Clamp(x, low, high) == IF x < low THEN low ELSE IF x > high THEN high ELSE x

At(v, line) == [v EXCEPT !.current = line, !.target = line]

Pending(v) == v.current # v.target

\* Mutant: only the cursor is kept inside.
SyncCursor(v, n) ==
    IF n = 0 THEN NewViewport
    ELSE LET w == [v EXCEPT !.count = n]
         IN  IF v.following
             THEN At(w, n - 1)
             ELSE [w EXCEPT !.current = Smaller(v.current, n - 1)]

\* sync: the number of lines has changed.
Sync(v, n) ==
    IF n = 0 THEN NewViewport
    ELSE LET w == [v EXCEPT !.count = n]
         IN  IF v.following
             THEN At(w, n - 1)
             ELSE [w EXCEPT !.current = Smaller(v.current, n - 1),
                            !.target  = Smaller(v.target, n - 1)]

FollowTail(v) ==
    LET w == [v EXCEPT !.following = TRUE]
    IN  IF v.count > 0 THEN At(w, v.count - 1) ELSE w

ScrollUp(v, n) ==
    IF v.count = 0 THEN v
    ELSE [v EXCEPT !.following = FALSE,
                   !.target = IF v.target > n THEN v.target - n ELSE 0]

ScrollDown(v, n) ==
    IF v.count = 0 THEN v
    ELSE LET t == v.target + Smaller(n, v.count - 1 - v.target)
         IN  [v EXCEPT !.target = t,
                       !.following = v.current = t /\ t = v.count - 1]

\* A frame of the animation: a quarter of the way, at least one line and at
\* most 16.
Step(distance) == Clamp(distance \div 4, 1, 16)

Tick(v) ==
    LET c == IF v.current < v.target
             THEN v.current + Step(v.target - v.current)
             ELSE IF v.current > v.target
             THEN v.current - Step(v.current - v.target)
             ELSE v.current
    IN  [v EXCEPT !.current = c,
                  !.following = \/ v.following
                                \/ c = v.target /\ c = v.count - 1]

Home(v) == [At(v, 0) EXCEPT !.following = FALSE]

JumpTo(v, line) ==
    IF v.count = 0 THEN v
    ELSE [At(v, Smaller(line, v.count - 1)) EXCEPT !.following = FALSE]

\* render_window: the lines from begin to end - 1, with the cursor at the
\* lower edge or, near the start, further up.
RenderWindow(v, max) ==
    IF v.count = 0 \/ max = 0 THEN [begin |-> 0, end |-> 0]
    ELSE IF v.count <= max THEN [begin |-> 0, end |-> v.count]
    ELSE LET b == IF v.current + 1 > max THEN v.current + 1 - max ELSE 0
         IN  [begin |-> b, end |-> Smaller(b + max, v.count)]

-----------------------------------------------------------------------------
(***************************************************************************)
(* What the subtractions above rely on: the cursor and its target are      *)
(* lines of the log, and a viewport that follows is at the last one.       *)
(***************************************************************************)
ViewportOK(v) ==
    /\ v \in [count : Nat, current : Nat, target : Nat, following : BOOLEAN]
    /\ v.count = 0 => v.current = 0 /\ v.target = 0
    /\ v.count > 0 => v.current < v.count /\ v.target < v.count
    /\ v.count > 0 /\ v.following => v.current = v.count - 1 /\ v.target = v.current
=============================================================================
