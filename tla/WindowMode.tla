----------------------------- MODULE WindowMode -----------------------------
(***************************************************************************)
(* The mode, position and size of the game's window (window.c).  The       *)
(* render thread (the settings window, a revert) sets variables; each      *)
(* variable's callback posts a message to the window's thread, which then  *)
(* reads the variables as they are by that time.  Alt+Enter changes them   *)
(* on the window's thread itself.  Every move and resize is written back   *)
(* to the variables.                                                       *)
(*                                                                         *)
(* A rectangle has an x, a width and a height; y is treated as x is.  A    *)
(* window with borders has its client area inside them.  Windows tells of  *)
(* the client area, the move before the resize; the variables are about    *)
(* the window's own position, so a move takes the left border's width off, *)
(* which it measures at the first move after a resize only.                *)
(***************************************************************************)
EXTENDS Integers, SequencesExt

CONSTANTS
  ScreenSize,   \* the screen's width and height
  Margin,       \* closer than this to the screen's edge is at it
  MinSize,      \* of the window, in both directions
  Border,       \* what the borders take: left of the client area, of its width and height
  Rects,        \* rectangles the user gives the window with the mouse
  Commands,     \* what the render thread is asked for: sequences of [var, val]
  MaxMsgs,      \* bound on the messages posted and not handled
  MaxDrift      \* bound on the positions with which another one is asked for

Var == {"full", "borderless", "x", "w", "h"}

ASSUME WindowAssumption ==
  /\ ScreenSize \in Nat /\ Margin \in Nat /\ MinSize \in 1 .. ScreenSize /\ MaxMsgs \in Nat /\ MaxDrift \in Nat
  /\ Border \in [x : Nat, w : Nat, h : Nat]
  /\ Rects \subseteq [x : Int, w : Int, h : Int]
  /\ Commands \subseteq Seq([var : Var, val : Int])

VARIABLES
  cfg,          \* g_cfg: full, borderless, x, w, h
  todo,         \* what the render thread has still to set for a command
  written,      \* the first of those is written, and its callback has not run yet
  msgs,         \* messages posted to the window's thread
  win,          \* the window's rectangle
  bare,         \* its style: without borders
  edge,         \* bw of hooked_on_windows_move: the left border as last measured
  measured,     \* g_border_size_set
  saved,        \* g_window_size; w = 0: nothing saved
  shown,        \* history: the mode applied last
  placed,       \* history: the window is full screen and was moved or resized since
  before,       \* history: the rectangle it had when it went full screen
  twice         \* history: it went full screen while it was, or was when created

winVars == <<win, bare, edge, measured, saved, shown, placed, before, twice>>
vars == <<cfg, todo, written, msgs, winVars>>

Screen == [x |-> 0, w |-> ScreenSize, h |-> ScreenSize]
AtLeast(a, b) == IF a >= b THEN a ELSE b

\* The window keeps its least size, also when it is created.
Fit(r) == [r EXCEPT !.w = AtLeast(@, MinSize), !.h = AtLeast(@, MinSize)]

\* The left border of a style, and the client area of a window in it.
EdgeOf(b) == IF b THEN 0 ELSE Border.x

Client(r, b) ==
  IF b THEN r ELSE [x |-> r.x + Border.x, w |-> r.w - Border.w, h |-> r.h - Border.h]

\* window_hooked_init, with the variables as read from the configuration; the window
\* tells its rectangle as it is shown.
Init ==
  /\ \E r \in Rects, f \in BOOLEAN, b \in BOOLEAN :
       /\ win = IF f THEN Screen ELSE Fit(r)
       /\ cfg = [full |-> f, borderless |-> b, x |-> win.x,
                 w |-> Client(win, b).w, h |-> Client(win, b).h]
       /\ bare = b /\ edge = EdgeOf(b) /\ measured = TRUE
       /\ shown = f /\ twice = f
  /\ todo = <<>> /\ written = FALSE /\ msgs = <<>>
  /\ saved = [x |-> 0, w |-> 0, h |-> 0] /\ placed = FALSE /\ before = Screen
-----------------------------------------------------------------------------
(* csh_set on the render thread: the write, then the callback's message *)

\* Seeded faults: each replaces the definition of the same stem when the properties are
\* tested for being able to fail.
WriteIsNext_last == written

WriteIsNext == ~written

SetHalf ==
  /\ todo # <<>> /\ written' = ~written
  /\ todo' = IF written THEN Tail(todo) ELSE todo

\* Values come as numbers.
Stored(var, val) == IF var \in {"full", "borderless"} THEN val # 0 ELSE val

Ask ==
  /\ todo = <<>> /\ todo' \in Commands
  /\ \A i \in DOMAIN todo' :
       todo'[i].var = "x" => {cfg.x, saved.x} \subseteq -MaxDrift .. MaxDrift
  /\ UNCHANGED <<cfg, written, msgs, winVars>>

Write ==
  /\ WriteIsNext /\ SetHalf
  /\ cfg' = [cfg EXCEPT ![Head(todo).var] = Stored(Head(todo).var, Head(todo).val)]
  /\ UNCHANGED <<msgs, winVars>>

Post ==
  /\ ~WriteIsNext /\ SetHalf /\ Len(msgs) < MaxMsgs
  /\ msgs' = Append(msgs, Head(todo).var)
  /\ UNCHANGED <<cfg, winVars>>
-----------------------------------------------------------------------------
(* The window's thread *)

\* What a move and a resize of the client area write back to the variables c: the position
\* less the border's width, both dimensions.
Moved_position(c, old, new, bw) == [c EXCEPT !.x = new.x - bw]

Moved(c, old, new, bw) ==
  LET moved == IF new.x # old.x THEN [c EXCEPT !.x = new.x - bw] ELSE c
  IN  IF new.w # old.w \/ new.h # old.h THEN [moved EXCEPT !.w = new.w, !.h = new.h]
                                        ELSE moved

\* SetWindowPos, with the messages it sends before it returns: hooked_on_windows_move,
\* which measures the border when that is due, and then hooked_on_window_resize, which
\* makes it due again.
SetWindowPos(c, r) ==
  LET old == Client(win, bare)
      new == Client(Fit(r), bare')
  IN  /\ win' = Fit(r)
      /\ edge' = IF new.x # old.x /\ ~measured THEN EdgeOf(bare') ELSE edge
      /\ measured' = /\ measured \/ new.x # old.x
                     /\ new.w = old.w /\ new.h = old.h
      /\ cfg' = Moved(c, old, new, edge')

\* set_fullscreen_cb
Saves_once(full) == saved.w = 0

Saves(full) == saved.w = 0 \/ full

SetFullscreen(c) ==
  /\ saved' = IF Saves(c.full) THEN win ELSE saved
  /\ SetWindowPos(c, IF c.full THEN Screen ELSE saved')
  /\ shown' = c.full /\ placed' = FALSE
  /\ before' = IF c.full /\ ~shown THEN win ELSE Screen
  /\ twice' = (c.full /\ (shown \/ twice))

\* set_borderless_cb: the window snaps to the screen's edges.
Near(a) == a < Margin /\ -a < Margin
Snap(r) ==
  LET x == IF Near(r.x) THEN 0 ELSE r.x
  IN  [x |-> x,
       w |-> IF Near(ScreenSize - (r.w + x)) THEN ScreenSize - x ELSE r.w,
       h |-> IF Near(ScreenSize - r.h) THEN ScreenSize ELSE r.h]

SetBorderless ==
  /\ bare' = cfg.borderless
  /\ SetWindowPos(cfg, Snap(win))
  /\ UNCHANGED <<saved, shown, placed, before, twice>>

\* window_size_pos_changed_cb takes the one dimension from its variable, and adds the
\* borders to a size.
Framed(dim) == cfg[dim] + (IF bare \/ dim = "x" THEN 0 ELSE Border[dim])

SizePosChanged(dim) ==
  /\ UNCHANGED <<bare, saved, shown, before, twice>>
  /\ SetWindowPos(cfg, [win EXCEPT ![dim] = Framed(dim)])
  /\ placed' = shown

\* alt_enter_cb sets both variables and the style, and switches the mode.
AltEnter ==
  /\ bare' = ~cfg.full
  /\ SetFullscreen([cfg EXCEPT !.full = ~cfg.full, !.borderless = ~cfg.full])

Handle ==
  /\ msgs # <<>> /\ msgs' = Tail(msgs)
  /\ \/ Head(msgs) = "full" /\ UNCHANGED bare /\ SetFullscreen(cfg)
     \/ Head(msgs) = "borderless" /\ SetBorderless
     \/ Head(msgs) \in {"x", "w", "h"} /\ SizePosChanged(Head(msgs))
     \/ Head(msgs) = "alt_enter" /\ AltEnter
  /\ UNCHANGED <<todo, written>>

\* The user: keys, and the mouse on the window's borders.
PressAltEnter ==
  /\ Len(msgs) < MaxMsgs /\ msgs' = Append(msgs, "alt_enter")
  /\ UNCHANGED <<cfg, todo, written, winVars>>

Drag ==
  /\ ~bare
  /\ UNCHANGED <<todo, written, msgs, bare, saved, shown, before, twice>>
  /\ \E r \in Rects : SetWindowPos(cfg, r)
  /\ placed' = shown

Next == Ask \/ Write \/ Post \/ Handle \/ PressAltEnter \/ Drag

Spec == Init /\ [][Next]_vars
-----------------------------------------------------------------------------
(* Properties *)

\* Nothing is set that is not announced, and nothing announced that is not handled.
Settled == todo = <<>> /\ msgs = <<>>

\* However the settings, reverts and Alt+Enter on two threads cross, the window ends up
\* in the mode that the variables say: its style, and its place on the whole screen
\* unless it was moved since.
ModeSettles ==
  Settled => /\ bare = cfg.borderless
             /\ shown = cfg.full
             /\ shown /\ ~placed => win = Screen

\* The position is the window's, or the one that the other style's border gives.
PositionTold == cfg.x \in {Client(win, bare).x - EdgeOf(b) : b \in BOOLEAN}

\* A size is the client area's; one smaller than the window can be stays in its variable.
SizeTold(dim) ==
  LET area == Client(win, bare)
  IN  cfg[dim] = area[dim] \/ (cfg[dim] < area[dim] /\ area[dim] <= MinSize)

\* Once settled, the variables that a save would write are the window's rectangle, whatever
\* moves, resizes, requests and changes of the style crossed, but for one thing: the border
\* in the position may be the other style's, measured before the style changed.
RectMirrored == Settled => PositionTold /\ SizeTold("w") /\ SizeTold("h")

\* The window returns from full screen to the very rectangle it had before, unless the
\* program asked for full screen while it was, or the game started so.
ReturnsToPlace == [][shown /\ ~shown' /\ ~twice => win' = before]_vars
=============================================================================
