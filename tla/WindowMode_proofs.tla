------------------------- MODULE WindowMode_proofs -------------------------
(***************************************************************************)
(* Proofs about WindowMode, for any screen, margin and least size, any     *)
(* commands and any number of messages.                                    *)
(*                                                                         *)
(* The properties speak of the settled states only.  In between, whatever  *)
(* a variable says that the window is not has been announced: its variable *)
(* is written and the callback about to run, or a message about it is      *)
(* still queued (Announced).  The handler of the last such message reads   *)
(* the variable as it is by then.  That the window returns to its place    *)
(* needs the rectangle that is saved while it is full screen to be the one *)
(* it had before (SavedIsBefore).                                          *)
(***************************************************************************)
EXTENDS WindowMode, SequenceTheorems, TLAPS

Frame == [x : Int, w : Int, h : Int]
Setting == [var : Var, val : Int]
Config == [full : BOOLEAN, borderless : BOOLEAN, x : Int, w : Int, h : Int]

\* The window is never smaller than its least size.
Fits(r) == r.w >= MinSize /\ r.h >= MinSize

Types ==
  /\ cfg \in Config
  /\ todo \in Seq(Setting) /\ written \in BOOLEAN /\ msgs \in Seq(Var \cup {"alt_enter"})
  /\ win \in Frame /\ bare \in BOOLEAN /\ saved \in Frame
  /\ edge \in {0, Border.x} /\ measured \in BOOLEAN
  /\ shown \in BOOLEAN /\ placed \in BOOLEAN /\ twice \in BOOLEAN
  /\ Fits(win)

\* Of a variable that is written and not yet announced, or announced and not yet handled.
Announced(v) == (todo # <<>> /\ written /\ Head(todo).var = v) \/ v \in ToSet(msgs)

WritesBeforePosts == written => todo # <<>>

\* What the variables say and the window is not is announced.
ModeAnnounced ==
  /\ shown # cfg.full => Announced("full")
  /\ bare # cfg.borderless => Announced("borderless")
  /\ shown /\ ~placed => win = Screen

RectAnnounced ==
  /\ PositionTold \/ Announced("x")
  /\ SizeTold("w") \/ Announced("w")
  /\ SizeTold("h") \/ Announced("h")

\* While the window is full screen, what is saved is the rectangle it had before.
SavedIsBefore == shown /\ ~twice => saved = before /\ Fits(saved)

IInv ==
  /\ Types
  /\ WritesBeforePosts
  /\ ModeAnnounced
  /\ RectAnnounced
  /\ SavedIsBefore
-----------------------------------------------------------------------------
(* Rectangles *)

LEMMA FitIs ==
  ASSUME NEW r \in Frame
  PROVE  /\ Fit(r) \in Frame /\ Fits(Fit(r))
         /\ Fit(r).x = r.x
         /\ Fit(r).w = AtLeast(r.w, MinSize) /\ Fit(r).h = AtLeast(r.h, MinSize)
         /\ Fits(r) => Fit(r) = r
<1>1. MinSize \in Int
  BY WindowAssumption
<1>2. AtLeast(r.w, MinSize) \in Int /\ AtLeast(r.h, MinSize) \in Int
  BY <1>1 DEF AtLeast, Frame
<1>3. /\ Fit(r) \in Frame /\ Fit(r).x = r.x
      /\ Fit(r).w = AtLeast(r.w, MinSize) /\ Fit(r).h = AtLeast(r.h, MinSize)
  BY <1>2 DEF Fit, Frame
<1>4. AtLeast(r.w, MinSize) >= MinSize /\ AtLeast(r.h, MinSize) >= MinSize
  BY <1>1 DEF AtLeast, Frame
<1>5. ASSUME Fits(r) PROVE Fit(r) = r
  <2>1. AtLeast(r.w, MinSize) = r.w /\ AtLeast(r.h, MinSize) = r.h
    BY <1>1, <1>5 DEF AtLeast, Fits, Frame
  <2> QED  BY <2>1 DEF Fit, Frame
<1> QED  BY <1>3, <1>4, <1>5 DEF Fits

LEMMA ScreenIs == Screen \in Frame /\ Fits(Screen) /\ Fit(Screen) = Screen
<1>1. ScreenSize \in Int /\ MinSize <= ScreenSize
  BY WindowAssumption
<1>2. Screen \in Frame /\ Fits(Screen)
  BY <1>1 DEF Screen, Frame, Fits
<1> QED  BY <1>2, FitIs

\* The whole screen has nowhere to snap to.
LEMMA SnapIs ==
  /\ \A r \in Frame : Snap(r) \in Frame
  /\ Snap(Screen) = Screen
<1>1. ScreenSize \in Int
  BY WindowAssumption
<1> QED  BY <1>1 DEF Snap, Screen, Frame

\* The client area, dimension by dimension.
LEMMA ClientIs ==
  ASSUME NEW q \in Frame, NEW b \in BOOLEAN
  PROVE  /\ Client(q, b) \in Frame /\ EdgeOf(b) \in {0, Border.x} /\ EdgeOf(b) \in Int
         /\ Client(q, b).x = q.x + EdgeOf(b)
         /\ Client(q, b).w = q.w - (IF b THEN 0 ELSE Border.w)
         /\ Client(q, b).h = q.h - (IF b THEN 0 ELSE Border.h)
<1>1. Border.x \in Int /\ Border.w \in Int /\ Border.h \in Int
  BY WindowAssumption
<1>2. CASE b
  BY <1>2 DEF Client, EdgeOf, Frame
<1>3. CASE ~b
  BY <1>1, <1>3 DEF Client, EdgeOf, Frame
<1> QED  BY <1>2, <1>3

LEMMA EdgeIs ==
  ASSUME NEW e, NEW a \in Int
  PROVE  e \in {a - EdgeOf(b) : b \in BOOLEAN} <=> e = a \/ e = a - Border.x
<1>1. EdgeOf(TRUE) = 0 /\ EdgeOf(FALSE) = Border.x
  BY DEF EdgeOf
<1>2. a - 0 = a
  OBVIOUS
<1>3. ASSUME e = a \/ e = a - Border.x PROVE e \in {a - EdgeOf(b) : b \in BOOLEAN}
  BY <1>1, <1>2, <1>3
<1>4. ASSUME NEW b \in BOOLEAN, e = a - EdgeOf(b) PROVE e = a \/ e = a - Border.x
  BY <1>1, <1>2, <1>4
<1> QED  BY <1>3, <1>4

\* The window is asked for the rectangle r, in the style b, in which the dimension d is
\* what the variables c say.
Granted(c, r, b, d) == r[d] = c[d] + (IF b \/ d = "x" THEN 0 ELSE Border[d])

\* What a change of the window leaves untold in the variables was so before; and it is
\* not what the window was asked for.
LEMMA PosIs ==
  ASSUME Types, NEW c \in Config, NEW r \in Frame, bare' \in BOOLEAN, SetWindowPos(c, r),
         c.x = cfg.x, c.w = cfg.w, c.h = cfg.h
  PROVE  /\ win' = Fit(r) /\ win' \in Frame /\ Fits(win')
         /\ edge' \in {0, Border.x} /\ measured' \in BOOLEAN
         /\ cfg' \in Config /\ cfg'.full = c.full /\ cfg'.borderless = c.borderless
         /\ ~PositionTold' => ~PositionTold /\ ~Granted(c, r, bare', "x")
         /\ ~SizeTold("w")' => ~SizeTold("w") /\ ~Granted(c, r, bare', "w")
         /\ ~SizeTold("h")' => ~SizeTold("h") /\ ~Granted(c, r, bare', "h")
<1> DEFINE f == Fit(r)
           old == Client(win, bare)
           new == Client(f, bare')
           moves == new.x # old.x
           sizes == new.w # old.w \/ new.h # old.h
<1>1. /\ f \in Frame /\ Fits(f) /\ f.x = r.x
      /\ f.w = AtLeast(r.w, MinSize) /\ f.h = AtLeast(r.h, MinSize)
  BY FitIs
<1>2. /\ win' = f
      /\ edge' = IF moves /\ ~measured THEN EdgeOf(bare') ELSE edge
      /\ measured' = (/\ measured \/ moves
                      /\ new.w = old.w /\ new.h = old.h)
      /\ cfg' = Moved(c, old, new, edge')
  BY DEF SetWindowPos
<1>3. old = Client(win, bare) /\ Client(win, bare)' = new
  BY <1>2
<1> HIDE DEF f
<1>4. /\ old \in Frame /\ new \in Frame
      /\ EdgeOf(bare') \in {0, Border.x} /\ EdgeOf(bare') \in Int
      /\ new.x = f.x + EdgeOf(bare')
      /\ new.w = f.w - (IF bare' THEN 0 ELSE Border.w)
      /\ new.h = f.h - (IF bare' THEN 0 ELSE Border.h)
  BY <1>1, ClientIs DEF Types
<1> HIDE DEF old, new
<1>5. edge' \in {0, Border.x} /\ edge' \in Int /\ measured' \in BOOLEAN
  BY <1>2, <1>4, WindowAssumption DEF Types
<1>6. /\ cfg' \in Config /\ cfg'.full = c.full /\ cfg'.borderless = c.borderless
      /\ cfg'.x = IF moves THEN new.x - edge' ELSE c.x
      /\ cfg'.w = IF sizes THEN new.w ELSE c.w
      /\ cfg'.h = IF sizes THEN new.h ELSE c.h
  <2> DEFINE e == edge'
             moved == IF moves THEN [c EXCEPT !.x = new.x - e] ELSE c
  <2>1. cfg' = IF sizes THEN [moved EXCEPT !.w = new.w, !.h = new.h] ELSE moved
    BY <1>2 DEF Moved
  <2>2. e \in Int
    BY <1>5
  <2> HIDE DEF e
  <2>3. /\ moved \in Config /\ moved.x = (IF moves THEN new.x - e ELSE c.x)
        /\ moved.full = c.full /\ moved.borderless = c.borderless
        /\ moved.w = c.w /\ moved.h = c.h
    BY <1>4, <2>2 DEF Config, Frame
  <2> HIDE DEF moved
  <2>4. CASE sizes
    BY <1>4, <2>1, <2>3, <2>4 DEF Config, Frame, e
  <2>5. CASE ~sizes
    BY <2>1, <2>3, <2>5 DEF e
  <2> QED  BY <2>4, <2>5
<1>7. /\ old.x \in Int /\ new.x \in Int /\ new.w \in Int /\ new.h \in Int
      /\ r.x \in Int /\ r.w \in Int /\ r.h \in Int /\ c.x \in Int /\ c.w \in Int /\ c.h \in Int
      /\ Border.x \in Nat /\ Border.w \in Nat /\ Border.h \in Nat /\ MinSize \in Int
  BY <1>4, WindowAssumption DEF Frame, Config
<1>8. /\ PositionTold <=> cfg.x = old.x \/ cfg.x = old.x - Border.x
      /\ PositionTold' <=> cfg'.x = new.x \/ cfg'.x = new.x - Border.x
  BY <1>3, <1>7, EdgeIs DEF PositionTold
<1>9. /\ \A d \in {"w", "h"} : SizeTold(d)
           <=> cfg[d] = old[d] \/ (cfg[d] < old[d] /\ old[d] <= MinSize)
      /\ SizeTold("w")' <=> cfg'.w = new.w \/ (cfg'.w < new.w /\ new.w <= MinSize)
      /\ SizeTold("h")' <=> cfg'.h = new.h \/ (cfg'.h < new.h /\ new.h <= MinSize)
  BY <1>3 DEF SizeTold
<1>10. ~PositionTold' => ~PositionTold /\ ~Granted(c, r, bare', "x")
  <2>1. CASE moves
    <3>1. cfg'.x = new.x - edge'
      BY <1>6, <2>1
    <3> QED  BY <1>5, <1>7, <1>8, <3>1
  <2>2. CASE ~moves
    <3>1. cfg'.x = c.x /\ new.x = old.x
      BY <1>6, <2>2
    <3>2. ~PositionTold' => ~PositionTold
      BY <1>8, <3>1
    <3>3. ASSUME Granted(c, r, bare', "x") PROVE PositionTold'
      <4>1. new.x = c.x + EdgeOf(bare')
        BY <1>1, <1>4, <1>7, <3>3 DEF Granted
      <4> QED  BY <1>4, <1>7, <1>8, <3>1, <4>1
    <3> QED  BY <3>2, <3>3
  <2> QED  BY <2>1, <2>2
<1>11. ~SizeTold("w")' => ~SizeTold("w") /\ ~Granted(c, r, bare', "w")
  <2>1. CASE sizes
    BY <1>6, <1>9, <2>1
  <2>2. CASE ~sizes
    <3>1. cfg'.w = c.w /\ new.w = old.w
      BY <1>6, <2>2
    <3>2. ~SizeTold("w")' => ~SizeTold("w")
      BY <1>9, <3>1
    <3>3. ASSUME Granted(c, r, bare', "w") PROVE SizeTold("w")'
      <4> DEFINE b == IF bare' THEN 0 ELSE Border.w
      <4>1. r.w = c.w + b /\ b \in Nat
        BY <1>7, <3>3 DEF Granted
      <4>2. new.w = AtLeast(c.w + b, MinSize) - b
        BY <1>1, <1>4, <4>1
      <4> HIDE DEF b
      <4> QED  BY <1>7, <1>9, <3>1, <4>1, <4>2 DEF AtLeast
    <3> QED  BY <3>2, <3>3
  <2> QED  BY <2>1, <2>2
<1>12. ~SizeTold("h")' => ~SizeTold("h") /\ ~Granted(c, r, bare', "h")
  <2>1. CASE sizes
    BY <1>6, <1>9, <2>1
  <2>2. CASE ~sizes
    <3>1. cfg'.h = c.h /\ new.h = old.h
      BY <1>6, <2>2
    <3>2. ~SizeTold("h")' => ~SizeTold("h")
      BY <1>9, <3>1
    <3>3. ASSUME Granted(c, r, bare', "h") PROVE SizeTold("h")'
      <4> DEFINE b == IF bare' THEN 0 ELSE Border.h
      <4>1. r.h = c.h + b /\ b \in Nat
        BY <1>7, <3>3 DEF Granted
      <4>2. new.h = AtLeast(c.h + b, MinSize) - b
        BY <1>1, <1>4, <4>1
      <4> HIDE DEF b
      <4> QED  BY <1>7, <1>9, <3>1, <4>1, <4>2 DEF AtLeast
    <3> QED  BY <3>2, <3>3
  <2> QED  BY <2>1, <2>2
<1> QED  BY <1>1, <1>2, <1>5, <1>6, <1>10, <1>11, <1>12 DEF f

-----------------------------------------------------------------------------
(* Messages *)

LEMMA AppendIs ==
  ASSUME NEW S, NEW s \in Seq(S), NEW e \in S
  PROVE  Append(s, e) \in Seq(S) /\ ToSet(Append(s, e)) = ToSet(s) \cup {e}
<1> DEFINE t == Append(s, e)
<1>1. /\ Len(s) \in Nat /\ DOMAIN s = 1 .. Len(s)
      /\ t \in Seq(S) /\ DOMAIN t = 1 .. Len(s) + 1
      /\ \A i \in 1 .. Len(s) : t[i] = s[i]
      /\ t[Len(s) + 1] = e
  BY AppendProperties, LenProperties
<1> HIDE DEF t
<1>2. \A i \in DOMAIN t : i \in DOMAIN s \/ i = Len(s) + 1
  BY <1>1
<1>3. \A i \in DOMAIN s : i \in DOMAIN t
  BY <1>1
<1>4. Len(s) + 1 \in DOMAIN t
  BY <1>1
<1> QED  BY <1>1, <1>2, <1>3, <1>4 DEF ToSet, t

LEMMA TailIs ==
  ASSUME NEW S, NEW s \in Seq(S), s # <<>>
  PROVE  /\ Tail(s) \in Seq(S) /\ Head(s) \in S
         /\ ToSet(s) \subseteq {Head(s)} \cup ToSet(Tail(s))
<1>1. /\ Len(s) \in Nat /\ DOMAIN s = 1 .. Len(s) /\ Head(s) = s[1]
      /\ Tail(s) \in Seq(S) /\ Head(s) \in S /\ DOMAIN Tail(s) = 1 .. Len(s) - 1
      /\ \A i \in 1 .. Len(s) - 1 : Tail(s)[i] = s[i + 1]
  BY HeadTailProperties, LenProperties
<1>2. ASSUME NEW i \in DOMAIN s, i # 1 PROVE s[i] \in ToSet(Tail(s))
  <2>1. i - 1 \in 1 .. Len(s) - 1 /\ (i - 1) + 1 = i
    BY <1>1, <1>2
  <2> QED  BY <1>1, <2>1 DEF ToSet
<1> QED  BY <1>1, <1>2 DEF ToSet

\* What is announced stays so until its message is handled.
LEMMA HandledOne ==
  ASSUME Types, msgs # <<>>, msgs' = Tail(msgs), UNCHANGED <<todo, written>>
  PROVE  \A v \in Var : v # Head(msgs) /\ Announced(v) => Announced(v)'
BY TailIs DEF Types, Announced

LEMMA PostedOne ==
  ASSUME Types, NEW e \in Var \cup {"alt_enter"}, msgs' = Append(msgs, e)
  PROVE  /\ msgs' \in Seq(Var \cup {"alt_enter"})
         /\ ToSet(msgs') = ToSet(msgs) \cup {e}
BY AppendIs DEF Types
-----------------------------------------------------------------------------
(* Every step keeps the invariant *)

LEMMA InitIInv == Init => IInv
<1> SUFFICES ASSUME Init PROVE IInv
  OBVIOUS
<1>1. PICK r \in Rects, f \in BOOLEAN, b \in BOOLEAN :
        /\ win = (IF f THEN Screen ELSE Fit(r))
        /\ cfg = [full |-> f, borderless |-> b, x |-> win.x,
                  w |-> Client(win, b).w, h |-> Client(win, b).h]
        /\ bare = b /\ edge = EdgeOf(b) /\ measured = TRUE /\ shown = f /\ twice = f
  BY DEF Init
<1>2. win \in Frame /\ Fits(win) /\ (f => win = Screen)
  BY <1>1, FitIs, ScreenIs, WindowAssumption DEF Frame
<1>3. /\ todo = <<>> /\ written = FALSE /\ msgs = <<>>
      /\ saved = [x |-> 0, w |-> 0, h |-> 0] /\ placed = FALSE
  BY DEF Init
<1>4. /\ Client(win, b) \in Frame /\ EdgeOf(b) \in {0, Border.x} /\ EdgeOf(b) \in Int
      /\ Client(win, b).x = win.x + EdgeOf(b)
  BY <1>2, ClientIs
<1>5. Types
  <2>1. todo \in Seq(Setting) /\ msgs \in Seq(Var \cup {"alt_enter"})
    BY <1>3, EmptySeq
  <2>2. cfg \in Config
    BY <1>1, <1>2, <1>4 DEF Config, Frame
  <2>3. saved \in Frame
    BY <1>3 DEF Frame
  <2>4. /\ written \in BOOLEAN /\ bare \in BOOLEAN /\ shown \in BOOLEAN
        /\ placed \in BOOLEAN /\ twice \in BOOLEAN
        /\ edge \in {0, Border.x} /\ measured \in BOOLEAN
    BY <1>1, <1>3, <1>4
  <2> QED  BY <1>2, <2>1, <2>2, <2>3, <2>4 DEF Types
<1>6. ModeAnnounced
  BY <1>1, <1>2 DEF ModeAnnounced
<1>7. RectAnnounced
  <2>1. cfg.x = Client(win, bare).x - EdgeOf(b)
    BY <1>1, <1>2, <1>4 DEF Frame
  <2>2. cfg.w = Client(win, bare).w /\ cfg.h = Client(win, bare).h
    BY <1>1
  <2> QED  BY <2>1, <2>2 DEF RectAnnounced, PositionTold, SizeTold
<1> QED  BY <1>1, <1>3, <1>5, <1>6, <1>7 DEF IInv, WritesBeforePosts, SavedIsBefore

LEMMA AskStep == ASSUME IInv, Ask PROVE IInv'
<1> USE DEF IInv
<1>1. /\ todo = <<>> /\ todo' \in Commands
      /\ UNCHANGED <<cfg, written, msgs, win, bare, edge, measured, saved, shown, placed, before, twice>>
  BY DEF Ask, winVars
<1>2. ~written
  BY <1>1 DEF WritesBeforePosts
<1>3. \A v \in Var : Announced(v)' <=> Announced(v)
  BY <1>1, <1>2 DEF Announced
<1>4. Types'
  BY <1>1, WindowAssumption DEF Types, Setting
<1>5. ModeAnnounced' /\ RectAnnounced'
  BY <1>1, <1>3 DEF ModeAnnounced, RectAnnounced, PositionTold, SizeTold, Var
<1> QED  BY <1>1, <1>2, <1>4, <1>5 DEF WritesBeforePosts, SavedIsBefore

LEMMA WriteStep == ASSUME IInv, Write PROVE IInv'
<1> USE DEF IInv
<1> DEFINE v == Head(todo).var
           s == Stored(v, Head(todo).val)
<1>1. /\ ~written /\ written' /\ written' \in BOOLEAN /\ todo # <<>> /\ todo' = todo
      /\ cfg' = [cfg EXCEPT ![v] = s]
      /\ UNCHANGED <<msgs, win, bare, edge, measured, saved, shown, placed, before, twice>>
  BY DEF Write, WriteIsNext, SetHalf, winVars, Types
<1>2. Head(todo) \in Setting
  BY <1>1, TailIs DEF Types
<1>3. v \in Var /\ (v \in {"full", "borderless"} => s \in BOOLEAN) /\ (v \in {"x", "w", "h"} => s \in Int)
  BY <1>2 DEF Setting, Stored
<1>4. \A u \in Var : u = v \/ Announced(u) => Announced(u)'
  BY <1>1 DEF Announced
<1> HIDE DEF v, s
<1>5. /\ cfg' \in Config
      /\ v # "full" => cfg'.full = cfg.full
      /\ v # "borderless" => cfg'.borderless = cfg.borderless
      /\ v # "x" => cfg'.x = cfg.x
      /\ v # "w" => cfg'.w = cfg.w
      /\ v # "h" => cfg'.h = cfg.h
  <2>1. cfg \in Config
    BY DEF Types
  <2>2. CASE v = "full"
    BY <1>1, <1>3, <2>1, <2>2 DEF Config
  <2>3. CASE v = "borderless"
    BY <1>1, <1>3, <2>1, <2>3 DEF Config
  <2>4. CASE v = "x"
    BY <1>1, <1>3, <2>1, <2>4 DEF Config
  <2>5. CASE v = "w"
    BY <1>1, <1>3, <2>1, <2>5 DEF Config
  <2>6. CASE v = "h"
    BY <1>1, <1>3, <2>1, <2>6 DEF Config
  <2> QED  BY <1>3, <2>2, <2>3, <2>4, <2>5, <2>6 DEF Var
<1>6. Types'
  BY <1>1, <1>5 DEF Types
<1>7. ModeAnnounced'
  BY <1>1, <1>4, <1>5 DEF ModeAnnounced, Var
<1>8. RectAnnounced'
  <2>1. v # "x" => (PositionTold => PositionTold')
    BY <1>1, <1>5 DEF PositionTold
  <2>2. /\ v # "w" => (SizeTold("w") => SizeTold("w")')
        /\ v # "h" => (SizeTold("h") => SizeTold("h")')
    BY <1>1, <1>5 DEF SizeTold
  <2> QED  BY <1>4, <2>1, <2>2 DEF RectAnnounced, Var
<1> QED  BY <1>1, <1>6, <1>7, <1>8 DEF WritesBeforePosts, SavedIsBefore

\* A step that leaves the variables and the window alone and announces no less.
LEMMA QuietStep ==
  ASSUME IInv, UNCHANGED <<cfg, win, bare, edge, measured, saved, shown, placed, before, twice>>,
         todo' \in Seq(Setting), written' \in BOOLEAN, msgs' \in Seq(Var \cup {"alt_enter"}),
         WritesBeforePosts', \A v \in Var : Announced(v) => Announced(v)'
  PROVE  IInv'
<1> USE DEF IInv
<1>1. Types'
  BY DEF Types
<1>2. ModeAnnounced' /\ RectAnnounced'
  BY DEF ModeAnnounced, RectAnnounced, PositionTold, SizeTold, Var
<1>3. SavedIsBefore'
  BY DEF SavedIsBefore
<1> QED  BY <1>1, <1>2, <1>3

LEMMA PostStep == ASSUME IInv, Post PROVE IInv'
<1> USE DEF IInv
<1>1. /\ written /\ written' = FALSE /\ todo # <<>> /\ todo' = Tail(todo)
      /\ msgs' = Append(msgs, Head(todo).var)
      /\ UNCHANGED <<cfg, win, bare, edge, measured, saved, shown, placed, before, twice>>
  BY DEF Post, WriteIsNext, SetHalf, winVars, Types
<1>2. Head(todo) \in Setting /\ todo' \in Seq(Setting)
  BY <1>1, TailIs DEF Types
<1>3. Head(todo).var \in Var \cup {"alt_enter"}
  BY <1>2 DEF Setting
<1>4. msgs' \in Seq(Var \cup {"alt_enter"}) /\ ToSet(msgs') = ToSet(msgs) \cup {Head(todo).var}
  BY <1>1, <1>3, PostedOne
<1>5. \A v \in Var : Announced(v) => Announced(v)'
  BY <1>4 DEF Announced
<1> QED  BY <1>1, <1>2, <1>4, <1>5, QuietStep DEF WritesBeforePosts

LEMMA PressAltEnterStep == ASSUME IInv, PressAltEnter PROVE IInv'
<1> USE DEF IInv
<1>1. /\ msgs' = Append(msgs, "alt_enter")
      /\ UNCHANGED <<cfg, todo, written, win, bare, edge, measured, saved, shown, placed, before, twice>>
  BY DEF PressAltEnter, winVars
<1>2. msgs' \in Seq(Var \cup {"alt_enter"}) /\ ToSet(msgs') = ToSet(msgs) \cup {"alt_enter"}
  BY <1>1, PostedOne
<1>3. \A v \in Var : Announced(v) => Announced(v)'
  BY <1>1, <1>2 DEF Announced
<1> QED  BY <1>1, <1>2, <1>3, QuietStep DEF WritesBeforePosts, Types

\* A step of the window's thread that puts the window somewhere: every difference that is
\* left was there before, and is announced still.
LEMMA PlaceStep ==
  ASSUME IInv, NEW c \in Config, NEW r \in Frame, SetWindowPos(c, r),
         c.x = cfg.x, c.w = cfg.w, c.h = cfg.h,
         UNCHANGED <<todo, written>>, msgs' \in Seq(Var \cup {"alt_enter"}),
         \A v \in {"x", "w", "h"} :
           ~Granted(c, r, bare', v) => (Announced(v) => Announced(v)'),
         bare' \in BOOLEAN, saved' \in Frame, shown' \in BOOLEAN, placed' \in BOOLEAN,
         twice' \in BOOLEAN
  PROVE  Types' /\ WritesBeforePosts' /\ RectAnnounced'
<1> USE DEF IInv
<1>1. /\ win' \in Frame /\ Fits(win') /\ cfg' \in Config
      /\ edge' \in {0, Border.x} /\ measured' \in BOOLEAN
      /\ ~PositionTold' => ~PositionTold /\ ~Granted(c, r, bare', "x")
      /\ ~SizeTold("w")' => ~SizeTold("w") /\ ~Granted(c, r, bare', "w")
      /\ ~SizeTold("h")' => ~SizeTold("h") /\ ~Granted(c, r, bare', "h")
  BY PosIs
<1>2. Types'
  BY <1>1 DEF Types
<1>3. PositionTold' \/ Announced("x")'
  BY <1>1 DEF RectAnnounced
<1>4. SizeTold("w")' \/ Announced("w")'
  BY <1>1 DEF RectAnnounced
<1>5. SizeTold("h")' \/ Announced("h")'
  BY <1>1 DEF RectAnnounced
<1> QED  BY <1>2, <1>3, <1>4, <1>5 DEF RectAnnounced, WritesBeforePosts

LEMMA DragStep == ASSUME IInv, Drag PROVE IInv'
<1> USE DEF IInv
<1>1. PICK r \in Rects : SetWindowPos(cfg, r)
  BY DEF Drag
<1>2. placed' = shown /\ UNCHANGED <<todo, written, msgs, bare, saved, shown, before, twice>>
  BY DEF Drag
<1>3. r \in Frame /\ cfg \in Config
  BY WindowAssumption DEF Frame, Types
<1>4. \A v \in Var : Announced(v)' <=> Announced(v)
  BY <1>2 DEF Announced
<1>5. Types' /\ WritesBeforePosts' /\ RectAnnounced'
  BY <1>1, <1>2, <1>3, <1>4, PlaceStep DEF Types, Var
<1>6. cfg'.full = cfg.full /\ cfg'.borderless = cfg.borderless
  BY <1>1, <1>2, <1>3, PosIs DEF Types
<1>7. ModeAnnounced'
  BY <1>2, <1>4, <1>6 DEF ModeAnnounced, Var
<1> QED  BY <1>2, <1>5, <1>7 DEF SavedIsBefore

\* The window's thread switches the mode, in the configuration c.
LEMMA FullscreenStep ==
  ASSUME IInv, NEW c \in Config, SetFullscreen(c),
         c.x = cfg.x, c.w = cfg.w, c.h = cfg.h,
         UNCHANGED <<todo, written>>, msgs' \in Seq(Var \cup {"alt_enter"}),
         \A v \in {"x", "w", "h"} : Announced(v) => Announced(v)',
         bare' \in BOOLEAN,
         bare' # c.borderless => Announced("borderless")'
  PROVE  IInv'
<1> USE DEF IInv
<1>1. /\ saved' = IF Saves(c.full) THEN win ELSE saved
      /\ SetWindowPos(c, IF c.full THEN Screen ELSE saved')
      /\ shown' = c.full /\ placed' = FALSE
      /\ before' = IF c.full /\ ~shown THEN win ELSE Screen
      /\ twice' = (c.full /\ (shown \/ twice))
  BY DEF SetFullscreen
<1> DEFINE r == IF c.full THEN Screen ELSE saved'
<1>2. saved' \in Frame
  BY <1>1 DEF Types
<1>3. r \in Frame
  BY <1>2, ScreenIs
<1>4. SetWindowPos(c, r)
  BY <1>1
<1>5. c.full \in BOOLEAN
  BY DEF Config
<1>6. /\ win' = Fit(r) /\ cfg'.full = c.full /\ cfg'.borderless = c.borderless
  BY <1>3, <1>4, PosIs
<1> HIDE DEF r
<1>7. shown' \in BOOLEAN /\ placed' \in BOOLEAN /\ twice' \in BOOLEAN
  BY <1>1, <1>5 DEF Types
<1>8. Types' /\ WritesBeforePosts' /\ RectAnnounced'
  BY <1>2, <1>3, <1>4, <1>7, PlaceStep
<1>9. ModeAnnounced'
  <2>1. shown' => win' = Screen
    BY <1>1, <1>6, ScreenIs DEF r
  <2> QED  BY <1>1, <1>6, <2>1 DEF ModeAnnounced
<1>10. SavedIsBefore'
  <2> SUFFICES ASSUME shown', ~twice' PROVE saved' = before' /\ Fits(saved')
    BY DEF SavedIsBefore
  <2>1. c.full /\ ~shown
    BY <1>1
  <2>2. saved' = win /\ before' = win
    BY <1>1, <2>1 DEF Saves
  <2> QED  BY <2>2 DEF Types
<1> QED  BY <1>8, <1>9, <1>10

\* What the handler of a message finds.
LEMMA HandleIs ==
  ASSUME IInv, Handle
  PROVE  /\ msgs # <<>> /\ msgs' = Tail(msgs) /\ UNCHANGED <<todo, written>>
         /\ Head(msgs) \in Var \cup {"alt_enter"}
         /\ msgs' \in Seq(Var \cup {"alt_enter"})
         /\ \A v \in Var : v # Head(msgs) /\ Announced(v) => Announced(v)'
<1>1. msgs # <<>> /\ msgs' = Tail(msgs) /\ UNCHANGED <<todo, written>>
  BY DEF Handle
<1> QED  BY <1>1, TailIs, HandledOne DEF IInv, Types

LEMMA HandleStep == ASSUME IInv, Handle PROVE IInv'
<1> USE DEF IInv
<1>1. /\ msgs # <<>> /\ msgs' = Tail(msgs) /\ UNCHANGED <<todo, written>>
      /\ msgs' \in Seq(Var \cup {"alt_enter"})
      /\ \A v \in Var : v # Head(msgs) /\ Announced(v) => Announced(v)'
  BY HandleIs
<1>2. cfg \in Config
  BY DEF Types
<1>3. CASE Head(msgs) = "full" /\ UNCHANGED bare /\ SetFullscreen(cfg)
  <2>1. bare' # cfg.borderless => Announced("borderless")'
    BY <1>1, <1>3 DEF ModeAnnounced, Var
  <2>2. \A v \in {"x", "w", "h"} : Announced(v) => Announced(v)'
    BY <1>1, <1>3 DEF Var
  <2>3. bare' \in BOOLEAN
    BY <1>3 DEF Types
  <2> QED  BY <1>1, <1>2, <1>3, <2>1, <2>2, <2>3, FullscreenStep
<1>4. CASE Head(msgs) = "alt_enter" /\ AltEnter
  <2> DEFINE c == [cfg EXCEPT !.full = ~cfg.full, !.borderless = ~cfg.full]
  <2>1. /\ c \in Config /\ c.x = cfg.x /\ c.w = cfg.w /\ c.h = cfg.h
        /\ c.borderless = ~cfg.full /\ cfg.full \in BOOLEAN
    BY <1>2 DEF Config
  <2>2. SetFullscreen(c) /\ bare' = ~cfg.full
    BY <1>4 DEF AltEnter
  <2>3. \A v \in {"x", "w", "h"} : Announced(v) => Announced(v)'
    BY <1>1, <1>4 DEF Var
  <2> HIDE DEF c
  <2> QED  BY <1>1, <2>1, <2>2, <2>3, FullscreenStep
<1>5. CASE Head(msgs) = "borderless" /\ SetBorderless
  <2>1. /\ bare' = cfg.borderless /\ SetWindowPos(cfg, Snap(win))
        /\ UNCHANGED <<saved, shown, placed, before, twice>>
    BY <1>5 DEF SetBorderless
  <2>2. Snap(win) \in Frame
    BY SnapIs DEF Types
  <2>3. cfg.borderless \in BOOLEAN
    BY <1>2 DEF Config
  <2>4. /\ win' = Fit(Snap(win)) /\ cfg'.full = cfg.full /\ cfg'.borderless = cfg.borderless
    BY <1>2, <2>1, <2>2, <2>3, PosIs
  <2>5. \A v \in {"x", "w", "h", "full"} : Announced(v) => Announced(v)'
    BY <1>1, <1>5 DEF Var
  <2>6. Types' /\ WritesBeforePosts' /\ RectAnnounced'
    BY <1>1, <1>2, <2>1, <2>2, <2>3, <2>5, PlaceStep DEF Types
  <2>7. shown' /\ ~placed' => win' = Screen
    BY <2>1, <2>4, SnapIs, ScreenIs DEF ModeAnnounced
  <2>8. ModeAnnounced'
    BY <2>1, <2>4, <2>5, <2>7 DEF ModeAnnounced
  <2> QED  BY <2>1, <2>6, <2>8 DEF SavedIsBefore
<1>6. CASE Head(msgs) \in {"x", "w", "h"} /\ SizePosChanged(Head(msgs))
  <2> DEFINE d == Head(msgs)
             r == [win EXCEPT ![d] = Framed(d)]
  <2>1. /\ SetWindowPos(cfg, r) /\ placed' = shown
        /\ UNCHANGED <<bare, saved, shown, before, twice>>
    BY <1>6 DEF SizePosChanged
  <2>2. d \in {"x", "w", "h"} /\ d \in Var
    BY <1>6 DEF Var
  <2> HIDE DEF d
  <2>3. r \in Frame /\ Granted(cfg, r, bare', d)
    <3>1. win \in Frame /\ bare' = bare
      BY <2>1 DEF Types
    <3>2. CASE d = "x"
      BY <1>2, <3>1, <3>2, WindowAssumption DEF Frame, Config, Framed, Granted
    <3>3. CASE d = "w"
      BY <1>2, <3>1, <3>3, WindowAssumption DEF Frame, Config, Framed, Granted
    <3>4. CASE d = "h"
      BY <1>2, <3>1, <3>4, WindowAssumption DEF Frame, Config, Framed, Granted
    <3> QED  BY <2>2, <3>2, <3>3, <3>4
  <2> HIDE DEF r
  <2>4. \A v \in Var : v # d /\ Announced(v) => Announced(v)'
    BY <1>1 DEF d
  <2>5. \A v \in {"x", "w", "h"} :
          ~Granted(cfg, r, bare', v) => (Announced(v) => Announced(v)')
    BY <2>3, <2>4 DEF Var
  <2>6. Types' /\ WritesBeforePosts' /\ RectAnnounced'
    BY <1>1, <1>2, <2>1, <2>3, <2>5, PlaceStep DEF Types
  <2>7. cfg'.full = cfg.full /\ cfg'.borderless = cfg.borderless
    BY <1>2, <2>1, <2>3, PosIs DEF Types
  <2>8. (Announced("full") => Announced("full")') /\ (Announced("borderless") => Announced("borderless")')
    BY <2>2, <2>4 DEF Var
  <2>9. ModeAnnounced'
    BY <2>1, <2>7, <2>8 DEF ModeAnnounced
  <2> QED  BY <2>1, <2>6, <2>9 DEF SavedIsBefore
<1> QED  BY <1>3, <1>4, <1>5, <1>6 DEF Handle

LEMMA StutterStep == ASSUME IInv, UNCHANGED vars PROVE IInv'
<1>1. UNCHANGED <<cfg, todo, written, msgs, win, bare, edge, measured, saved, shown, placed, before, twice>>
  BY DEF vars, winVars
<1>2. \A v \in Var : Announced(v) => Announced(v)'
  BY <1>1 DEF Announced
<1> QED  BY <1>1, <1>2, QuietStep DEF IInv, Types, WritesBeforePosts

LEMMA NextIInv == IInv /\ [Next]_vars => IInv'
BY AskStep, WriteStep, PostStep, HandleStep, PressAltEnterStep, DragStep, StutterStep DEF Next

THEOREM WindowInvariant == Spec => []IInv
BY InitIInv, NextIInv, PTL DEF Spec
-----------------------------------------------------------------------------
(* The properties the run checks *)

LEMMA NothingAnnounced ==
  ASSUME Types, Settled
  PROVE  \A v \in Var : ~Announced(v)
BY DEF Settled, Announced, ToSet

\* However the settings, reverts and Alt+Enter cross on the two threads, the window ends
\* up in the mode its variables say (set_fullscreen_cb, set_borderless_cb, alt_enter_cb).
THEOREM WindowHasItsMode == Spec => []ModeSettles
<1>1. IInv => ModeSettles
  BY NothingAnnounced DEF IInv, ModeAnnounced, ModeSettles, Var
<1> QED  BY <1>1, WindowInvariant, PTL

\* The variables end up as the window's rectangle (hooked_on_window_resize,
\* hooked_on_windows_move, window_size_pos_changed_cb).
THEOREM VariablesTellWindow == Spec => []RectMirrored
<1>1. IInv => RectMirrored
  BY NothingAnnounced DEF IInv, RectAnnounced, RectMirrored, Var
<1> QED  BY <1>1, WindowInvariant, PTL

\* The window comes back from full screen to where it was, whatever happened to it and to
\* its variables meanwhile (set_fullscreen_cb).
THEOREM FullscreenGivesBack == Spec => ReturnsToPlace
<1>1. ASSUME IInv, shown, ~twice, ~shown', NEW c \in Config, SetFullscreen(c)
      PROVE  win' = before
  <2>1. saved = before /\ Fits(saved) /\ saved \in Frame
    BY <1>1 DEF IInv, SavedIsBefore, Types
  <2>2. saved.w # 0
    BY <2>1, WindowAssumption DEF Fits, Frame
  <2>3. ~c.full
    BY <1>1 DEF SetFullscreen
  <2>4. saved' = saved /\ win' = Fit(saved')
    BY <1>1, <2>2, <2>3 DEF SetFullscreen, Saves, SetWindowPos
  <2> QED  BY <2>1, <2>4, FitIs
<1>2. IInv /\ [Next]_vars => (shown /\ ~shown' /\ ~twice => win' = before)
  <2> SUFFICES ASSUME IInv, [Next]_vars, shown, ~shown', ~twice PROVE win' = before
    OBVIOUS
  <2>1. PICK c \in Config : SetFullscreen(c)
    <3>1. cfg \in Config /\ [cfg EXCEPT !.full = ~cfg.full, !.borderless = ~cfg.full] \in Config
      BY DEF IInv, Types, Config
    <3>2. Handle
      BY DEF Next, Ask, Write, Post, PressAltEnter, Drag, winVars, vars
    <3>3. \/ SetFullscreen(cfg)
          \/ SetFullscreen([cfg EXCEPT !.full = ~cfg.full, !.borderless = ~cfg.full])
      BY <3>2 DEF Handle, AltEnter, SetBorderless, SizePosChanged
    <3> QED  BY <3>1, <3>3
  <2> QED  BY <1>1, <2>1
<1>3. IInv /\ [Next]_vars => [shown /\ ~shown' /\ ~twice => win' = before]_vars
  BY <1>2
<1> QED  BY <1>3, WindowInvariant, PTL DEF Spec, ReturnsToPlace
=============================================================================
