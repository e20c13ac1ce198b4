------------------------------- MODULE Layout -------------------------------
(***************************************************************************)
(* WorkbenchLayout (layout.rs): the panes of the screen in cells.  The     *)
(* renderer draws into the rectangles computed here and the mouse mapping  *)
(* asks the same rectangles what was hit.                                  *)
(*                                                                         *)
(* App itself resizes the layout and opens the body of the bottom pane;    *)
(* toggling panes and dragging separators are offered to it.               *)
(***************************************************************************)
EXTENDS Integers

CONSTANTS
  Screens,  \* bound: sizes <<width, height>> a terminal reports
  Drags     \* bound: cells a separator is dragged by, either way

ASSUME LayoutAssumption == Screens \subseteq Nat \X Nat /\ Drags \subseteq Nat

VARIABLE layout

ToolbarH == 1
AuthorityH == 2
StatusH == 1
BottomHeaderH == 1
MinEditorW == 40
StripeWidth(total) == IF total >= 70 THEN 4 ELSE 3

AtMost(a, b) == IF a < b THEN a ELSE b
AtLeast(a, b) == IF a < b THEN b ELSE a
Saturated(n) == AtLeast(n, 0)

FirstRun == [width |-> 120, height |-> 36,
  primary |-> TRUE, context |-> FALSE, bottom |-> FALSE,
  left |-> 28, right |-> 24, body |-> 0]

-----------------------------------------------------------------------------
(* recompute: the context pane shrinks first, then the primary pane, and   *)
(* what leaves no room for the editor all the same is closed.              *)
MainH(l) == Saturated(l.height - (ToolbarH + AuthorityH + StatusH))
BodyHeight(l) ==
  IF l.bottom THEN AtLeast(AtMost(l.body, Saturated(MainH(l) - 4)), 4) ELSE 0
Columns(l) == l.width - 2 * StripeWidth(l.width)
Shrunk(l) ==
  LET right == IF l.context THEN AtMost(l.right, Saturated(Columns(l) - MinEditorW)) ELSE 0
      left == IF l.primary THEN AtMost(l.left, Saturated(Columns(l) - right - MinEditorW)) ELSE 0
  IN  [l EXCEPT !.right = right, !.left = left]
IsShort(l) == Columns(l) - l.right - l.left < MinEditorW
WithoutContext(l) ==
  IF IsShort(l) /\ l.context THEN Shrunk([l EXCEPT !.context = FALSE, !.right = 0]) ELSE l
WithoutPrimary(l) ==
  IF IsShort(l) /\ l.primary THEN Shrunk([l EXCEPT !.primary = FALSE, !.left = 0]) ELSE l
(* Mutant: the primary pane is fitted as if there was no context pane.     *)
RecomputeApart(l) ==
  [l EXCEPT
    !.right = IF l.context THEN AtMost(l.right, Saturated(Columns(l) - MinEditorW)) ELSE 0,
    !.left = IF l.primary THEN AtMost(l.left, Saturated(Columns(l) - MinEditorW)) ELSE 0,
    !.body = BodyHeight(l)]

Recompute(l) ==
  LET fitting == WithoutPrimary(WithoutContext(Shrunk(l)))
  IN  [fitting EXCEPT !.body = BodyHeight(fitting)]

Resized(l, w, h) ==
  Recompute([l EXCEPT !.width = AtLeast(w, 60), !.height = AtLeast(h, 20)])

(* A pane that was closed has lost its size.                               *)
Toggled(l, pane) ==
  LET shown == [l EXCEPT ![pane] = ~@]
  IN  Recompute(
        CASE pane = "primary" /\ shown.primary /\ l.left < 4 -> [shown EXCEPT !.left = 28]
          [] pane = "context" /\ shown.context /\ l.right < 4 -> [shown EXCEPT !.right = 24]
          [] pane = "bottom" /\ shown.bottom /\ l.body < 4 -> [shown EXCEPT !.body = 10]
          [] OTHER -> shown)

Dragged(l, pane, d) ==
  Recompute(
    CASE pane = "primary" /\ l.primary -> [l EXCEPT !.left = AtLeast(@ + d, 4)]
      [] pane = "context" /\ l.context -> [l EXCEPT !.right = AtLeast(@ - d, 4)]
      [] pane = "bottom" /\ l.bottom -> [l EXCEPT !.body = AtLeast(@ - d, 4)]
      [] OTHER -> l)

-----------------------------------------------------------------------------
(* The rectangles.                                                         *)
Rect(x, y, w, h) == [x |-> x, y |-> y, width |-> w, height |-> h]
Nowhere == Rect(0, 0, 0, 0)
Top == ToolbarH + AuthorityH
PaneHeight(l) ==
  LET whole == Saturated(l.height - (Top + StatusH + BottomHeaderH))
  IN  IF l.bottom THEN Saturated(whole - l.body) ELSE whole

RectToolbar(l) == Rect(0, 0, l.width, ToolbarH)
RectAuthority(l) == Rect(0, ToolbarH, l.width, AuthorityH)
RectLeftStripe(l) == Rect(0, Top, StripeWidth(l.width), PaneHeight(l))
RectPrimary(l) ==
  IF l.primary THEN Rect(StripeWidth(l.width), Top, l.left, PaneHeight(l)) ELSE Nowhere
RectEditor(l) ==
  LET x == StripeWidth(l.width) + (IF l.primary THEN l.left ELSE 0)
      right == StripeWidth(l.width) + (IF l.context THEN l.right ELSE 0)
  IN  Rect(x, Top, AtLeast(Saturated(l.width - x - right), MinEditorW), PaneHeight(l))
RectRightStripe(l) ==
  Rect(l.width - StripeWidth(l.width), Top, StripeWidth(l.width), PaneHeight(l))
RectContext(l) ==
  IF l.context
  THEN Rect(Saturated(l.width - (StripeWidth(l.width) + l.right)), Top, l.right, PaneHeight(l))
  ELSE Nowhere
RectBottom(l) ==
  IF l.bottom
  THEN Rect(StripeWidth(l.width), Saturated(l.height - (StatusH + l.body)), Columns(l), l.body)
  ELSE Nowhere
RectStatus(l) == Rect(0, l.height - StatusH, l.width, StatusH)

Rects(l) == {RectToolbar(l), RectAuthority(l), RectLeftStripe(l), RectPrimary(l),
  RectEditor(l), RectRightStripe(l), RectContext(l), RectBottom(l), RectStatus(l)}

-----------------------------------------------------------------------------
LayoutInit == layout = FirstRun
Resize == \E s \in Screens : layout' = Resized(layout, s[1], s[2])
TogglePane == \E pane \in {"primary", "context", "bottom"} : layout' = Toggled(layout, pane)
DragSeparator == \E pane \in {"primary", "context", "bottom"}, d \in Drags \cup {-d : d \in Drags} :
  layout' = Dragged(layout, pane, d)
LayoutNext == Resize \/ TogglePane \/ DragSeparator
LayoutSpec == LayoutInit /\ [][LayoutNext]_layout

-----------------------------------------------------------------------------
LayoutTypeOK ==
  layout \in [width : Nat, height : Nat, primary : BOOLEAN, context : BOOLEAN,
              bottom : BOOLEAN, left : Nat, right : Nat, body : Nat]

Within(r, l) == r.x + r.width <= l.width /\ r.y + r.height <= l.height
Apart(r, s) ==
  \/ r.x + r.width <= s.x \/ s.x + s.width <= r.x
  \/ r.y + r.height <= s.y \/ s.y + s.height <= r.y

(* Whatever is resized, opened or dragged, in any order: every rectangle   *)
(* is on the screen, no two overlap, so a click hits what is drawn, and    *)
(* the editor keeps its 40 columns and three rows.                         *)
PanesFit ==
  /\ \A r \in Rects(layout) : Within(r, layout)
  /\ \A r, s \in Rects(layout) : r # s => Apart(r, s)
  /\ RectEditor(layout).width >= MinEditorW
  /\ RectEditor(layout).height >= 3
=============================================================================
