-------------------------- MODULE WorkbenchProofs ---------------------------
(***************************************************************************)
(* The parts of the workbench, for any screens, authorities, launches and  *)
(* texts: first the layout alone, then the terminal pane in it, then the   *)
(* highlighting and the editor.                                            *)
(***************************************************************************)
EXTENDS Workbench, TerminalPaneProofs, TextProofs

-----------------------------------------------------------------------------
(* PanesFit for every screen and every drag.  The invariant is that the    *)
(* visible side panes leave the editor its 40 columns and that the body of *)
(* the bottom pane leaves four rows of the main area; recompute brings it  *)
(* about from any sizes at all, because the second pane is fitted into     *)
(* what the first one has left.                                            *)
LayoutType ==
  [width : Nat, height : Nat, primary : BOOLEAN, context : BOOLEAN,
   bottom : BOOLEAN, left : Nat, right : Nat, body : Nat]

(* What is visible of the side panes.                                      *)
VisibleLeft(l) == IF l.primary THEN l.left ELSE 0
VisibleRight(l) == IF l.context THEN l.right ELSE 0

Large(l) == l.width >= 60 /\ l.height >= 20
Fits(l) ==
  /\ Large(l)
  /\ Columns(l) - VisibleLeft(l) - VisibleRight(l) >= MinEditorW
  /\ l.body + 8 <= l.height

LayoutInv == layout \in LayoutType /\ Fits(layout)

USE DEF LayoutType, ToolbarH, AuthorityH, StatusH, BottomHeaderH, MinEditorW

(* The stripes leave 54 columns of the narrowest screen.                   *)
LEMMA ColumnsSuffice ==
  ASSUME NEW l \in LayoutType, Large(l)
  PROVE  /\ Columns(l) \in Nat /\ Columns(l) >= 54
         /\ StripeWidth(l.width) \in Nat /\ Columns(l) + 2 * StripeWidth(l.width) = l.width
BY DEF Large, Columns, StripeWidth

(* Fitted one after the other, the side panes leave room for the editor.   *)
LEMMA ShrunkFits ==
  ASSUME NEW l \in LayoutType, Large(l)
  PROVE  LET s == Shrunk(l) IN
         /\ s \in LayoutType
         /\ s.width = l.width /\ s.height = l.height /\ s.bottom = l.bottom
         /\ s.primary = l.primary /\ s.context = l.context /\ s.body = l.body
         /\ ~IsShort(s)
         /\ Columns(s) - s.left - s.right >= MinEditorW
<1> DEFINE R == IF l.context THEN AtMost(l.right, Saturated(Columns(l) - MinEditorW)) ELSE 0
           L == IF l.primary THEN AtMost(l.left, Saturated(Columns(l) - R - MinEditorW)) ELSE 0
<1>1. R \in Nat /\ R <= Columns(l) - 40
  BY ColumnsSuffice DEF AtMost, AtLeast, Saturated
<1>2. L \in Nat /\ L <= Columns(l) - R - 40
  <2> HIDE DEF R
  <2> QED BY <1>1, ColumnsSuffice DEF AtMost, AtLeast, Saturated
<1>3. Shrunk(l) = [l EXCEPT !.right = R, !.left = L]
  BY DEF Shrunk
<1> HIDE DEF R, L
<1>4. /\ Shrunk(l) \in LayoutType /\ Shrunk(l).right = R /\ Shrunk(l).left = L
      /\ Shrunk(l).width = l.width /\ Shrunk(l).height = l.height
      /\ Shrunk(l).bottom = l.bottom /\ Shrunk(l).body = l.body
      /\ Shrunk(l).primary = l.primary /\ Shrunk(l).context = l.context
  BY <1>1, <1>2, <1>3
<1>5. Columns(Shrunk(l)) = Columns(l)
  BY <1>4 DEF Columns
<1>6. QED
  BY <1>1, <1>2, <1>4, <1>5, ColumnsSuffice DEF IsShort

(* The branches of recompute that close a pane are never taken.            *)
LEMMA RecomputeFits ==
  ASSUME NEW l \in LayoutType, Large(l)
  PROVE  /\ Recompute(l) \in LayoutType /\ Fits(Recompute(l))
         /\ Recompute(l).bottom = l.bottom
<1> DEFINE s == Shrunk(l)
<1>1. WithoutContext(s) = s
  BY ShrunkFits DEF WithoutContext
<1>2. WithoutPrimary(s) = s
  BY ShrunkFits DEF WithoutPrimary
<1>3. Recompute(l) = [s EXCEPT !.body = BodyHeight(s)]
  BY <1>1, <1>2 DEF Recompute
<1>4. /\ s \in LayoutType /\ Large(s) /\ s.bottom = l.bottom
      /\ Columns(s) - s.left - s.right >= MinEditorW
  BY ShrunkFits DEF Large
<1> HIDE DEF s
<1>5. BodyHeight(s) \in Nat /\ BodyHeight(s) + 8 <= s.height
  BY <1>4 DEF BodyHeight, MainH, AtMost, AtLeast, Saturated, Large
<1> DEFINE b == BodyHeight(s)
           r == [s EXCEPT !.body = b]
<1> HIDE DEF b
<1>6. /\ r \in LayoutType /\ r.bottom = s.bottom /\ r.width = s.width /\ r.height = s.height /\ r.body = b
      /\ r.left = s.left /\ r.right = s.right
      /\ r.primary = s.primary /\ r.context = s.context
  BY <1>4, <1>5 DEF b
<1>7. Columns(r) = Columns(s)
  BY <1>6 DEF Columns
<1>8. Large(r) /\ r.body + 8 <= r.height
  BY <1>4, <1>5, <1>6 DEF Large, b
<1>9. Columns(r) - VisibleLeft(r) - VisibleRight(r) >= MinEditorW
  <2>1. Columns(s) \in Nat
    BY <1>4, ColumnsSuffice
  <2> HIDE DEF r
  <2> QED BY <1>4, <1>6, <1>7, <2>1 DEF VisibleLeft, VisibleRight
<1>10. QED
  BY <1>3, <1>4, <1>6, <1>8, <1>9 DEF Fits, b

-----------------------------------------------------------------------------
(* Every operation keeps the invariant.                                    *)
LEMMA InitFits == LayoutInit => LayoutInv
BY DEF LayoutInit, FirstRun, LayoutInv, Fits, Large, Columns, StripeWidth,
       VisibleLeft, VisibleRight

LEMMA ResizeFits == LayoutInv /\ Resize => LayoutInv' /\ layout'.bottom = layout.bottom
<1> SUFFICES ASSUME LayoutInv, Resize
             PROVE  LayoutInv' /\ layout'.bottom = layout.bottom
  OBVIOUS
<1>1. PICK s \in Screens : layout' = Resized(layout, s[1], s[2])
  BY DEF Resize
<1> DEFINE w == AtLeast(s[1], 60)
           h == AtLeast(s[2], 20)
           sized == [layout EXCEPT !.width = w, !.height = h]
<1>2. w \in Nat /\ h \in Nat /\ w >= 60 /\ h >= 20
  <2>1. s[1] \in Nat /\ s[2] \in Nat
    BY LayoutAssumption
  <2>2. QED
    BY <2>1 DEF AtLeast
<1>4. layout' = Recompute(sized)
  BY <1>1 DEF Resized
<1> HIDE DEF w, h
<1>3. sized \in LayoutType /\ Large(sized) /\ sized.bottom = layout.bottom
  BY <1>2 DEF LayoutInv, Large
<1> HIDE DEF sized
<1>5. QED
  BY <1>3, <1>4, RecomputeFits DEF LayoutInv

LEMMA ToggleFits == LayoutInv /\ TogglePane => LayoutInv'
<1> SUFFICES ASSUME LayoutInv, TogglePane PROVE LayoutInv'
  OBVIOUS
<1>1. PICK which \in {"primary", "context", "bottom"} : layout' = Toggled(layout, which)
  BY DEF TogglePane
<1>2. \E l \in LayoutType : Large(l) /\ layout' = Recompute(l)
  <2>1. CASE which = "primary"
    <3> DEFINE shown == [layout EXCEPT !.primary = ~@]
               wide == [shown EXCEPT !.left = 28]
    <3>1. shown \in LayoutType /\ wide \in LayoutType /\ Large(shown) /\ Large(wide)
      BY DEF LayoutInv, Fits, Large
    <3>2. layout' \in {Recompute(shown), Recompute(wide)}
      BY <1>1, <2>1 DEF Toggled
    <3> QED BY <3>1, <3>2
  <2>2. CASE which = "context"
    <3> DEFINE shown == [layout EXCEPT !.context = ~@]
               wide == [shown EXCEPT !.right = 24]
    <3>1. shown \in LayoutType /\ wide \in LayoutType /\ Large(shown) /\ Large(wide)
      BY DEF LayoutInv, Fits, Large
    <3>2. layout' \in {Recompute(shown), Recompute(wide)}
      BY <1>1, <2>2 DEF Toggled
    <3> QED BY <3>1, <3>2
  <2>3. CASE which = "bottom"
    <3> DEFINE shown == [layout EXCEPT !.bottom = ~@]
               high == [shown EXCEPT !.body = 10]
    <3>1. shown \in LayoutType /\ high \in LayoutType /\ Large(shown) /\ Large(high)
      BY DEF LayoutInv, Fits, Large
    <3>2. layout' \in {Recompute(shown), Recompute(high)}
      BY <1>1, <2>3 DEF Toggled
    <3> QED BY <3>1, <3>2
  <2>4. QED
    BY <1>1, <2>1, <2>2, <2>3
<1>3. QED
  BY <1>2, RecomputeFits DEF LayoutInv

LEMMA DragFits == LayoutInv /\ DragSeparator => LayoutInv'
<1> SUFFICES ASSUME LayoutInv, DragSeparator PROVE LayoutInv'
  OBVIOUS
<1>1. PICK which \in {"primary", "context", "bottom"}, d \in Drags \cup {-e : e \in Drags} :
        layout' = Dragged(layout, which, d)
  BY DEF DragSeparator
<1>2. d \in Int
  BY LayoutAssumption
<1> DEFINE left == [layout EXCEPT !.left = AtLeast(@ + d, 4)]
           right == [layout EXCEPT !.right = AtLeast(@ - d, 4)]
           body == [layout EXCEPT !.body = AtLeast(@ - d, 4)]
<1>3. left \in LayoutType /\ right \in LayoutType /\ body \in LayoutType
  BY <1>2 DEF LayoutInv, AtLeast
<1>4. Large(layout) /\ Large(left) /\ Large(right) /\ Large(body)
  BY DEF LayoutInv, Fits, Large
<1>5. layout' \in {Recompute(layout), Recompute(left), Recompute(right), Recompute(body)}
  BY <1>1 DEF Dragged
<1> HIDE DEF left, right, body
<1>6. QED
  BY <1>3, <1>4, <1>5, RecomputeFits DEF LayoutInv

LEMMA LayoutStep == LayoutInv /\ [LayoutNext]_layout => LayoutInv'
BY ResizeFits, ToggleFits, DragFits DEF LayoutNext, LayoutInv

-----------------------------------------------------------------------------
(* A layout that fits has no overlapping rectangles: the middle row is cut *)
(* at columns that ascend, and everything else at rows that do.            *)
LEMMA FitsApart == LayoutInv => PanesFit
<1> SUFFICES ASSUME LayoutInv PROVE PanesFit
  OBVIOUS
<1> DEFINE W == layout.width
           H == layout.height
           S == StripeWidth(W)
           C == Columns(layout)
           L == VisibleLeft(layout)
           R == VisibleRight(layout)
           P == PaneHeight(layout)
           B == IF layout.bottom THEN layout.body ELSE 0
<1>1. /\ W \in Nat /\ H \in Nat /\ S \in Nat /\ C \in Nat /\ L \in Nat /\ R \in Nat
      /\ B \in Nat /\ H >= 20 /\ W >= 60
      /\ C + 2 * S = W /\ S >= 3 /\ C - L - R >= 40 /\ B + 8 <= H
  BY ColumnsSuffice DEF LayoutInv, Fits, VisibleLeft, VisibleRight, Large, StripeWidth
<1>2. P = H - 5 - B
  BY <1>1 DEF PaneHeight, Top, Saturated, AtLeast, LayoutInv
<1> HIDE DEF W, H, S, C, L, R, P, B
<1>3. RectToolbar(layout) = Rect(0, 0, W, 1) /\ RectAuthority(layout) = Rect(0, 1, W, 2)
      /\ RectStatus(layout) = Rect(0, H - 1, W, 1)
  BY DEF RectToolbar, RectAuthority, RectStatus, W, H
<1>4. RectLeftStripe(layout) = Rect(0, 3, S, P) /\ RectRightStripe(layout) = Rect(W - S, 3, S, P)
  BY DEF RectLeftStripe, RectRightStripe, S, P, W, Top
<1>5. RectPrimary(layout) \in {Nowhere, Rect(S, 3, L, P)}
  BY DEF RectPrimary, VisibleLeft, S, P, L, W, Top
<1>6. RectContext(layout) \in {Nowhere, Rect(W - S - R, 3, R, P)}
  BY <1>1 DEF RectContext, VisibleRight, S, P, R, W, Top, Saturated, AtLeast
<1>7. RectEditor(layout) = Rect(S + L, 3, C - L - R, P)
  <2>1. RectEditor(layout) = Rect(S + L, 3, AtLeast(Saturated(W - (S + L) - (S + R)), 40), P)
    BY DEF RectEditor, VisibleLeft, VisibleRight, S, P, L, R, W, Top
  <2> QED BY <2>1, <1>1 DEF Saturated, AtLeast
<1>8. RectBottom(layout) \in {Nowhere, Rect(S, H - 1 - B, C, B)}
  BY <1>1 DEF RectBottom, S, B, C, H, W, Saturated, AtLeast
<1> DEFINE Rows == {Nowhere, Rect(0, 0, W, 1), Rect(0, 1, W, 2), Rect(0, H - 1, W, 1),
                    Rect(S, H - 1 - B, C, B)}
           Middle == {Rect(0, 3, S, P), Rect(S, 3, L, P), Rect(S + L, 3, C - L - R, P),
                      Rect(W - S - R, 3, R, P), Rect(W - S, 3, S, P)}
<1>9. Rects(layout) \subseteq Rows \cup Middle
  BY <1>3, <1>4, <1>5, <1>6, <1>7, <1>8 DEF Rects
<1>10. \A r \in Rows \cup Middle : Within(r, layout)
  BY <1>1, <1>2 DEF Within, Rect, Nowhere, W, H
<1>11. \A r, s \in Rows : r # s => Apart(r, s)
  BY <1>1 DEF Apart, Rect, Nowhere
<1>12. \A r \in Rows, s \in Middle : Apart(r, s) /\ Apart(s, r)
  BY <1>1, <1>2 DEF Apart, Rect, Nowhere
<1>13. \A r, s \in Middle : r # s => Apart(r, s)
  BY <1>1, <1>2 DEF Apart, Rect
<1>14. RectEditor(layout).width >= MinEditorW /\ RectEditor(layout).height >= 3
  BY <1>1, <1>2, <1>7 DEF Rect
<1>15. QED
  <2> HIDE DEF Rows, Middle
  <2> QED BY <1>9, <1>10, <1>11, <1>12, <1>13, <1>14 DEF PanesFit

(* Every variable of the layout keeps its type.                            *)
THEOREM LayoutTypeCorrect == LayoutSpec => []LayoutTypeOK
<1>1. LayoutInv => LayoutTypeOK
  BY DEF LayoutInv, LayoutTypeOK
<1>2. QED
  BY InitFits, LayoutStep, <1>1, PTL DEF LayoutSpec

(* On any screen, however panes are opened, closed and dragged, rectangles *)
(* are on the screen, do not overlap and leave the editor its room.        *)
THEOREM PanesAlwaysFit == LayoutSpec => []PanesFit
BY InitFits, LayoutStep, FitsApart, PTL DEF LayoutSpec

-----------------------------------------------------------------------------
(* What TerminalPaneProofs shows of the pane holds in the layout, and with *)
(* the books of sizes a shell has the size of its pane: a shell that is    *)
(* wanted or shown is so in an open body, so that OpenTerminal never opens *)
(* the body under one.                                                     *)
SizeBooks ==
  /\ size = [l \in Launches |-> size[l]]
  /\ starting \/ terminal # 0 => part = "pane" /\ layout.bottom

USE DEF Launches

WorkbenchInv == LayoutInv /\ PaneInv /\ SizeBooks /\ ShellFitsPane

(* Only OpenTerminal makes the pane want a shell.                          *)
Others == OtherUserActs \/ LoopActs \/ Resolve \/ SessionEnds \/ LinkChanges
LEMMA OthersWantNothing ==
  ASSUME PaneInv, Others
  PROVE  PaneNext /\ (starting' = starting \/ starting' = FALSE)
<1>1. PaneNext
  BY DEF Others, OtherUserActs, PaneNext, UserActs
<1>2. CASE TerminalInput \/ ReleaseTerminalCapture \/ GrantTrust
  BY <1>1, <1>2 DEF TerminalInput, ReleaseTerminalCapture, GrantTrust, pane
<1>3. CASE FocusLandmark
  <2>1. starting' = starting
    BY <1>3 DEF FocusLandmark
  <2>2. QED
    BY <1>1, <2>1
<1>4. CASE CloseTerminal \/ CycleAuthority \/ SelectSshAuthority \/ RevokeTrust
  BY <1>1, <1>4 DEF CloseTerminal, CycleAuthority, SelectSshAuthority, RevokeTrust, Unwanted
<1>5. CASE Resolve \/ SessionEnds \/ LinkChanges \/ DispatchTerminal
  BY <1>1, <1>5 DEF Resolve, SessionEnds, LinkChanges, DispatchTerminal, pane
<1>6. CASE DrainTerminal
  BY <1>1, <1>6 DEF DrainTerminal, AttachTerminal, FailTerminalStart
<1>7. QED
  BY <1>1, <1>2, <1>3, <1>4, <1>5, <1>6 DEF Others, OtherUserActs, LoopActs

(* A shell comes into the pane only when one is wanted.                    *)
LEMMA ComesWhenWanted ==
  ASSUME PaneInv, PaneNext
  PROVE  terminal' # 0 => terminal' = terminal \/ starting
<1>1. CASE OpenTerminal
  BY <1>1 DEF OpenTerminal, LetGo
<1>2. CASE TerminalInput \/ ReleaseTerminalCapture \/ GrantTrust
  BY <1>2 DEF TerminalInput, ReleaseTerminalCapture, GrantTrust, LetGo, pane
<1>3. CASE FocusLandmark
  <2>1. terminal' = terminal
    BY <1>3 DEF FocusLandmark
  <2>2. QED
    BY <2>1
<1>4. CASE CloseTerminal \/ CycleAuthority \/ SelectSshAuthority \/ RevokeTrust
  BY <1>4 DEF CloseTerminal, CycleAuthority, SelectSshAuthority, RevokeTrust, LetGo
<1>5. CASE Resolve \/ SessionEnds \/ LinkChanges \/ DispatchTerminal
  BY <1>5 DEF Resolve, SessionEnds, LinkChanges, DispatchTerminal, pane
<1>6. CASE DrainTerminal
  BY <1>6 DEF DrainTerminal, AttachTerminal, FailTerminalStart, IsWanted
<1>7. QED
  BY <1>1, <1>2, <1>3, <1>4, <1>5, <1>6 DEF PaneNext, UserActs, LoopActs

LEMMA WorkbenchInitInv == WorkbenchInit => WorkbenchInv
<1> SUFFICES ASSUME WorkbenchInit PROVE WorkbenchInv
  OBVIOUS
<1>1. LayoutInv /\ PaneInv
  BY InitFits, PaneInitInv DEF WorkbenchInit
<1>2. ~starting /\ terminal = 0
  BY DEF WorkbenchInit, PaneInit
<1>3. SizeBooks /\ ShellFitsPane
  BY <1>2 DEF WorkbenchInit, SizeBooks, ShellFitsPane
<1>4. QED
  BY <1>1, <1>3 DEF WorkbenchInv

(* A step of the pane with the sizes that go with it, in a body that stays *)
(* or is opened.                                                           *)
LEMMA PaneStepFits ==
  ASSUME WorkbenchInv, PaneNext, Sizes, part = "pane", part' = part,
         \/ UNCHANGED layout /\ (starting' = starting \/ starting' = FALSE)
         \/ layout' = [layout EXCEPT !.bottom = TRUE]
  PROVE  WorkbenchInv'
<1>1. PaneInv'
  BY PaneStep DEF WorkbenchInv
<1>2. layout \in LayoutType
  BY DEF WorkbenchInv, LayoutInv
<1>3. LayoutInv'
  <2>1. CASE UNCHANGED layout
    BY <2>1 DEF WorkbenchInv, LayoutInv
  <2>2. CASE layout' = [layout EXCEPT !.bottom = TRUE]
    <3>1. layout' \in LayoutType
      BY <1>2, <2>2
    <3>2. /\ layout'.width = layout.width /\ layout'.height = layout.height
          /\ layout'.primary = layout.primary /\ layout'.context = layout.context
          /\ layout'.left = layout.left /\ layout'.right = layout.right
          /\ layout'.body = layout.body
      BY <1>2, <2>2
    <3>3. Fits(layout)
      BY DEF WorkbenchInv, LayoutInv
    <3>4. Fits(layout')
      BY <3>2, <3>3 DEF Fits, Large, Columns, VisibleLeft, VisibleRight
    <3>5. QED
      BY <3>1, <3>4 DEF LayoutInv
  <2>3. QED
    BY <2>1, <2>2
<1>4. (starting \/ terminal # 0) => layout' = layout
  BY <1>2 DEF WorkbenchInv, SizeBooks
<1>5. SizeBooks'
  <2>1. size' = [l \in Launches |-> size'[l]]
    BY DEF Sizes
  <2>2. starting' \/ terminal' # 0 => layout'.bottom
    BY <1>2, <1>4, ComesWhenWanted DEF WorkbenchInv, SizeBooks
  <2>3. QED
    BY <2>1, <2>2 DEF SizeBooks
<1>6. ShellFitsPane'
  <2>1. SUFFICES ASSUME terminal' # 0, ~missed' PROVE size'[terminal'] = BodySize'
    BY DEF ShellFitsPane
  <2>2. terminal' \in Launches
    BY <1>1, <2>1 DEF PaneInv, PaneTypeOK
  <2>3. CASE Attached(terminal')
    BY <2>2, <2>3 DEF Sizes
  <2>4. CASE ~Attached(terminal')
    <3>1. terminal' = terminal
      BY <2>4 DEF Attached
    <3>2. layout' = layout
      BY <1>4, <2>1, <3>1
    <3>3. BodySize' = BodySize
      BY <3>2 DEF BodySize
    <3>4. size[terminal] = BodySize
      BY <2>1, <3>1 DEF WorkbenchInv, ShellFitsPane, Sizes
    <3>5. QED
      BY <2>2, <3>1, <3>3, <3>4 DEF Sizes
  <2>5. QED
    BY <2>3, <2>4
<1>7. QED
  BY <1>1, <1>3, <1>5, <1>6 DEF WorkbenchInv

-----------------------------------------------------------------------------
LEMMA InPaneInv ==
  ASSUME WorkbenchInv, NEW ACTION A,
         A => OpenBody \/ LeaveBody(Others) \/ TerminalResize,
         InPane(A)
  PROVE  WorkbenchInv'
<1>0. part = "pane" /\ part' = part
  BY DEF InPane
<1>1. CASE OpenBody
  BY <1>0, <1>1, PaneStepFits DEF OpenBody, PaneNext, UserActs
<1>2. CASE LeaveBody(Others)
  <2>1. Others /\ UNCHANGED layout /\ Sizes
    BY <1>2 DEF LeaveBody
  <2>2. QED
    BY <1>0, <2>1, PaneStepFits, OthersWantNothing DEF WorkbenchInv
<1>3. CASE TerminalResize
  <2>1. PaneInv' /\ LayoutInv' /\ layout'.bottom = layout.bottom
    <3>1. UNCHANGED paneVars
      BY <1>3 DEF TerminalResize
    <3>2. QED
      BY <1>3, <3>1, PaneStep, ResizeFits DEF TerminalResize, WorkbenchInv
  <2>2. terminal' = terminal /\ starting' = starting
    BY <1>3 DEF TerminalResize, paneVars, pane
  <2>3. CASE size' = size /\ missed' = (terminal # 0)
    BY <1>0, <2>1, <2>2, <2>3 DEF WorkbenchInv, SizeBooks, ShellFitsPane
  <2>4. CASE terminal # 0 /\ size' = [size EXCEPT ![terminal] = BodySize']
    <3>1. terminal \in Launches
      BY <2>4 DEF WorkbenchInv, PaneInv, PaneTypeOK
    <3>2. size'[terminal] = BodySize' /\ size' = [l \in Launches |-> size'[l]]
      BY <2>4, <3>1 DEF WorkbenchInv, SizeBooks
    <3>3. QED
      BY <1>0, <2>1, <2>2, <3>2 DEF WorkbenchInv, SizeBooks, ShellFitsPane
  <2>5. QED
    BY <1>3, <2>3, <2>4 DEF TerminalResize
<1>4. QED
  BY <1>1, <1>2, <1>3 DEF InPane

LEMMA WorkbenchStep == WorkbenchInv /\ [WorkbenchNext]_workbench => WorkbenchInv'
<1> SUFFICES ASSUME WorkbenchInv, [WorkbenchNext]_workbench PROVE WorkbenchInv'
  OBVIOUS
<1>1. CASE UNCHANGED <<part, paneVars, layout, size, missed>>
  <2>1. PaneInv' /\ LayoutInv'
    BY <1>1, PaneStep, LayoutStep DEF WorkbenchInv
  <2>2. /\ part' = part /\ layout' = layout /\ size' = size /\ missed' = missed
        /\ terminal' = terminal /\ starting' = starting
    BY <1>1 DEF paneVars, pane
  <2>3. QED
    BY <2>1, <2>2 DEF WorkbenchInv, SizeBooks, ShellFitsPane, BodySize
<1>2. CASE UNCHANGED workbench \/ InEditor(EditorNext) \/ InSyntax(SyntaxNext)
  BY <1>1, <1>2 DEF workbench, InEditor, InSyntax
<1>3. CASE InLayout(LayoutNext)
  <2>1. PaneInv' /\ LayoutInv'
    BY <1>3, PaneStep, LayoutStep DEF InLayout, WorkbenchInv
  <2>2. /\ part' = part /\ size' = size /\ part = "layout"
        /\ terminal' = terminal /\ starting' = starting
    BY <1>3 DEF InLayout, paneVars, pane
  <2>3. terminal = 0 /\ ~starting
    BY <2>2 DEF WorkbenchInv, SizeBooks
  <2>4. QED
    BY <2>1, <2>2, <2>3 DEF WorkbenchInv, SizeBooks, ShellFitsPane
<1>4. CASE InPane(OpenBody)
  BY <1>4, InPaneInv
<1>5. CASE InPane(TerminalResize)
  BY <1>5, InPaneInv
<1>6. CASE InPane(LeaveBody(OtherUserActs))
  BY <1>6, InPaneInv DEF LeaveBody, Others
<1>7. CASE InPane(LeaveBody(LoopActs))
  BY <1>7, InPaneInv DEF LeaveBody, Others
<1>8. CASE InPane(LeaveBody(Resolve))
  BY <1>8, InPaneInv DEF LeaveBody, Others
<1>9. CASE InPane(LeaveBody(SessionEnds))
  BY <1>9, InPaneInv DEF LeaveBody, Others
<1>10. CASE InPane(LeaveBody(LinkChanges))
  BY <1>10, InPaneInv DEF LeaveBody, Others
<1>11. QED
  BY <1>2, <1>3, <1>4, <1>5, <1>6, <1>7, <1>8, <1>9, <1>10 DEF WorkbenchNext

(* A shell has the size of the pane it is shown in unless it refused the   *)
(* last resize: one is wanted only in a body that is open, an attached one *)
(* took the size of now, and only a resize changes the body of a shell.    *)
THEOREM ShellAlwaysFits == WorkbenchSpec => []ShellFitsPane
<1>1. WorkbenchInv => ShellFitsPane
  BY DEF WorkbenchInv
<1>2. QED
  BY WorkbenchInitInv, WorkbenchStep, <1>1, PTL DEF WorkbenchSpec

(* What the pane and the layout promise alone they promise together.       *)
THEOREM WorkbenchIsSafe == WorkbenchSpec => [](PanesFit /\ PaneIsTrusted /\ NoStraySession)
<1>1. WorkbenchInv => PanesFit /\ PaneIsTrusted /\ NoStraySession
  BY FitsApart DEF WorkbenchInv, PaneInv
<1>2. QED
  BY WorkbenchInitInv, WorkbenchStep, <1>1, PTL DEF WorkbenchSpec

-----------------------------------------------------------------------------
(* The highlighting.  The marker of the loop is that of the one piece of   *)
(* work there is, a request or its result, and both hold the text the      *)
(* document had at the revision they name: of an older revision the buffer *)
(* may hold anything by now, of this one it holds that text.               *)
Faithful(r, t) ==
  /\ r.doc \in Docs /\ r.revision \in 0..revision[r.doc]
  /\ t \in Sources /\ (r.revision = revision[r.doc] => t = source[r.doc])

Requested == results = <<>> /\ \E r \in jobs :
  jobs = {r} /\ OnResult(r) /\ Faithful(r, r.new)
Answered == jobs = {} /\ \E r :
  /\ results = <<r>> /\ OnResult(r)
  /\ Faithful(r, r.source) /\ r.spans \in {Nothing, Of(r.source)}
Idle == inFlight = NoJob /\ jobs = {} /\ results = <<>>
OneInHand == Idle \/ Requested \/ Answered

BuffersOK ==
  /\ document \in Docs
  /\ source \in [Docs -> Sources]
  /\ revision \in [Docs -> 0..MaxRevision]

HighlightsFit == \A d \in Docs :
  /\ highlights[d].revision \in -1..revision[d]
  /\ SyntaxIsCurrent(d) => highlights[d].spans \in {Nothing, Of(source[d])}

RetainedFit ==
  /\ retained = [d \in Docs |-> retained[d]]
  /\ \A d \in Docs : retained[d].source \in Sources \cup {<<>>}

SyntaxInv ==
  /\ BuffersOK /\ OneInHand /\ HighlightsFit /\ RetainedFit
  /\ highlights = [d \in Docs |-> highlights[d]]

LEMMA SyntaxInitInv == SyntaxInit => SyntaxInv
<1> SUFFICES ASSUME SyntaxInit PROVE SyntaxInv
  OBVIOUS
<1>1. BuffersOK /\ Idle
  BY SyntaxAssumption DEF SyntaxInit, BuffersOK, Idle
<1>2. \A d \in Docs : highlights[d].revision = -1 /\ revision[d] = 0
  BY DEF SyntaxInit
<1>3. HighlightsFit
  BY <1>2 DEF HighlightsFit, SyntaxIsCurrent
<1>4. RetainedFit
  BY DEF SyntaxInit, RetainedFit
<1>5. QED
  BY <1>1, <1>3, <1>4 DEF SyntaxInit, SyntaxInv, OneInHand

(* A loop that has nothing in hand takes the text of now to work on.       *)
LEMMA DispatchInHand ==
  ASSUME BuffersOK, UNCHANGED <<source, revision>>, jobs = {}, results' = <<>>,
         Dispatch(TRUE)
  PROVE  OneInHand'
<1>0. PICK request : request = [doc |-> document, revision |-> revision[document],
                                new |-> source[document], old |-> retained'[document]]
  OBVIOUS
<1>1. CASE highlights'[document].revision # revision[document]
  <2>1. jobs' = {request} /\ inFlight' = <<document, revision[document]>>
    BY <1>0, <1>1 DEF Dispatch
  <2>2. OnResult(request)'
    BY <1>0, <2>1 DEF OnResult
  <2>3. Faithful(request, request.new)'
    BY <1>0 DEF Faithful, BuffersOK
  <2>4. QED
    BY <2>1, <2>2, <2>3 DEF OneInHand, Requested
<1>2. CASE highlights'[document].revision = revision[document]
  BY <1>2 DEF Dispatch, OneInHand, Idle
<1>3. QED
  BY <1>1, <1>2

(* What is in hand stays so as long as the buffers do.                     *)
LEMMA InHandStays ==
  ASSUME OneInHand, UNCHANGED <<source, revision, inFlight, jobs, results>>
  PROVE  OneInHand'
BY DEF OneInHand, Idle, Requested, Answered, OnResult, Faithful

LEMMA SyntaxTick == ASSUME SyntaxInv, TickSyntax PROVE SyntaxInv'
<1>1. /\ BuffersOK' /\ HighlightsFit' /\ RetainedFit'
      /\ highlights' = [d \in Docs |-> highlights'[d]]
  BY DEF SyntaxInv, TickSyntax, BuffersOK, HighlightsFit, RetainedFit, SyntaxIsCurrent
<1>2. OneInHand'
  <2>1. CASE inFlight = NoJob
    <3>1. Idle
      BY <2>1 DEF SyntaxInv, OneInHand, Idle, Requested, Answered, OnResult, NoJob
    <3>2. QED
      BY <2>1, <3>1, DispatchInHand DEF SyntaxInv, TickSyntax, Idle, Dispatch
  <2>2. CASE inFlight # NoJob
    BY <2>2, InHandStays DEF SyntaxInv, TickSyntax, Dispatch
  <2>3. QED
    BY <2>1, <2>2
<1>3. QED
  BY <1>1, <1>2 DEF SyntaxInv

LEMMA SyntaxCompute == ASSUME SyntaxInv, ComputeSyntax PROVE SyntaxInv'
<1>1. /\ BuffersOK' /\ HighlightsFit' /\ RetainedFit'
      /\ highlights' = [d \in Docs |-> highlights'[d]]
  BY DEF SyntaxInv, ComputeSyntax, BuffersOK, HighlightsFit, RetainedFit, SyntaxIsCurrent
<1>2. PICK request \in jobs : \E spans \in Spans(request) :
        /\ jobs' = jobs \ {request}
        /\ results' = IF Len(results) >= 4 THEN results ELSE
             Append(results, [doc |-> request.doc, revision |-> request.revision,
                              tree |-> Tree(request), spans |-> spans,
                              source |-> request.new])
  BY DEF ComputeSyntax
<1>3. PICK spans \in Spans(request) :
        results' = IF Len(results) >= 4 THEN results ELSE
             Append(results, [doc |-> request.doc, revision |-> request.revision,
                              tree |-> Tree(request), spans |-> spans,
                              source |-> request.new])
  BY <1>2
<1> DEFINE r == [doc |-> request.doc, revision |-> request.revision,
                 tree |-> Tree(request), spans |-> spans, source |-> request.new]
<1>4. /\ results = <<>> /\ jobs = {request}
      /\ OnResult(request) /\ Faithful(request, request.new)
  BY DEF SyntaxInv, OneInHand, Idle, Requested, Answered
<1>5. jobs' = {} /\ results' = <<r>>
  BY <1>2, <1>3, <1>4
<1>6. /\ r.doc = request.doc /\ r.revision = request.revision
      /\ r.source = request.new /\ r.spans = spans
  OBVIOUS
<1>7. r.spans \in {Nothing, Of(r.source)}
  BY <1>6 DEF Spans
<1>8. OnResult(r)' /\ Faithful(r, r.source)'
  BY <1>4, <1>6 DEF ComputeSyntax, OnResult, Faithful
<1>9. Answered'
  BY <1>5, <1>7, <1>8 DEF Answered
<1>10. QED
  BY <1>1, <1>9 DEF SyntaxInv, OneInHand

LEMMA SyntaxDrain == ASSUME SyntaxInv, DrainSyntax PROVE SyntaxInv'
<1>1. PICK r : /\ results = <<r>> /\ jobs = {} /\ OnResult(r)
               /\ Faithful(r, r.source) /\ r.spans \in {Nothing, Of(r.source)}
  BY DEF SyntaxInv, OneInHand, Idle, Requested, Answered, DrainSyntax
<1>2. Head(results) = r /\ results' = <<>> /\ UNCHANGED <<document, source, revision>>
  BY <1>1 DEF DrainSyntax
<1>3. OneInHand'
  <2>1. Dispatch(TRUE)
    BY <1>1, <1>2 DEF DrainSyntax, Dispatch
  <2>2. QED
    BY <1>1, <1>2, <2>1, DispatchInHand DEF SyntaxInv
<1>4. HighlightsFit' /\ highlights' = [d \in Docs |-> highlights'[d]]
  <2>1. ApplySyntaxResult(r)
    BY <1>2 DEF DrainSyntax
  <2>2. CASE r.revision # revision[r.doc]
    BY <1>2, <2>1, <2>2
    DEF ApplySyntaxResult, SyntaxInv, HighlightsFit, SyntaxIsCurrent
  <2>3. CASE r.revision = revision[r.doc]
    <3>1. highlights' = [highlights EXCEPT ![r.doc] =
                           [revision |-> r.revision, spans |-> r.spans]]
      BY <2>1, <2>3 DEF ApplySyntaxResult
    <3>2. r.doc \in Docs /\ r.source = source[r.doc] /\ r.revision \in Nat
      BY <1>1, <2>3 DEF Faithful
    <3>3. highlights' = [d \in Docs |-> highlights'[d]]
      BY <3>1 DEF SyntaxInv
    <3>4. ASSUME NEW d \in Docs
          PROVE  /\ highlights'[d].revision \in -1..revision'[d]
                 /\ SyntaxIsCurrent(d)' => highlights'[d].spans \in {Nothing, Of(source'[d])}
      <4>1. CASE d = r.doc
        <5>1. highlights'[d].revision = r.revision /\ highlights'[d].spans = r.spans
          BY <3>1, <4>1 DEF SyntaxInv
        <5>2. QED
          BY <1>1, <1>2, <2>3, <3>2, <4>1, <5>1
      <4>2. CASE d # r.doc
        <5>1. highlights'[d] = highlights[d]
          BY <3>1, <4>2 DEF SyntaxInv
        <5>2. QED
          BY <1>2, <5>1 DEF SyntaxInv, HighlightsFit, SyntaxIsCurrent
      <4>3. QED
        BY <4>1, <4>2
    <3>5. QED
      BY <3>3, <3>4 DEF HighlightsFit
  <2>4. QED
    BY <2>2, <2>3
<1>5. RetainedFit'
  <2>1. ApplySyntaxResult(r) /\ r.source \in Sources
    BY <1>1, <1>2 DEF DrainSyntax, Faithful
  <2>2. CASE UNCHANGED retained
    BY <2>2 DEF SyntaxInv, RetainedFit
  <2>3. CASE retained' = [retained EXCEPT ![r.doc] = [tree |-> r.tree, source |-> r.source]]
    <3>1. retained' = [d \in Docs |-> IF d = r.doc THEN [tree |-> r.tree, source |-> r.source]
                                      ELSE retained[d]]
      BY <2>3 DEF SyntaxInv, RetainedFit
    <3>2. \A d \in Docs : retained'[d].source \in {retained[d].source, r.source}
      BY <3>1
    <3>3. QED
      BY <2>1, <3>1, <3>2 DEF SyntaxInv, RetainedFit
  <2>4. QED
    BY <2>1, <2>2, <2>3 DEF ApplySyntaxResult
<1>6. QED
  BY <1>2, <1>3, <1>4, <1>5 DEF SyntaxInv, BuffersOK

(* An edit leaves whatever was computed a revision behind.                 *)
LEMMA SyntaxEdit == ASSUME SyntaxInv, EditDocument PROVE SyntaxInv'
<1>1. PICK t \in Sources : source' = [source EXCEPT ![document] = t]
  BY DEF EditDocument
<1>2. /\ revision' = [revision EXCEPT ![document] = @ + 1]
      /\ revision[document] < MaxRevision
      /\ UNCHANGED <<document, inFlight, jobs, results, highlights, retained>>
  BY DEF EditDocument
<1>3. document \in Docs /\ revision[document] \in 0..MaxRevision /\ MaxRevision \in Nat
  BY SyntaxAssumption DEF SyntaxInv, BuffersOK
<1>4. BuffersOK'
  BY <1>1, <1>2, <1>3 DEF SyntaxInv, BuffersOK
<1>5. \A d \in Docs :
        /\ d # document => revision'[d] = revision[d] /\ source'[d] = source[d]
        /\ d = document => revision'[d] = revision[d] + 1
        /\ revision[d] \in Nat
  BY <1>1, <1>2 DEF SyntaxInv, BuffersOK
<1>6. ASSUME NEW r, NEW new, Faithful(r, new) PROVE Faithful(r, new)'
  <2>1. CASE r.doc = document
    BY <1>5, <1>6, <2>1 DEF Faithful
  <2>2. CASE r.doc # document
    BY <1>5, <1>6, <2>2 DEF Faithful
  <2>3. QED
    BY <2>1, <2>2
<1>7. OneInHand'
  <2>1. CASE Idle
    BY <1>2, <2>1 DEF OneInHand, Idle
  <2>2. CASE Requested
    BY <1>2, <1>6, <2>2 DEF OneInHand, Requested, OnResult
  <2>3. CASE Answered
    BY <1>2, <1>6, <2>3 DEF OneInHand, Answered, OnResult
  <2>4. QED
    BY <2>1, <2>2, <2>3 DEF SyntaxInv, OneInHand
<1>8. HighlightsFit'
  <2>1. SUFFICES ASSUME NEW d \in Docs
                 PROVE  /\ highlights[d].revision \in -1..revision'[d]
                        /\ highlights[d].revision = revision'[d] =>
                             highlights[d].spans \in {Nothing, Of(source'[d])}
    BY <1>2 DEF HighlightsFit, SyntaxIsCurrent
  <2>2. highlights[d].revision \in -1..revision[d]
    BY DEF SyntaxInv, HighlightsFit
  <2>3. CASE d = document
    BY <1>5, <2>2, <2>3
  <2>4. CASE d # document
    BY <1>5, <2>2, <2>4 DEF SyntaxInv, HighlightsFit, SyntaxIsCurrent
  <2>5. QED
    BY <2>3, <2>4
<1>9. QED
  BY <1>2, <1>4, <1>7, <1>8 DEF SyntaxInv, RetainedFit

LEMMA SyntaxStep == SyntaxInv /\ [WorkbenchNext]_workbench => SyntaxInv'
<1> SUFFICES ASSUME SyntaxInv, [WorkbenchNext]_workbench PROVE SyntaxInv'
  OBVIOUS
<1>1. CASE UNCHANGED syntaxVars
  BY <1>1, InHandStays
  DEF syntaxVars, SyntaxInv, BuffersOK, HighlightsFit, RetainedFit, SyntaxIsCurrent
<1>2. CASE OpenDocument
  BY <1>2, InHandStays
  DEF OpenDocument, SyntaxInv, BuffersOK, HighlightsFit, RetainedFit, SyntaxIsCurrent
<1>3. CASE SyntaxNext
  BY <1>2, <1>3, SyntaxTick, SyntaxCompute, SyntaxDrain, SyntaxEdit DEF SyntaxNext
<1>4. QED
  BY <1>1, <1>3 DEF WorkbenchNext, workbench, InPane, InLayout, InEditor, InSyntax

(* The highlights shown were computed from the text shown, with any number *)
(* of documents, texts and edits.                                          *)
THEOREM HighlightsAreAlwaysOfText == WorkbenchSpec => []HighlightsAreOfText
<1>1. WorkbenchInit => SyntaxInv
  BY SyntaxInitInv DEF WorkbenchInit
<1>2. SyntaxInv => HighlightsAreOfText
  BY DEF SyntaxInv, HighlightsFit, HighlightsAreOfText, Shown
<1>3. QED
  BY <1>1, <1>2, SyntaxStep, PTL DEF WorkbenchSpec

(* The loop has one piece of work at a time, so that no result ever finds  *)
(* the channel full and is lost.                                           *)
THEOREM OneJobAtATime == WorkbenchSpec => []SyntaxTypeOK
<1>1. WorkbenchInit => SyntaxInv
  BY SyntaxInitInv DEF WorkbenchInit
<1>2. SyntaxInv => SyntaxTypeOK
  <2> SUFFICES ASSUME SyntaxInv PROVE SyntaxTypeOK
    OBVIOUS
  <2>1. Cardinality(jobs) + Len(results) <= 1
    <3>1. CASE Idle
      BY <3>1, FS_EmptySet DEF Idle
    <3>2. CASE Requested
      <4>1. PICK r \in jobs : jobs = {r}
        BY <3>2 DEF Requested
      <4>2. Cardinality(jobs) = 1
        BY <4>1, FS_Singleton
      <4>3. QED
        BY <3>2, <4>2 DEF Requested
    <3>3. CASE Answered
      BY <3>3, FS_EmptySet DEF Answered
    <3>4. QED
      BY <3>1, <3>2, <3>3 DEF SyntaxInv, OneInHand
  <2>2. QED
    BY <2>1 DEF SyntaxInv, BuffersOK, SyntaxTypeOK
<1>3. QED
  BY <1>1, <1>2, SyntaxStep, PTL DEF WorkbenchSpec

(* The tree a parse starts from was parsed from the text retained with it, *)
(* and the difference of that text and any other is one the tree can take. *)
THEOREM TreeIsAlwaysOfSource == WorkbenchSpec => []TreeIsOfSource
<1>1. WorkbenchInit => SyntaxInv
  BY SyntaxInitInv DEF WorkbenchInit
<1>2. SyntaxInv => TreeIsOfSource
  <2> SUFFICES ASSUME SyntaxInv, NEW d \in Docs, NEW t \in Sources
               PROVE  Leads(t, retained[d].source, InputEdit(t, retained[d].source))
    BY DEF TreeIsOfSource
  <2>1. t \in Seq(Chars)
    BY SyntaxAssumption
  <2>2. retained[d].source \in Seq(Chars)
    <3>1. <<>> \in Seq(Chars)
      OBVIOUS
    <3>2. QED
      BY <3>1, SyntaxAssumption DEF SyntaxInv, RetainedFit
  <2>3. QED
    BY <2>1, <2>2, EditLeads
<1>3. QED
  BY <1>1, <1>2, SyntaxStep, PTL DEF WorkbenchSpec

-----------------------------------------------------------------------------
(* The editor stands still while another part moves.                       *)
LEMMA EditorStep ==
  ASSUME EditorTypeOK, [WorkbenchNext]_workbench
  PROVE  EditorTypeOK' /\ [OnText => OnText']_editorVars
<1>1. CASE UNCHANGED editorVars
  BY <1>1 DEF editorVars, EditorTypeOK
<1>2. CASE EditorNext
  BY <1>2, EditorStepOnText
<1>3. QED
  BY <1>1, <1>2 DEF WorkbenchNext, workbench, InPane, InLayout, InEditor, InSyntax

(* The text stays one the alphabet can write, within its bound, and the    *)
(* cursor and the anchor stay places.                                      *)
THEOREM EditorTypeCorrect == WorkbenchSpec => []EditorTypeOK
<1>1. WorkbenchInit => EditorTypeOK
  BY EditorInitOK DEF WorkbenchInit
<1>2. EditorTypeOK /\ [WorkbenchNext]_workbench => EditorTypeOK'
  BY EditorStep
<1>3. QED
  BY <1>1, <1>2, PTL DEF WorkbenchSpec

(* A cursor and an anchor on characters of the text stay on them, in texts *)
(* of any length and whatever is typed, pasted, deleted or clicked.        *)
THEOREM PlacesAlwaysStayOnText == WorkbenchSpec => PlacesStayOnText
<1>1. EditorTypeOK /\ [WorkbenchNext]_workbench => [OnText => OnText']_editorVars
  BY EditorStep
<1>2. QED
  BY EditorTypeCorrect, <1>1, PTL DEF WorkbenchSpec, PlacesStayOnText

(* For every text of the alphabet and every byte, the conversions between  *)
(* bytes, cells, UTF-16 units, lines and clusters lead back to where they  *)
(* came from.                                                              *)
THEOREM ConversionsAlwaysAgree == WorkbenchSpec => []ConversionsAgree
<1>1. ASSUME EditorTypeOK PROVE ConversionsAgree
  BY <1>1, TextsAreSequences, AlphabetIsChars, ConversionsOfText DEF EditorTypeOK
<1>2. QED
  BY EditorTypeCorrect, <1>1, PTL

(* In every window, at every scroll position and with every text, a click  *)
(* on a cell that shows a character goes to a place in that cell; in a     *)
(* pane of three rows it goes to the start of the line shown.              *)
THEOREM ClicksAlwaysHit == WorkbenchSpec => []ClickHitsWhatIsShown
<1>1. ASSUME EditorTypeOK PROVE ClickHitsWhatIsShown
  BY <1>1, TextsAreSequences, AlphabetIsChars, ClicksOfText DEF EditorTypeOK
<1>2. QED
  BY EditorTypeCorrect, <1>1, PTL
=============================================================================
