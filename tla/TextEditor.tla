----------------------------- MODULE TextEditor -----------------------------
(***************************************************************************)
(* The editing of the current document by App (app.rs, EditorInsert to     *)
(* EditorPage): a rope, and a cursor and a selection anchor that are byte  *)
(* offsets kept in the tab (layout.rs), apart from the rope they point to. *)
(* A tab restored from the workspace file has the places it had in the     *)
(* text of the last run, whatever the file holds now.                      *)
(***************************************************************************)
EXTENDS Coordinates

CONSTANTS
  Alphabet,  \* the kinds of characters in use
  MaxText,   \* bound: characters of the text
  Windows,   \* rectangles of the editor
  Restored   \* bound: places a cursor may be restored to

ASSUME EditorAssumption ==
  /\ Alphabet \subseteq Chars /\ MaxText \in Nat /\ Restored \subseteq Nat
  /\ Windows \subseteq [x : Nat, y : Nat, width : Nat, height : Nat]

VARIABLES
  text,    \* the rope
  cursor,  \* cursor_byte
  anchor   \* selection_anchor, None when there is none

editorVars == <<text, cursor, anchor>>

None == -1
Texts == UNION {[1..n -> Alphabet] : n \in 0..MaxText}
(* What the keyboard gives: Enter and Tab are no characters.               *)
Typed == {<<c>> : c \in Alphabet \ {"tab", "newline"}}
Pasted == {s \in Texts : Len(s) \in 1..2}

EditorInit ==
  /\ text \in Texts
  /\ cursor \in Restored
  /\ anchor \in {None, cursor}

-----------------------------------------------------------------------------
(* Buffer::apply_edit: offsets are clamped and moved to boundaries.        *)
ApplyEdit(start, end, replacement) ==
  LET from == PrevCharBoundary(text, start)
      to == Higher(PrevCharBoundary(text, Higher(end, start)), from)
  IN  /\ text' = SubSeq(text, 1, Index(text, from)) \o replacement
                 \o SubSeq(text, Index(text, to) + 1, Len(text))
      /\ Len(text') <= MaxText

SetEditorCursor(byte) == cursor' = byte /\ anchor' = None

(* Mutant: the cursor advances by a character.                             *)
InsertCounting(s) ==
  /\ ApplyEdit(cursor, cursor, s)
  /\ SetEditorCursor(cursor + Len(s))

(* EditorInsert and EditorPaste: what is selected stays.                   *)
Insert(s) ==
  /\ ApplyEdit(cursor, cursor, s)
  /\ SetEditorCursor(cursor + ByteLen(s))
EditorInsert == \E s \in Typed : Insert(s)
EditorPaste == \E s \in Pasted : Insert(s)

EditorDeleteBackward ==
  LET a == SnapToGraphemeStart(text, anchor)
      c == SnapToGraphemeStart(text, cursor)
      start == IF anchor # None /\ a # c THEN Lower(a, c) ELSE MoveLeft(text, c)
      end == IF anchor # None /\ a # c THEN Higher(a, c) ELSE c
  IN  /\ start # end
      /\ ApplyEdit(start, end, <<>>)
      /\ SetEditorCursor(start)

(* extend_or_move_cursor, and then the anchor is snapped.                  *)
ExtendOrMoveCursor(byte, extend) ==
  /\ cursor' = SnapToGraphemeStart(text, byte)
  /\ anchor' = IF ~extend THEN None
               ELSE SnapToGraphemeStart(text, IF anchor = None THEN cursor ELSE anchor)
  /\ UNCHANGED text
Cursor == SnapToGraphemeStart(text, cursor)
Beside == {MoveLeft(text, Cursor), MoveRight(text, Cursor)}
          \cup {MoveVertical(text, Cursor, delta) : delta \in {-1, 1}}
EditorMoveCursor == \E extend \in BOOLEAN, byte \in Beside : ExtendOrMoveCursor(byte, extend)
Page(rect) == IF rect.height > 2 THEN rect.height - 2 ELSE 1
EditorPage == \E extend \in BOOLEAN, rect \in Windows, up \in BOOLEAN :
  ExtendOrMoveCursor(
    MoveVertical(text, Cursor, IF up THEN -Page(rect) ELSE Page(rect)), extend)

(* A click and a drag: on the tabs, the gutter, a few columns and rows.    *)
Pointed == {EditorMouseToByte(text, rect, scroll, x, y) :
  rect \in Windows, scroll \in 0..1, x \in {5, 6, 7, 9, 12}, y \in {0, 2, 3, 4}}
EditorSetCursor == \E byte \in Pointed :
  /\ SetEditorCursor(SnapToGraphemeStart(text, byte))
  /\ UNCHANGED text
EditorSetSelection == \E byte \in Pointed :
  /\ anchor' = SnapToGraphemeStart(text, IF anchor = None THEN cursor ELSE anchor)
  /\ cursor' = SnapToGraphemeStart(text, byte)
  /\ UNCHANGED text

EditorNext ==
  \/ EditorInsert \/ EditorPaste \/ EditorDeleteBackward \/ EditorMoveCursor
  \/ EditorPage \/ EditorSetCursor \/ EditorSetSelection
EditorSpec == EditorInit /\ [][EditorNext]_editorVars

-----------------------------------------------------------------------------
EditorTypeOK == text \in Texts /\ cursor \in Nat /\ anchor \in Nat \cup {None}

Valid(t, byte) == byte = None \/ byte \in Boundaries(t)
OnText == Valid(text, cursor) /\ Valid(text, anchor)

(* Once the cursor and the anchor are on characters of the text they stay  *)
(* so, whatever is typed, pasted, deleted or selected: no later edit goes  *)
(* anywhere but where it is shown.  (A restored cursor need not be.)       *)
PlacesStayOnText == [][OnText => OnText']_editorVars

(* The conversions agree: with a text of any characters, a cell, a UTF-16  *)
(* position, a line and column and the number of a cluster lead back to    *)
(* what they came from, for every byte.                                    *)
ConversionsAgree ==
  LET starts == GraphemeStarts(text) IN
  \A byte \in 0..(ByteLen(text) + 1) :
    LET start == SnapToGraphemeStart(text, byte)
        cell == ByteToCell(text, byte)
        utf16 == ByteToUtf16(text, byte)
        at == ByteToLineCol(text, byte)
    IN  /\ ByteToCell(text, CellToByte(text, cell.line, cell.column)) = cell
        /\ Utf16ToByte(text, utf16[1], utf16[2]) = start
        /\ start \in starts =>
             GraphemeToByte(text, ByteToGrapheme(text, byte)) = start
        /\ LineColToByte(text, at[1], at[2]) = Lower(byte, ByteLen(text))

(* A click on a cell that shows a character goes to a place in that cell,  *)
(* for every rectangle and scroll position: the mouse mapping and the      *)
(* renderer, which lay the screen out twice, agree.  Where they do not, in *)
(* a pane of three rows, the click goes to the start of the line shown.    *)
ClickHitsWhatIsShown ==
  \A rect \in Windows, scroll \in 0..LenLines(text) :
    \A shown \in ShownCells(text, rect, scroll) :
      LET hit == ByteToCell(text, EditorMouseToByte(text, rect, scroll, shown.x, shown.y))
          cell == ByteToCell(text, shown.at)
      IN  hit = IF rect.height = 3 THEN [line |-> cell.line, column |-> 0] ELSE cell

-----------------------------------------------------------------------------
(* What the repository says.                                               *)

(* Backspace with nothing selected removes what stands before the cursor   *)
(* and nothing else: one cluster of the line, or at the start of a line    *)
(* the line break.                                                         *)
BackspaceDeletesOne ==
  [][(EditorDeleteBackward /\ anchor = None /\ cursor = Cursor) =>
       LET line == LineForByte(text, cursor)
           s == Line(text, line)
           i == Index(text, cursor) - LineStart(text, line)
           last == IF i = 0 THEN 0 ELSE Greatest({j \in Clusters(s) : j < i})
       IN  Len(text) - Len(text') = IF i = 0 THEN 1 ELSE i - last]_editorVars
=============================================================================
