---------------------------- MODULE Coordinates -----------------------------
(***************************************************************************)
(* The conversions of coordinate.rs between bytes, cells, UTF-16 units and *)
(* grapheme clusters, over a text that is a sequence of characters of a    *)
(* few kinds, and the movements and the mouse mapping built from them.     *)
(*                                                                         *)
(* A place is a byte offset, as in the code; an index counts characters.   *)
(* A line ends at "newline" only: the other line breaks of the rope are    *)
(* not in the alphabet.                                                    *)
(***************************************************************************)
EXTENDS Integers, FiniteSets, FiniteSetsExt, SequencesExt

(* Character kinds: a letter, a CJK letter, an emoji, a combining accent.  *)
Chars == {"letter", "cjk", "emoji", "accent", "tab", "newline"}
Bytes == [c \in Chars |->
  CASE c = "cjk" -> 3 [] c = "emoji" -> 4 [] c = "accent" -> 2 [] OTHER -> 1]
Cells == [c \in Chars |->
  CASE c \in {"cjk", "emoji"} -> 2 [] c \in {"accent", "newline"} -> 0
    [] c = "tab" -> 4 [] OTHER -> 1]
Units == [c \in Chars |-> IF c = "emoji" THEN 2 ELSE 1]

Total(size, s) ==
  LET sum[n \in 0..Len(s)] == IF n = 0 THEN 0 ELSE sum[n - 1] + size[s[n]]
  IN  sum[Len(s)]
ByteLen(s) == Total(Bytes, s)
Least(S) == CHOOSE x \in S : \A y \in S : x <= y
Greatest(S) == CHOOSE x \in S : \A y \in S : x >= y
Lower(a, b) == IF a < b THEN a ELSE b
Higher(a, b) == IF a < b THEN b ELSE a

(* The place of an index, the places of all, and the index of a place.     *)
Place(s, i) == ByteLen(SubSeq(s, 1, i))
Boundaries(s) == {Place(s, i) : i \in 0..Len(s)}
Index(s, b) == CHOOSE i \in 0..Len(s) : Place(s, i) = b
PrevCharBoundary(s, b) == Greatest({p \in Boundaries(s) : p <= b})

-----------------------------------------------------------------------------
(* Lines, from 0, each by the index it starts after.                       *)
LineStarts(t) == {0} \cup {i \in 1..Len(t) : t[i] = "newline"}
LenLines(t) == Cardinality(LineStarts(t))
LineForByte(t, b) == Cardinality({i \in 1..Len(t) : t[i] = "newline" /\ Place(t, i) <= b})
LineStart(t, line) ==
  LET starts == LineStarts(t)
  IN  IF line = 0 THEN 0 ELSE CHOOSE i \in starts : Cardinality({j \in starts : j < i}) = line
LineToByte(t, line) == Place(t, LineStart(t, line))
(* The characters of a line, without its terminator.                       *)
Line(t, line) ==
  LET from == LineStart(t, line)
      ends == {i \in from..(Len(t) - 1) : t[i + 1] = "newline"}
  IN  SubSeq(t, from + 1, IF ends = {} THEN Len(t) ELSE Least(ends))

(* Indices of a line where a cluster starts: an accent belongs to what is  *)
(* before it, unless that is a control character.                          *)
Clusters(s) == {i \in 0..(Len(s) - 1) :
  s[i + 1] # "accent" \/ i = 0 \/ s[i] = "tab"}
ClusterEnd(s, i) ==
  LET later == {j \in Clusters(s) : j > i} IN IF later = {} THEN Len(s) ELSE Least(later)
(* Columns of a cluster and after it.                                      *)
Column(s, i) == Total(Cells, SubSeq(s, 1, i))
ColumnAfter(s, i) == Column(s, ClusterEnd(s, i))

-----------------------------------------------------------------------------
SnapToGraphemeStart(t, byte) ==
  LET b == PrevCharBoundary(t, byte)
      line == LineForByte(t, b)
      s == Line(t, line)
      rel == Lower(b - LineToByte(t, line), ByteLen(s))
      starts == {Place(s, i) : i \in Clusters(s) \cup {Len(s)}}
  IN  LineToByte(t, line) + Greatest({p \in starts : p <= rel} \cup {0})

CellToByte(t, line, column) ==
  LET row == Lower(line, LenLines(t) - 1)
      s == Line(t, row)
      hit == {i \in Clusters(s) : Column(s, i) = column \/ ColumnAfter(s, i) > column}
  IN  LineToByte(t, row) + Place(s, IF hit = {} THEN Len(s) ELSE Least(hit))

ByteToCell(t, byte) ==
  LET b == SnapToGraphemeStart(t, byte)
      line == LineForByte(t, b)
  IN  [line |-> line,
       column |-> Column(Line(t, line), Index(t, b) - LineStart(t, line))]

ByteToLineCol(t, byte) ==
  LET b == Lower(byte, ByteLen(t)) IN <<LineForByte(t, b), b - LineToByte(t, LineForByte(t, b))>>
LineColToByte(t, line, col) ==
  LET row == Lower(line, LenLines(t) - 1)
      end == IF row + 1 < LenLines(t) THEN LineToByte(t, row + 1) ELSE ByteLen(t)
  IN  LineToByte(t, row) + Lower(col, end - LineToByte(t, row))

(* Mutant: every character is one unit.                                    *)
ByteToUtf16Chars(t, byte) ==
  LET b == SnapToGraphemeStart(t, byte)
      line == LineForByte(t, b)
  IN  <<line, Index(t, b) - LineStart(t, line)>>

ByteToUtf16(t, byte) ==
  LET b == SnapToGraphemeStart(t, byte)
      line == LineForByte(t, b)
  IN  <<line, Total(Units, SubSeq(t, LineStart(t, line) + 1, Index(t, b)))>>

Utf16ToByte(t, line, unit) ==
  LET row == Lower(line, LenLines(t) - 1)
      s == Line(t, row)
      fits == {i \in 0..Len(s) : Total(Units, SubSeq(s, 1, i)) <= unit}
  IN  SnapToGraphemeStart(t, LineToByte(t, row) + Place(s, Greatest(fits)))

-----------------------------------------------------------------------------
(* Clusters of the whole text have numbers; the ends of lines have none.   *)
GraphemeStarts(t) == UNION {
  LET s == Line(t, line)
      from == LineToByte(t, line)
  IN  {from + Place(s, i) : i \in Clusters(s)}
    : line \in 0..(LenLines(t) - 1)}
ByteToGrapheme(t, byte) ==
  LET b == SnapToGraphemeStart(t, byte) IN Cardinality({p \in GraphemeStarts(t) : p < b})
GraphemeToByte(t, g) ==
  LET starts == GraphemeStarts(t)
      at == {p \in starts : Cardinality({q \in starts : q < p}) = g}
  IN  IF at = {} THEN ByteLen(t) ELSE Least(at)

MoveLeft(t, byte) ==
  LET g == ByteToGrapheme(t, byte) IN IF g = 0 THEN 0 ELSE GraphemeToByte(t, g - 1)
MoveRight(t, byte) ==
  IF ByteToGrapheme(t, byte) >= ByteToGrapheme(t, ByteLen(t))
  THEN ByteLen(t)
  ELSE GraphemeToByte(t, ByteToGrapheme(t, byte) + 1)
MoveVertical(t, byte, delta) ==
  LET cell == ByteToCell(t, byte)
      line == Lower(Higher(cell.line + delta, 0), LenLines(t) - 1)
  IN  IF delta = 0 THEN SnapToGraphemeStart(t, byte)
      ELSE SnapToGraphemeStart(t, CellToByte(t, line, cell.column))

-----------------------------------------------------------------------------
(* The screen.  A border of one cell, the tabs, a breadcrumb when there is *)
(* room, and a gutter with the number of the line.                         *)
Digits(n) == Cardinality({k \in 0..n : 10 ^ k <= n})
GutterWidth(lines) == Higher(Digits(lines), 2) + 2
(* Mutant: there is always room for a breadcrumb.                          *)
HeaderAlwaysTwo(rect) == 2
HeaderRows(rect) == 1 + (IF rect.height - 2 >= 4 THEN 1 ELSE 0)
CodeY(rect) == rect.y + 1 + HeaderRows(rect)
CodeX(rect) == rect.x + 1

EditorMouseToByte(t, rect, scroll, x, y) ==
  LET line == scroll + y - CodeY(rect)
      column == x - CodeX(rect) - GutterWidth(LenLines(t))
  IN  IF rect.width = 0 \/ rect.height = 0 THEN 0
      ELSE IF y < CodeY(rect) \/ x < CodeX(rect) THEN CellToByte(t, scroll, 0)
      ELSE CellToByte(t, Lower(line, LenLines(t) - 1), Higher(column, 0))

(* ui/editor.rs: where the code is drawn, and the cells of the clusters    *)
(* that are.  The row of the tabs gives way to the code, which is to have  *)
(* one at least, when there is only one for both.                          *)
CodeArea(rect) ==
  LET inner == rect.height - 2
      header == IF inner >= 4 THEN 2 ELSE IF inner = 1 THEN 0 ELSE 1
  IN  [x |-> rect.x + 1, y |-> rect.y + 1 + header,
       width |-> rect.width - 2, height |-> inner - header]
FirstShown(t, scroll) == Lower(scroll, LenLines(t) - 1)
ShownCells(t, rect, scroll) ==
  LET area == CodeArea(rect)
      numbers == Higher(Digits(LenLines(t)), 2) + 2
      first == FirstShown(t, scroll)
  IN  UNION {
        LET s == Line(t, line) IN
        UNION {{[x |-> area.x + numbers + column, y |-> area.y + line - first,
                 at |-> LineToByte(t, line) + Place(s, i)] :
                  column \in {c \in Column(s, i)..(ColumnAfter(s, i) - 1) :
                                numbers + c < area.width}} : i \in Clusters(s)}
        : line \in first..Lower(LenLines(t) - 1, first + area.height - 1)}
=============================================================================
